--------------------------------- MODULE MCIpc ---------------------------------
(* An instance of the ports and the router for TLC. *)
EXTENDS Ipc, TLC

\* Goroutines, messages, listeners and registrations are interchangeable.
MCSymmetry ==
  Permutations(Goroutines) \cup Permutations(Messages)
    \cup Permutations(Listeners) \cup Permutations(Registrations)
===============================================================================
