----------------------------- MODULE MCAppLifecycle -----------------------------
(* Instances of the app for TLC. *)
EXTENDS AppLifecycle, TLC

\* Goroutines, handlers and waiters are interchangeable.
MCSymmetry ==
  Permutations(Goroutines) \cup Permutations(Handlers) \cup Permutations(Waiters)
===============================================================================
