------------------------------- MODULE MCMainRun -------------------------------
(* Instances of the whole process for TLC. *)
EXTENDS MainRun

Source(benchmark, recognized, ipc, calls, allClosedQuits) ==
  [benchmark |-> benchmark, recognized |-> recognized, ipc |-> ipc,
   calls |-> calls, allClosedQuits |-> allClosedQuits]

\* The benchmark, the script with a preload, one that is not supported, and
\* every set of calls after the load.
MCSources ==
  {Source(TRUE, TRUE, FALSE, {"mark", "close", "quit"}, TRUE),
   Source(FALSE, FALSE, FALSE, {}, FALSE)}
  \cup {Source(FALSE, TRUE, TRUE, {}, q) : q \in BOOLEAN}
  \cup {Source(FALSE, TRUE, FALSE, calls, q) :
          calls \in SUBSET {"mark", "close", "quit"}, q \in BOOLEAN}
===============================================================================
