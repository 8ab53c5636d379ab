----------------------------- MODULE MCDispatcher -----------------------------
(* Instances of the dispatcher for TLC. *)
EXTENDS Dispatcher, TLC

CONSTANTS c1, c2, c3

Request(key, origin, size, id) ==
  [key |-> key, origin |-> origin, size |-> size, id |-> id]

\* One request that passes, one for each check of prepare.
MCRequests ==
  {Request("k", "a", 1, 0), Request("k", "evil", 1, 0),
   Request("k", "a", 2, 7)}

MCGoodRequests == {Request("k", "a", 1, 0)}

MCNoParent == [c \in Calls |-> NoCall]

\* The handler of c1 makes the other calls.
MCNested == [c \in Calls |-> IF c = c1 THEN NoCall ELSE c1]

\* Callers without a parent are interchangeable, as are Shutdown calls.
MCSymmetry == Permutations(Calls) \cup Permutations(Shutdowns)
===============================================================================
