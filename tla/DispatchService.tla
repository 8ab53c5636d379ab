--------------------------- MODULE DispatchService ---------------------------
(***************************************************************************)
(* What the dispatcher of internal/native/dispatcher.go promises of each   *)
(* call, with no goroutine, channel or context: a call is refused, or it   *)
(* joins a line.  While the service runs it takes the head of the line,    *)
(* one at a time, and answers it; once it has stopped it drops the head    *)
(* instead and answers that.  An answer is final, and so is a refusal.     *)
(***************************************************************************)
EXTENDS Sequences

CONSTANT Calls

VARIABLES
  state,    \* what has become of each call
  line,     \* the calls waiting, oldest first
  serving   \* whether the service still takes calls from the line

vars == <<state, line, serving>>

States == {"new", "refused", "waiting", "running", "dropped", "answered"}

Init ==
  /\ state = [c \in Calls |-> "new"]
  /\ line = <<>>
  /\ serving = TRUE

Move(c, from, to) ==
  /\ state[c] = from
  /\ state' = [state EXCEPT ![c] = to]

Submit(c) ==
  /\ Move(c, "new", "waiting")
  /\ line' = Append(line, c)
  /\ UNCHANGED serving

Refuse(c) == Move(c, "new", "refused") /\ UNCHANGED <<line, serving>>

Run ==
  /\ serving
  /\ \A c \in Calls : state[c] # "running"
  /\ line # <<>>
  /\ Move(Head(line), "waiting", "running")
  /\ line' = Tail(line)
  /\ UNCHANGED serving

Drop ==
  /\ ~serving
  /\ line # <<>>
  /\ Move(Head(line), "waiting", "dropped")
  /\ line' = Tail(line)
  /\ UNCHANGED serving

Answer(c) ==
  /\ Move(c, "running", "answered") \/ Move(c, "dropped", "answered")
  /\ UNCHANGED <<line, serving>>

\* The service stops between two calls, never inside one.
Stop ==
  /\ serving
  /\ \A c \in Calls : state[c] # "running"
  /\ serving' = FALSE
  /\ UNCHANGED <<state, line>>

Next ==
  \/ \E c \in Calls : Submit(c) \/ Refuse(c) \/ Answer(c)
  \/ Run
  \/ Drop
  \/ Stop

Spec == Init /\ [][Next]_vars
===============================================================================
