------------------------------ MODULE AppLifecycle ------------------------------
(***************************************************************************)
(* The App of internal/applifecycle/lifecycle.go, used by goroutines that  *)
(* interleave between critical sections of App.mu.                         *)
(*                                                                         *)
(* Emit calls handlers on its own goroutine with no lock held, and they    *)
(* may use the App again: a goroutine is a stack of operations, and may    *)
(* begin another when it has none or is inside a callback.  Exit codes     *)
(* are left out: an operation only passes its own on.                      *)
(***************************************************************************)
EXTENDS Naturals, Sequences, Functions

CONSTANTS
  Goroutines,
  Handlers,   \* what On is given, each once
  Waiters,    \* what WhenReady is given, each once
  MaxOps      \* bound on the operations begun in a behaviour

ASSUME CallbackAssumption == Handlers \cap Waiters = {}
ASSUME OpsAssumption == MaxOps \in Nat

Events == {"will-finish-launching", "ready", "window-all-closed",
           "before-quit", "will-quit", "quit"}

VARIABLES
  ready,        \* app.ready
  quitting,     \* app.quitting
  waiters,      \* app.readyWaiters
  handlers,     \* app.handlers
  emitted,      \* app.emittedEvents, as the number of each event
  stack,        \* what each goroutine is doing, innermost last
  ops,          \* how many operations have begun
  called,       \* history: how often each callback was called
  given,        \* history: the waiters WhenReady was given
  vetoed,       \* history: how many emissions of an event were prevented
  exits,        \* history: how many calls of Exit
  ignored       \* history: a WindowAllClosed left the app to nobody

state == <<ready, quitting, waiters, handlers, emitted>>
history == <<called, given, vetoed, exits, ignored>>
vars == <<state, history, stack, ops>>

Init ==
  /\ ready = FALSE
  /\ quitting = FALSE
  /\ waiters = <<>>
  /\ handlers = [e \in Events |-> <<>>]
  /\ emitted = [e \in Events |-> 0]
  /\ stack = [g \in Goroutines |-> <<>>]
  /\ ops = 0
  /\ called = [c \in Handlers \cup Waiters |-> 0]
  /\ given = {}
  /\ vetoed = [e \in {"before-quit", "will-quit"} |-> 0]
  /\ exits = 0
  /\ ignored = FALSE

-----------------------------------------------------------------------------
(* An operation: the step it has reached, and while it emits, the callbacks *)
(* still to call and what they have done to the EventContext.              *)

Operation(at, calls) ==
  [at |-> at, calls |-> calls, inside |-> FALSE, prevented |-> FALSE,
   told |-> FALSE, waiting |-> <<>>]

Top(g) == stack[g][Len(stack[g])]

\* g has no callback to call before its next step.
At(g, step) == stack[g] # <<>> /\ Top(g).calls = <<>> /\ Top(g).at = step

\* g is inside a callback it makes.
Inside(g) == stack[g] # <<>> /\ Top(g).inside

Begin(g) ==
  /\ ops < MaxOps
  /\ stack[g] = <<>> \/ Inside(g)
  /\ ops' = ops + 1

SetTop(g, frame) == stack' = [stack EXCEPT ![g][Len(stack[g])] = frame]

Push(g, frame) == stack' = [stack EXCEPT ![g] = Append(@, frame)]

Pop(g) == stack' = [stack EXCEPT ![g] = SubSeq(@, 1, Len(@) - 1)]

GoOn(g, step) == SetTop(g, [Top(g) EXCEPT !.at = step])

-----------------------------------------------------------------------------
(* Operations. *)

On(g, e, h) ==
  /\ Begin(g)
  /\ \A f \in Events : h \notin Range(handlers[f])
  /\ handlers' = [handlers EXCEPT ![e] = Append(@, h)]
  /\ UNCHANGED <<ready, quitting, waiters, emitted, history, stack>>

FaultyMustWait == TRUE

MustWait == ~ready

\* WhenReady calls at once, unlocked, or leaves the call to MarkReady.
WhenReady(g, w) ==
  /\ Begin(g)
  /\ w \notin given
  /\ given' = given \cup {w}
  /\ IF MustWait
       THEN waiters' = Append(waiters, w) /\ UNCHANGED stack
       ELSE Push(g, Operation("return", <<w>>)) /\ UNCHANGED waiters
  /\ UNCHANGED <<ready, quitting, handlers, emitted, called, vetoed, exits,
                 ignored>>

\* A second MarkReady is an error that changes nothing.
MarkReady(g) ==
  /\ Begin(g)
  /\ ~ready
  /\ ready' = TRUE
  /\ waiters' = <<>>
  /\ Push(g, [Operation("will-finish-launching", <<>>)
                EXCEPT !.waiting = waiters])
  /\ UNCHANGED <<quitting, handlers, emitted, history>>

WindowAllClosed(g) ==
  /\ Begin(g)
  /\ Push(g, Operation("window-all-closed", <<>>))
  /\ UNCHANGED <<state, history>>

Quit(g) ==
  /\ Begin(g)
  /\ Push(g, Operation("before-quit", <<>>))
  /\ UNCHANGED <<state, history>>

Exit(g) ==
  /\ Begin(g)
  /\ quitting' = TRUE
  /\ exits' = exits + 1
  /\ Push(g, Operation("quit", <<>>))
  /\ UNCHANGED <<ready, waiters, handlers, emitted, called, given, vetoed,
                 ignored>>

-----------------------------------------------------------------------------
(* The steps of an operation. *)

\* What an operation does once it has emitted e.
After(e) ==
  CASE e = "will-finish-launching" -> "ready"
    [] e = "ready"                 -> "waiters"
    [] e = "window-all-closed"     -> "subscribed"
    [] e = "before-quit"           -> "will-quit"
    [] e = "will-quit"             -> "commit"
    [] e = "quit"                  -> "return"

FaultyPrevented(g) == Top(g).prevented /\ Top(g).at = "will-quit"

Prevented(g) == Top(g).prevented

\* Emit takes the handlers there are and records the event.
Emit(g, e) ==
  /\ At(g, e) /\ ~Prevented(g)
  /\ emitted' = [emitted EXCEPT ![e] = @ + 1]
  /\ SetTop(g, [Top(g) EXCEPT !.at = After(e), !.calls = handlers[e],
                              !.told = handlers[e] # <<>>])
  /\ UNCHANGED <<ready, quitting, waiters, handlers, ops, history>>

CallBack(g) ==
  /\ stack[g] # <<>> /\ Top(g).calls # <<>> /\ ~Top(g).inside
  /\ called' = [called EXCEPT ![Head(Top(g).calls)] =
                  IF @ < 2 THEN @ + 1 ELSE @]
  /\ SetTop(g, [Top(g) EXCEPT !.inside = TRUE])
  /\ UNCHANGED <<state, ops, given, vetoed, exits, ignored>>

\* The callback returns, and may have prevented the default of its event; only
\* Quit asks whether it did.
CallReturns(g) ==
  /\ Inside(g)
  /\ \/ /\ SetTop(g, [Top(g) EXCEPT !.calls = Tail(@), !.inside = FALSE])
        /\ UNCHANGED vetoed
     \/ \E e \in {"before-quit", "will-quit"} :
          /\ Top(g).at = After(e) /\ ~Top(g).prevented
          /\ SetTop(g, [Top(g) EXCEPT !.calls = Tail(@), !.inside = FALSE,
                                      !.prevented = TRUE])
          /\ vetoed' = [vetoed EXCEPT ![e] = @ + 1]
  /\ UNCHANGED <<state, ops, called, given, exits, ignored>>

\* emitCancellable reports a prevented default, and Quit gives up.
GiveUp(g, e) ==
  /\ At(g, After(e)) /\ Prevented(g)
  /\ Pop(g)
  /\ UNCHANGED <<state, ops, history>>

Commit(g) ==
  /\ At(g, "commit") /\ ~Prevented(g)
  /\ quitting' = TRUE
  /\ SetTop(g, [Top(g) EXCEPT !.at = "quit", !.prevented = FALSE])
  /\ UNCHANGED <<ready, waiters, handlers, emitted, ops, history>>

\* WindowAllClosed leaves the app to its subscribers, those there are by now.
Subscribed(g) ==
  /\ At(g, "subscribed")
  /\ IF handlers["window-all-closed"] # <<>>
       THEN Pop(g) /\ ignored' = (ignored \/ ~Top(g).told)
       ELSE GoOn(g, "before-quit") /\ UNCHANGED ignored
  /\ UNCHANGED <<state, ops, called, given, vetoed, exits>>

CallWaiters(g) ==
  /\ At(g, "waiters")
  /\ SetTop(g, Operation("return", Top(g).waiting))
  /\ UNCHANGED <<state, ops, history>>

Return(g) ==
  /\ At(g, "return")
  /\ Pop(g)
  /\ UNCHANGED <<state, ops, history>>

-----------------------------------------------------------------------------
Next ==
  \E g \in Goroutines :
    \/ \E e \in Events, h \in Handlers : On(g, e, h)
    \/ \E w \in Waiters : WhenReady(g, w)
    \/ MarkReady(g)
    \/ WindowAllClosed(g)
    \/ Quit(g)
    \/ Exit(g)
    \/ \E e \in Events : Emit(g, e)
    \/ CallBack(g)
    \/ CallReturns(g)
    \/ \E e \in {"before-quit", "will-quit"} : GiveUp(g, e)
    \/ Commit(g)
    \/ Subscribed(g)
    \/ CallWaiters(g)
    \/ Return(g)

Spec == Init /\ [][Next]_vars

-----------------------------------------------------------------------------
(* Properties. *)

Quiet == \A g \in Goroutines : stack[g] = <<>>

\* WhenReady's callbacks: each is called once and not before the app is ready,
\* whether MarkReady runs before, after or beside the WhenReady that gave it.
WaitersRunOnce ==
  \A w \in Waiters :
    /\ called[w] <= 1
    /\ called[w] > 0 => ready
    /\ (Quiet /\ ready /\ w \in given) => called[w] = 1

\* The books of quitting balance, whatever goroutines and handlers quit, exit
\* and prevent at the same time: a quit that was prevented emits nothing more,
\* every other emits all three events, and the app is quitting if any did.
QuitBooks ==
  /\ emitted["quit"] > 0 => quitting
  /\ emitted["ready"] <= emitted["will-finish-launching"]
  /\ emitted["will-finish-launching"] <= 1
  /\ emitted["will-quit"] + vetoed["before-quit"] <= emitted["before-quit"]
  /\ emitted["quit"] + vetoed["will-quit"] <= emitted["will-quit"] + exits
  /\ Quiet =>
       /\ emitted["will-quit"] + vetoed["before-quit"] = emitted["before-quit"]
       /\ emitted["quit"] + vetoed["will-quit"] = emitted["will-quit"] + exits
       /\ quitting <=> emitted["quit"] > 0

\* lifecycle_test.go: without a subscriber "want default quit", with one "want
\* controlled non-quit", and it "was not called" is a failure.  So a
\* WindowAllClosed that does not quit has called a subscriber.  The code breaks
\* this: it looks for subscribers again after it has called those it found.
WindowAllClosedIsAnswered == ~ignored
===============================================================================
