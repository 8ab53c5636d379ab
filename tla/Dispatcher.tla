------------------------------ MODULE Dispatcher ------------------------------
(***************************************************************************)
(* The bridge work dispatcher of internal/native/dispatcher.go: a bounded  *)
(* queue of work, one worker goroutine, callers in Dispatch, TryDispatch   *)
(* and Invoke, registrars, and any number of concurrent Shutdown calls,    *)
(* each with its own draining goroutine.                                   *)
(*                                                                         *)
(* A step is what one goroutine does between two points where another can  *)
(* observe it: an atomic load or swap, a critical section of mu, a channel *)
(* operation.  Payload bytes, durations and messages are left out; a       *)
(* response or an error is its code.  An operator named Faulty... stands   *)
(* for a plausible fault in the operator after it, which the properties    *)
(* must detect; no action uses it.                                         *)
(***************************************************************************)
EXTENDS Integers, Sequences, FiniteSets, Functions

CONSTANTS
  Calls,       (* API calls: each is one Dispatch, TryDispatch or Invoke   *)
  Shutdowns,   (* Shutdown calls                                           *)
  Registrars,  (* goroutines that call Register                            *)
  Keys,        (* capability/method pairs dispatchKey accepts              *)
  Handlers,    (* registered handler functions                             *)
  Requests,    (* the requests a caller may pass                           *)
  Outcomes,    (* what a handler may return: see Code                      *)
  ContextErrors, (* how a caller's context may end                         *)
  Kinds,       (* API entry points in use                                  *)
  Parent,      (* the call whose handler makes a call, NoCall if none      *)
  QueueSize,   (* DispatcherOptions.QueueSize                              *)
  MaxSize,     (* DispatcherOptions.MaxPayloadBytes                        *)
  AllowedOrigins, AllowedKeys, (* StaticDispatchPolicy; {} allows all      *)
  NoCall, NoHandler, NoKey

Codes == {"ok", "invalid_request", "unauthorized", "backpressure",
          "dispatcher_closed", "timeout", "canceled", "handler_not_found",
          "handler_failed", "handler_panic", "payload_too_large",
          "response_too_large"}

ASSUME CallAssumption ==
  /\ NoCall \notin Calls
  /\ Parent \in [Calls -> Calls \cup {NoCall}]
ASSUME HandlerAssumption == NoHandler \notin Handlers
ASSUME KeyAssumption == NoKey \notin Keys
ASSUME QueueAssumption == QueueSize \in Nat \ {0}
ASSUME SizeAssumption == MaxSize \in Nat
ASSUME RequestAssumption ==
  Requests \subseteq [key : Keys \cup {NoKey}, origin : STRING,
                      size : Nat, id : Nat]
ASSUME OutcomeAssumption ==
  /\ Outcomes \subseteq Codes \cup {"large", "error", "panic", "ctxErr"}
  /\ ContextErrors \subseteq {"canceled", "timeout"}
ASSUME KindAssumption == Kinds \subseteq {"Dispatch", "TryDispatch", "Invoke"}

VARIABLES
  handlers,      \* d.handlers: the handler of each key
  registering,   \* what each registrar checked and is about to store
  queue,         \* d.queue, the buffered channel
  closed,        \* d.closed
  done,          \* whether the channel d.done is closed
  nextID,        \* d.nextID
  pc,            \* where each call is
  call,          \* the request, the entry point and the results of each call
  ctx,           \* each call's own context: live, or the error it ended with
  answers,       \* the responses sent on each call's result channel
  worker,        \* the goroutine of run()
  current,       \* the work run() handles
  handlerCtx,    \* the timeout context of handlerContext
  shutdown,      \* where each Shutdown call is
  drainer,       \* the goroutine each Shutdown starts
  held,          \* the work a drainer received and has not yet answered
  admitted,      \* history: work in the order the queue took it
  ran,           \* history: work in the order its handler was called
  rejected       \* history: work in the order rejectQueued received it

registry == <<handlers, registering>>
callVars == <<nextID, pc, call>>
line == <<queue, admitted, answers>>
workerVars == <<worker, current, handlerCtx, ran>>
shutdownVars == <<closed, done, shutdown, drainer, held, rejected>>
vars == <<registry, callVars, ctx, line, workerVars, shutdownVars>>

ContextStates == {"live", "canceled", "timeout"}
NoCode == "none"

\* A call inside the API: enqueue's prepare, its select, Invoke's select.
Blocked == {"prepare", "select", "await"}

\* The work as enqueue builds it, with the caller's request and its result.
NoRequest == [key |-> NoKey, origin |-> "", size |-> 0, id |-> 0]

\* ret is the error a call returned, or "ok"; resp is that of the response
\* it returned with it, NoCode for no response.
IdleCall == [kind |-> "none", req |-> NoRequest, id |-> 0, handler |-> NoHandler,
             late |-> FALSE, ret |-> NoCode, resp |-> NoCode]

Init ==
  /\ handlers = [k \in Keys |-> NoHandler]
  /\ registering = [r \in Registrars |-> <<>>]
  /\ queue = <<>>
  /\ closed = FALSE
  /\ done = FALSE
  /\ nextID = 0
  /\ pc = [c \in Calls |-> "idle"]
  /\ call = [c \in Calls |-> IdleCall]
  /\ ctx = [c \in Calls |-> "live"]
  /\ answers = [c \in Calls |-> <<>>]
  /\ worker = "select"
  /\ current = NoCall
  /\ handlerCtx = "live"
  /\ shutdown = [s \in Shutdowns |-> "idle"]
  /\ drainer = [s \in Shutdowns |-> "none"]
  /\ held = [s \in Shutdowns |-> NoCall]
  /\ admitted = <<>>
  /\ ran = <<>>
  /\ rejected = <<>>

-----------------------------------------------------------------------------
(* Contexts.  A call made by a handler passes the handler's context on: it *)
(* ends with it, and handle's deferred cancel ends it once handle returns. *)

OwnError(c) ==
  IF ctx[c] # "live" THEN ctx[c]
  ELSE IF Parent[c] = NoCall THEN "live" ELSE "canceled"

HandlerError == IF handlerCtx # "live" THEN handlerCtx ELSE OwnError(current)

CtxError(c) ==
  IF ctx[c] = "live" /\ Parent[c] # NoCall /\ Parent[c] = current
    THEN HandlerError ELSE OwnError(c)

\* The caller's context is canceled or its deadline passes.  (Once neither the
\* call nor its work looks at the context, its end changes nothing.)
EndContext(c) ==
  /\ pc[c] \in Blocked \/ c \in Range(queue) \/ current = c
  /\ CtxError(c) = "live"
  /\ \E e \in ContextErrors : ctx' = [ctx EXCEPT ![c] = e]
  /\ UNCHANGED <<registry, callVars, line, workerVars, shutdownVars>>

-----------------------------------------------------------------------------
(* Register and Unregister. *)

\* Register loads closed before it takes the lock.
RegisterCheck(r, k, h) ==
  /\ registering[r] = <<>> /\ ~closed
  /\ registering' = [registering EXCEPT ![r] = <<k, h>>]
  /\ UNCHANGED <<handlers, callVars, ctx, line, workerVars, shutdownVars>>

\* An existing handler of the key is kept.
RegisterStore(r) ==
  /\ registering[r] # <<>>
  /\ LET k == registering[r][1]
         h == registering[r][2]
     IN  handlers' = IF handlers[k] = NoHandler
                       THEN [handlers EXCEPT ![k] = h] ELSE handlers
  /\ registering' = [registering EXCEPT ![r] = <<>>]
  /\ UNCHANGED <<callVars, ctx, line, workerVars, shutdownVars>>

Unregister(k) ==
  /\ handlers[k] # NoHandler
  /\ handlers' = [handlers EXCEPT ![k] = NoHandler]
  /\ UNCHANGED <<registering, callVars, ctx, line, workerVars, shutdownVars>>

-----------------------------------------------------------------------------
(* Dispatch, TryDispatch and Invoke. *)

\* enqueue's error v is returned, with no channel or an empty response.
Return(c, v) ==
  /\ pc' = [pc EXCEPT ![c] = "returned"]
  /\ call' = [call EXCEPT ![c].ret = v]

\* Invoke returns a response that holds v, and v.
Answer(c, v) ==
  /\ pc' = [pc EXCEPT ![c] = "returned"]
  /\ call' = [call EXCEPT ![c].ret = v, ![c].resp = v]

CallerRuns(c) ==
  Parent[c] = NoCall \/ (worker = "handle" /\ current = Parent[c])

FaultySeesClosed == FALSE

\* The load of closed that enqueue begins with.
SeesClosed == closed

\* A caller that sees the dispatcher closed gets no further.
Begin(c, kind, req) ==
  /\ pc[c] = "idle" /\ CallerRuns(c)
  /\ call' = [call EXCEPT ![c] = [IdleCall EXCEPT !.kind = kind, !.req = req,
                !.late = closed,
                !.ret = IF SeesClosed THEN "dispatcher_closed" ELSE NoCode]]
  /\ pc' = [pc EXCEPT ![c] = IF SeesClosed THEN "returned" ELSE "prepare"]
  /\ UNCHANGED <<nextID, registry, ctx, line, workerVars, shutdownVars>>

Authorized(req) ==
  /\ AllowedOrigins # {} => req.origin \in AllowedOrigins
  /\ AllowedKeys # {} => req.key \in AllowedKeys

\* The error prepare returns, in the order of its checks; NoCode if none.
PrepareError(req) ==
  IF req.key = NoKey THEN "invalid_request"
  ELSE IF req.size > MaxSize THEN "payload_too_large"
  ELSE IF handlers[req.key] = NoHandler THEN "handler_not_found"
  ELSE IF ~Authorized(req) THEN "unauthorized" ELSE NoCode

FaultyAdvanceID(req) == nextID

\* d.nextID after prepare: only a request without an ID takes a new one.
AdvanceID(req) == IF req.id = 0 THEN nextID + 1 ELSE nextID

\* An ID is assigned before the checks; the handler is captured after them.
Prepare(c) ==
  /\ pc[c] = "prepare"
  /\ LET req == call[c].req
         e   == PrepareError(req)
     IN  /\ nextID' = AdvanceID(req)
         /\ \/ e # NoCode /\ Return(c, e)
            \/ /\ e = NoCode
               /\ pc' = [pc EXCEPT ![c] = "select"]
               /\ call' = [call EXCEPT
                    ![c].id = IF req.id = 0 THEN nextID + 1 ELSE req.id,
                    ![c].handler = handlers[req.key]]
  /\ UNCHANGED <<registry, ctx, line, workerVars, shutdownVars>>

FaultyQueueHasRoom == Len(queue) <= QueueSize

QueueHasRoom == Len(queue) < QueueSize

FaultyAccepted(c) ==
  IF CtxError(c) = "live"
    THEN pc' = [pc EXCEPT ![c] = "accepted"] /\ UNCHANGED call
    ELSE Return(c, CtxError(c))

\* Dispatch returns the result channel; Invoke goes on to wait on it.
Accepted(c) ==
  /\ pc' = [pc EXCEPT ![c] = IF call[c].kind = "Invoke" THEN "await"
                                                        ELSE "accepted"]
  /\ UNCHANGED call

\* The send case of enqueue's select.
Admit(c) ==
  /\ pc[c] = "select" /\ QueueHasRoom
  /\ queue' = Append(queue, c)
  /\ admitted' = Append(admitted, c)
  /\ Accepted(c)
  /\ UNCHANGED <<nextID, registry, ctx, answers, workerVars, shutdownVars>>

\* The other cases: any that is ready may be chosen, and TryDispatch's
\* default only when no other case is.
Refuse(c) ==
  /\ pc[c] = "select"
  /\ \/ CtxError(c) # "live" /\ Return(c, CtxError(c))
     \/ done /\ Return(c, "dispatcher_closed")
     \/ /\ call[c].kind = "TryDispatch"
        /\ ~QueueHasRoom /\ CtxError(c) = "live" /\ ~done
        /\ Return(c, "backpressure")
  /\ UNCHANGED <<nextID, registry, ctx, line, workerVars, shutdownVars>>

FaultyContextCase(c) == CtxError(c) # "live" /\ Answer(c, "timeout")

FaultyContextIgnored(c) == FALSE

\* The ctx.Done() case of Invoke's select.
ContextCase(c) == CtxError(c) # "live" /\ Answer(c, CtxError(c))

\* Invoke's select: the response, the context or the closed done channel.
Await(c) ==
  /\ pc[c] = "await"
  /\ \/ answers[c] # <<>> /\ Answer(c, Head(answers[c]))
     \/ ContextCase(c)
     \/ done /\ Answer(c, "dispatcher_closed")
  /\ UNCHANGED <<nextID, registry, ctx, line, workerVars, shutdownVars>>

-----------------------------------------------------------------------------
(* The worker goroutine: run, handle, handlerContext, safeDispatchCall. *)

\* The receive case of run's select; it may be chosen after done is closed.
TakeWork ==
  /\ worker = "select" /\ queue # <<>>
  /\ queue' = Tail(queue)
  /\ current' = Head(queue)
  /\ ran' = Append(ran, Head(queue))
  /\ worker' = "handle"
  /\ UNCHANGED <<registry, callVars, ctx, admitted, answers, handlerCtx,
                 shutdownVars>>

Exit ==
  /\ worker = "select" /\ done
  /\ worker' = "exited"
  /\ UNCHANGED <<registry, callVars, ctx, line, current, handlerCtx, ran,
                 shutdownVars>>

\* The timeout of the handler's context passes, or the goroutine that
\* watches done cancels it.
EndHandlerContext ==
  /\ worker = "handle" /\ HandlerError = "live"
  /\ handlerCtx' \in IF done THEN {"timeout", "canceled"} ELSE {"timeout"}
  /\ UNCHANGED <<registry, callVars, ctx, line, worker, current, ran,
                 shutdownVars>>

\* The code of the response handle sends for what the handler returned.  A
\* DispatchError, like one of a call the handler made, keeps its own code.
Code(outcome) ==
  CASE outcome = "large"  -> "response_too_large"
    [] outcome = "error"  -> "handler_failed"
    [] outcome = "panic"  -> "handler_panic"
    [] outcome = "ctxErr" -> HandlerError
    [] outcome \in Codes  -> outcome

FaultyRespond(outcome) ==
  answers' = IF outcome = "ctxErr" THEN answers
             ELSE [answers EXCEPT ![current] = Append(@, Code(outcome))]

Respond(outcome) ==
  answers' = [answers EXCEPT ![current] = Append(@, Code(outcome))]

\* The handler returns, or panics and is recovered, and handle sends the one
\* response.  A handler inside a call of its own cannot return.
FinishWork(outcome) ==
  /\ worker = "handle"
  /\ outcome = "ctxErr" => HandlerError # "live"
  /\ \A c \in Calls : Parent[c] = current => pc[c] \notin Blocked
  /\ Respond(outcome)
  /\ worker' = "select"
  /\ current' = NoCall
  /\ handlerCtx' = "live"
  /\ UNCHANGED <<registry, callVars, ctx, queue, admitted, ran, shutdownVars>>

-----------------------------------------------------------------------------
(* Shutdown and the goroutine it starts. *)

\* The swap of closed; only the winner goes on to close done.
ShutdownSwap(s) ==
  /\ shutdown[s] = "idle"
  /\ closed' = TRUE
  /\ shutdown' = [shutdown EXCEPT ![s] = IF closed THEN "wait" ELSE "close"]
  /\ drainer' = [drainer EXCEPT ![s] = IF closed THEN "join" ELSE "none"]
  /\ UNCHANGED <<done, held, rejected, registry, callVars, ctx, line,
                 workerVars>>

FaultyClose == UNCHANGED done

Close == done' = TRUE

CloseDone(s) ==
  /\ shutdown[s] = "close"
  /\ Close
  /\ shutdown' = [shutdown EXCEPT ![s] = "wait"]
  /\ drainer' = [drainer EXCEPT ![s] = "join"]
  /\ UNCHANGED <<closed, held, rejected, registry, callVars, ctx, line,
                 workerVars>>

FaultyWorkerReturned == TRUE

\* What wg.Wait waits for.
WorkerReturned == worker = "exited"

Join(s) ==
  /\ drainer[s] = "join" /\ WorkerReturned
  /\ drainer' = [drainer EXCEPT ![s] = "drain"]
  /\ UNCHANGED <<closed, done, shutdown, held, rejected, registry, callVars,
                 ctx, line, workerVars>>

FaultyHold(s) == UNCHANGED held

Hold(s) == held' = [held EXCEPT ![s] = Head(queue)]

\* rejectQueued receives one work item, or finds the queue empty and ends.
DrainReceive(s) ==
  /\ drainer[s] = "drain" /\ held[s] = NoCall
  /\ \/ /\ queue # <<>>
        /\ Hold(s)
        /\ rejected' = Append(rejected, Head(queue))
        /\ queue' = Tail(queue)
        /\ UNCHANGED drainer
     \/ /\ queue = <<>>
        /\ drainer' = [drainer EXCEPT ![s] = "done"]
        /\ UNCHANGED <<held, rejected, queue>>
  /\ UNCHANGED <<closed, done, shutdown, registry, callVars, ctx, admitted,
                 answers, workerVars>>

DrainAnswer(s) ==
  /\ held[s] # NoCall
  /\ answers' = [answers EXCEPT ![held[s]] = Append(@, "dispatcher_closed")]
  /\ held' = [held EXCEPT ![s] = NoCall]
  /\ UNCHANGED <<closed, done, shutdown, drainer, rejected, registry, callVars,
                 ctx, queue, admitted, workerVars>>

\* Shutdown returns nil once its drainer is done, or its context's error.
ShutdownReturn(s) ==
  /\ shutdown[s] = "wait"
  /\ \/ drainer[s] = "done" /\ shutdown' = [shutdown EXCEPT ![s] = "nil"]
     \/ shutdown' = [shutdown EXCEPT ![s] = "ctxErr"]
  /\ UNCHANGED <<closed, done, drainer, held, rejected, registry, callVars,
                 ctx, line, workerVars>>

-----------------------------------------------------------------------------
Next ==
  \/ \E r \in Registrars, k \in Keys, h \in Handlers : RegisterCheck(r, k, h)
  \/ \E r \in Registrars : RegisterStore(r)
  \/ \E k \in Keys : Unregister(k)
  \/ \E c \in Calls, kind \in Kinds, req \in Requests : Begin(c, kind, req)
  \/ \E c \in Calls : EndContext(c)
  \/ \E c \in Calls : Prepare(c)
  \/ \E c \in Calls : Admit(c)
  \/ \E c \in Calls : Refuse(c)
  \/ \E c \in Calls : Await(c)
  \/ TakeWork
  \/ Exit
  \/ EndHandlerContext
  \/ \E outcome \in Outcomes : FinishWork(outcome)
  \/ \E s \in Shutdowns : ShutdownSwap(s)
  \/ \E s \in Shutdowns : CloseDone(s)
  \/ \E s \in Shutdowns : Join(s)
  \/ \E s \in Shutdowns : DrainReceive(s)
  \/ \E s \in Shutdowns : DrainAnswer(s)
  \/ \E s \in Shutdowns : ShutdownReturn(s)

Spec == Init /\ [][Next]_vars

(***************************************************************************)
(* Fairness: the Go scheduler runs every goroutine that can run, timers    *)
(* fire, and a handler whose context has ended returns (what handlers owe  *)
(* the dispatcher: it has one worker and no way to abandon a handler).     *)
(* Nothing makes a caller call, cancel, register or shut down.             *)
(***************************************************************************)
Fairness ==
  /\ \A c \in Calls : WF_vars(Prepare(c)) /\ WF_vars(Admit(c) \/ Refuse(c))
                     /\ WF_vars(Await(c))
  /\ WF_vars(TakeWork \/ Exit)
  /\ WF_vars(EndHandlerContext)
  /\ \A outcome \in Outcomes :
       WF_vars(worker = "handle" /\ HandlerError # "live" /\ FinishWork(outcome))
  /\ \A s \in Shutdowns : WF_vars(CloseDone(s)) /\ WF_vars(Join(s))
                         /\ WF_vars(DrainReceive(s)) /\ WF_vars(DrainAnswer(s))
                         /\ WF_vars(ShutdownReturn(s))

FairSpec == Spec /\ Fairness

-----------------------------------------------------------------------------
(* Properties. *)

CallRecord == [kind : Kinds \cup {"none"}, req : Requests \cup {NoRequest},
               id : Nat, handler : Handlers \cup {NoHandler}, late : BOOLEAN,
               ret : Codes \cup {NoCode}, resp : Codes \cup {NoCode}]

\* Every variable has its type, and d.queue never holds more than its capacity.
TypeOK ==
  /\ handlers \in [Keys -> Handlers \cup {NoHandler}]
  /\ registering \in [Registrars -> {<<>>} \cup (Keys \X Handlers)]
  /\ queue \in Seq(Calls) /\ Len(queue) <= QueueSize
  /\ closed \in BOOLEAN
  /\ done \in BOOLEAN
  /\ nextID \in Nat
  /\ pc \in [Calls -> Blocked \cup {"idle", "accepted", "returned"}]
  /\ call \in [Calls -> CallRecord]
  /\ ctx \in [Calls -> ContextStates]
  /\ answers \in [Calls -> Seq(Codes)]
  /\ worker \in {"select", "handle", "exited"}
  /\ current \in Calls \cup {NoCall}
  /\ handlerCtx \in ContextStates
  /\ shutdown \in [Shutdowns -> {"idle", "close", "wait", "nil", "ctxErr"}]
  /\ drainer \in [Shutdowns -> {"none", "join", "drain", "done"}]
  /\ held \in [Shutdowns -> Calls \cup {NoCall}]
  /\ admitted \in Seq(Calls)
  /\ ran \in Seq(Calls)
  /\ rejected \in Seq(Calls)

\* Work is lost, copied and reordered nowhere: what the queue admitted is what
\* handlers were called for, then what rejectQueued took, then what is queued.
Ledger == admitted = ran \o rejected \o queue

InHand(c) == current = c \/ \E s \in Shutdowns : held[s] = c

Settled(c) == c \in Range(ran) \cup Range(rejected) /\ ~InHand(c)

\* Each result channel gets exactly one response, from the worker or from one
\* drainer, so no send on the one-place channel of enqueue can ever block.
SettledOnce ==
  \A c \in Calls : Len(answers[c]) = IF Settled(c) THEN 1 ELSE 0

\* An error that comes without a response means that the work was not queued
\* and never runs, so the call may be made again: every error of Dispatch and
\* TryDispatch, and those of Invoke with an empty response.  The code alone
\* does not say so: a handler that ran may fail with the "backpressure" or
\* "handler_not_found" of a call it made, and Invoke's own timeout,
\* cancellation and dispatcher_closed say nothing of the work it left behind.
Refused(c) == pc[c] = "returned" /\ call[c].resp = NoCode

RefusedNeverRuns == \A c \in Calls : Refused(c) => c \notin Range(admitted)

\* Whatever the queue takes passed every check of enqueue: the call began
\* before closed was set, its payload fits, its origin and method are allowed,
\* and it carries the handler found for it, registered or not by now.
AdmittedWereChecked ==
  \A c \in Range(admitted) :
    /\ ~call[c].late
    /\ call[c].req.size <= MaxSize
    /\ Authorized(call[c].req)
    /\ call[c].handler \in Handlers

\* The IDs prepare assigns are distinct, whatever callers it runs for at once.
AutoIDsDistinct ==
  \A c, d \in Calls :
    (c # d /\ call[c].req.id = 0 /\ call[d].req.id = 0 /\ call[c].id # 0)
      => call[c].id # call[d].id

\* The error call c returned is that of its context, which stays ended: its own
\* error, or the one of the handler that made the call.
GaveUp(c) ==
  /\ CtxError(c) # "live"
  /\ call[c].ret \in IF ctx[c] # "live" THEN {ctx[c]} ELSE {"canceled", "timeout"}

\* What Invoke returns is its own response, or the error of its own context,
\* or dispatcher_closed from a dispatcher that is.
InvokeAnswersTruly ==
  \A c \in Calls : (pc[c] = "returned" /\ call[c].kind = "Invoke"
                     /\ c \in Range(admitted)) =>
    \/ answers[c] = <<call[c].ret>>
    \/ GaveUp(c)
    \/ done /\ call[c].ret = "dispatcher_closed"

\* Once any Shutdown has returned nil no handler runs, now or later.
QuietAfterShutdown ==
  [][(\E s \in Shutdowns : shutdown[s] = "nil") =>
       current = NoCall /\ ran' = ran]_vars

\* docs/architecture.md: "shutdown rejection for queued and future work".  Of
\* a dispatcher shut down, nothing is left in the queue.  The code breaks this:
\* a caller past enqueue's check of closed may still put its work on the queue
\* after the last drainer found it empty.
ShutdownLeavesNothing ==
  (\E s \in Shutdowns : shutdown[s] = "nil") => queue = <<>>

\* Every call returns to its caller: full queues, slow handlers, handlers that
\* call the dispatcher they run on, and shutdown only delay it.
EveryCallReturns ==
  \A c \in Calls : pc[c] \in Blocked ~> pc[c] \in {"accepted", "returned"}

\* Work on the queue of a dispatcher that is not shut down is answered.
AdmittedIsAnswered ==
  \A c \in Calls : c \in Range(admitted) ~> (answers[c] # <<>> \/ closed)

\* Shutdown ends the handler in progress, and answers its backlog.
ShutdownReturns ==
  \A s \in Shutdowns : shutdown[s] # "idle" ~>
    (drainer[s] = "done" /\ shutdown[s] \in {"nil", "ctxErr"})

-----------------------------------------------------------------------------
(* The dispatcher implements DispatchService. *)

ServiceState(c) ==
  CASE Len(answers[c]) > 0 -> "answered"
    [] Len(answers[c]) = 0 /\ current = c -> "running"
    [] Len(answers[c]) = 0 /\ \E s \in Shutdowns : held[s] = c -> "dropped"
    [] c \in Range(queue) -> "waiting"
    [] c \notin Range(admitted) /\ pc[c] = "returned" -> "refused"
    [] OTHER -> "new"

Service == INSTANCE DispatchService WITH
  state <- [c \in Calls |-> ServiceState(c)],
  line <- queue,
  serving <- worker # "exited"

\* Every behaviour of callers, worker, contexts and shutdowns is one of the
\* abstract service: refused or answered once, in order, never run once stopped.
ImplementsService == Service!Spec
===============================================================================
