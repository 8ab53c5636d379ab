--------------------------- MODULE DispatcherProofs ---------------------------
(***************************************************************************)
(* Theorems about the dispatcher, for any callers, requests, handlers,     *)
(* queue size and number of Shutdown calls.                                *)
(***************************************************************************)
EXTENDS Dispatcher, SequenceTheorems, TLAPS

-----------------------------------------------------------------------------
(* Lemmas about sequences: the three ways the ledger's sides move. *)

LEMMA ConcatAppend ==
  ASSUME NEW S, NEW s \in Seq(S), NEW t \in Seq(S), NEW e \in S
  PROVE  s \o Append(t, e) = Append(s \o t, e)
<1>1. <<e>> \in Seq(S) /\ s \o t \in Seq(S)
  BY ConcatProperties
<1>2. s \o (t \o <<e>>) = (s \o t) \o <<e>>
  BY <1>1, ConcatAssociative
<1>3. QED
  BY <1>1, <1>2, AppendIsConcat

LEMMA MoveHead ==
  ASSUME NEW S, NEW s \in Seq(S), NEW t \in Seq(S), t # <<>>
  PROVE  Append(s, Head(t)) \o Tail(t) = s \o t
<1>1. Head(t) \in S /\ Tail(t) \in Seq(S) /\ <<Head(t)>> \in Seq(S)
  OBVIOUS
<1>2. t = <<Head(t)>> \o Tail(t)
  BY <1>1
<1>3. Append(s, Head(t)) = s \o <<Head(t)>>
  BY <1>1, AppendIsConcat
<1>4. (s \o <<Head(t)>>) \o Tail(t) = s \o (<<Head(t)>> \o Tail(t))
  BY <1>1, ConcatAssociative
<1>5. QED
  BY <1>2, <1>3, <1>4

-----------------------------------------------------------------------------
(* Type correctness.  FinishWork and DrainAnswer write to the channel of    *)
(* the work in hand, so the worker must have some while it is in handle.   *)

WorkerBusy == worker = "handle" => current \in Calls

TInv == TypeOK /\ WorkerBusy

\* Every context error is a code, so it may be returned or sent.
LEMMA ContextTypes ==
  ASSUME TypeOK
  PROVE  /\ \A c \in Calls : OwnError(c) \in ContextStates
         /\ \A c \in Calls : CtxError(c) \in ContextStates
         /\ current \in Calls => HandlerError \in ContextStates
<1>1. \A c \in Calls : OwnError(c) \in ContextStates
  BY CallAssumption DEF TypeOK, OwnError, ContextStates
<1>2. current \in Calls => HandlerError \in ContextStates
  BY <1>1 DEF TypeOK, HandlerError
<1>3. \A c \in Calls : CtxError(c) \in ContextStates
  <2> SUFFICES ASSUME NEW c \in Calls PROVE CtxError(c) \in ContextStates
    OBVIOUS
  <2>1. Parent[c] # NoCall => Parent[c] \in Calls
    BY CallAssumption
  <2>2. QED
    BY <1>1, <1>2, <2>1 DEF CtxError
<1>4. QED
  BY <1>1, <1>2, <1>3

\* A code other than "live" is a code of the dispatcher.
LEMMA ErrorCodes == ContextStates \ {"live"} \subseteq Codes
  BY DEF ContextStates, Codes

\* Returning to the caller keeps the types of what it writes.
LEMMA ReturnTypes ==
  ASSUME TypeOK, NEW c \in Calls, NEW v \in Codes, Return(c, v) \/ Answer(c, v)
  PROVE  /\ pc' \in [Calls -> Blocked \cup {"idle", "accepted", "returned"}]
         /\ call' \in [Calls -> CallRecord]
<1> DEFINE told == [call[c] EXCEPT !.ret = v]
<1>1. call[c] \in CallRecord
  BY DEF TypeOK
<1>2. told \in CallRecord /\ [told EXCEPT !.resp = v] \in CallRecord
  BY <1>1 DEF CallRecord
<1>3. CASE Return(c, v)
  <2>1. call' = [call EXCEPT ![c] = told]
    BY <1>3 DEF Return, TypeOK
  <2>2. QED
    BY <1>2, <1>3, <2>1 DEF TypeOK, Return
<1>4. CASE Answer(c, v)
  <2>1. call' = [call EXCEPT ![c] = [told EXCEPT !.resp = v]]
    BY <1>1, <1>4 DEF Answer, TypeOK, CallRecord
  <2>2. QED
    BY <1>2, <1>4, <2>1 DEF TypeOK, Answer
<1>5. QED
  BY <1>3, <1>4

LEMMA IdleType == IdleCall \in CallRecord
  BY DEF IdleCall, CallRecord

LEMMA RequestTypes ==
  ASSUME NEW req \in Requests \cup {NoRequest}
  PROVE  req.key \in Keys \cup {NoKey} /\ req.size \in Nat /\ req.id \in Nat
<1>1. CASE req \in Requests
  BY <1>1, RequestAssumption
<1>2. CASE req = NoRequest
  BY <1>2 DEF NoRequest
<1>3. QED
  BY <1>1, <1>2

LEMMA TypeInit == Init => TInv
<1> SUFFICES ASSUME Init PROVE TInv
  OBVIOUS
<1>1. call \in [Calls -> CallRecord]
  BY IdleType DEF Init
<1>2. /\ queue \in Seq(Calls) /\ Len(queue) <= QueueSize
      /\ admitted \in Seq(Calls) /\ ran \in Seq(Calls) /\ rejected \in Seq(Calls)
      /\ answers \in [Calls -> Seq(Codes)]
  BY QueueAssumption DEF Init
<1>3. registering \in [Registrars -> {<<>>} \cup (Keys \X Handlers)]
  BY DEF Init
<1>4. QED
  BY <1>1, <1>2, <1>3
  DEF Init, TInv, TypeOK, WorkerBusy, ContextStates, Blocked

\* Taking the head of a nonempty queue leaves a call in hand and shorter work.
LEMMA QueueTypes ==
  ASSUME TypeOK, queue # <<>>
  PROVE  /\ Head(queue) \in Calls
         /\ Tail(queue) \in Seq(Calls)
         /\ Len(Tail(queue)) <= QueueSize
  BY QueueAssumption DEF TypeOK

LEMMA TypeStep == TInv /\ [Next]_vars => TInv'
<1> SUFFICES ASSUME TInv, [Next]_vars PROVE TInv'
  OBVIOUS
<1> USE DEF TInv, WorkerBusy, registry, callVars, line, workerVars, shutdownVars
<1>1. CASE UNCHANGED vars
  BY <1>1 DEF TypeOK, vars
<1>2. ASSUME NEW r \in Registrars, NEW k \in Keys, NEW h \in Handlers,
             RegisterCheck(r, k, h)
      PROVE  TInv'
  BY <1>2 DEF TypeOK, RegisterCheck
<1>3. ASSUME NEW r \in Registrars, RegisterStore(r)
      PROVE  TInv'
  BY <1>3 DEF TypeOK, RegisterStore
<1>4. ASSUME NEW k \in Keys, Unregister(k)
      PROVE  TInv'
  BY <1>4 DEF TypeOK, Unregister
<1>5. ASSUME NEW c \in Calls, NEW kind \in Kinds, NEW req \in Requests,
             Begin(c, kind, req)
      PROVE  TInv'
  <2>1. call' \in [Calls -> CallRecord]
    <3> DEFINE v == IF SeesClosed THEN "dispatcher_closed" ELSE NoCode
               new == [IdleCall EXCEPT !.kind = kind, !.req = req,
                                       !.late = closed, !.ret = v]
    <3>1. v \in Codes \cup {NoCode} /\ closed \in BOOLEAN
      BY DEF Codes, TypeOK
    <3>2. new \in CallRecord
      BY <3>1, IdleType DEF CallRecord
    <3>3. call' = [call EXCEPT ![c] = new]
      BY <1>5 DEF Begin
    <3>4. QED
      BY <3>2, <3>3 DEF TypeOK
  <2>2. QED
    BY <1>5, <2>1 DEF TypeOK, Begin, Blocked, SeesClosed
<1>6. ASSUME NEW c \in Calls, EndContext(c)
      PROVE  TInv'
  BY <1>6, OutcomeAssumption DEF TypeOK, EndContext, ContextStates
<1>7. ASSUME NEW c \in Calls, Prepare(c)
      PROVE  TInv'
  <2> DEFINE req == call[c].req
             e == PrepareError(req)
  <2>1. req \in Requests \cup {NoRequest} /\ call[c] \in CallRecord
    BY DEF TypeOK, CallRecord
  <2>2. e \in Codes \cup {NoCode}
    BY DEF PrepareError, Codes
  <2>3. e = NoCode => req.key \in Keys /\ req.id \in Nat
    BY <2>1, RequestTypes DEF PrepareError, NoCode
  <2>4. req.id \in Nat
    BY <2>1, RequestTypes
  <2>5. nextID' \in Nat
    BY <1>7, <2>4 DEF Prepare, AdvanceID, TypeOK
  <2>6. CASE e # NoCode
    <3>1. Return(c, e)
      BY <1>7, <2>6 DEF Prepare
    <3>2. QED
      BY <1>7, <2>2, <2>5, <2>6, <3>1, ReturnTypes DEF TypeOK, Prepare
  <2>7. CASE e = NoCode
    <3>1. handlers[req.key] \in Handlers \cup {NoHandler}
      BY <2>3, <2>7 DEF TypeOK
    <3>2. /\ call' = [call EXCEPT
                    ![c].id = IF req.id = 0 THEN nextID + 1 ELSE req.id,
                    ![c].handler = handlers[req.key]]
          /\ pc' = [pc EXCEPT ![c] = "select"]
      BY <1>7, <2>7 DEF Prepare, Return
    <3>3. call' \in [Calls -> CallRecord]
      <4> DEFINE id == IF req.id = 0 THEN nextID + 1 ELSE req.id
                 new == [call[c] EXCEPT !.id = id, !.handler = handlers[req.key]]
      <4>1. id \in Nat
        BY <2>4 DEF TypeOK
      <4>2. new \in CallRecord
        BY <2>1, <3>1, <4>1 DEF CallRecord
      <4>3. call' = [call EXCEPT ![c] = new]
        BY <2>1, <3>2 DEF TypeOK, CallRecord
      <4>4. QED
        BY <4>2, <4>3 DEF TypeOK
    <3>4. QED
      BY <1>7, <2>5, <3>2, <3>3 DEF TypeOK, Prepare, Blocked
  <2>8. QED
    BY <2>6, <2>7
<1>8. ASSUME NEW c \in Calls, Admit(c)
      PROVE  TInv'
  BY <1>8, QueueAssumption
  DEF TypeOK, Admit, Accepted, QueueHasRoom, Blocked
<1>9. ASSUME NEW c \in Calls, Refuse(c)
      PROVE  TInv'
  <2>1. PICK v \in Codes : Return(c, v)
    BY <1>9, ContextTypes, ErrorCodes DEF Refuse, Codes
  <2>2. QED
    BY <1>9, <2>1, ReturnTypes DEF TypeOK, Refuse
<1>10. ASSUME NEW c \in Calls, Await(c)
       PROVE  TInv'
  <2>1. answers[c] # <<>> => Head(answers[c]) \in Codes
    BY DEF TypeOK
  <2>2. PICK v \in Codes : Answer(c, v)
    BY <1>10, <2>1, ContextTypes, ErrorCodes DEF Await, ContextCase, Codes
  <2>3. QED
    BY <1>10, <2>2, ReturnTypes DEF TypeOK, Await
<1>11. CASE TakeWork
  <2>1. ran' \in Seq(Calls)
    BY <1>11, QueueTypes, AppendProperties DEF TypeOK, TakeWork
  <2>2. QED
    BY <1>11, <2>1, QueueTypes DEF TypeOK, TakeWork
<1>12. CASE Exit
  BY <1>12 DEF TypeOK, Exit
<1>13. CASE EndHandlerContext
  BY <1>13 DEF TypeOK, EndHandlerContext, ContextStates
<1>14. ASSUME NEW outcome \in Outcomes, FinishWork(outcome)
       PROVE  TInv'
  <2>1. current \in Calls
    BY <1>14 DEF FinishWork
  <2>2. Code(outcome) \in Codes
    BY <1>14, <2>1, ContextTypes, ErrorCodes, OutcomeAssumption
    DEF FinishWork, Code, Codes
  <2>3. answers' \in [Calls -> Seq(Codes)]
    BY <1>14, <2>1, <2>2 DEF TypeOK, FinishWork, Respond
  <2>4. QED
    BY <1>14, <2>3 DEF TypeOK, FinishWork, ContextStates
<1>15. ASSUME NEW s \in Shutdowns, ShutdownSwap(s)
       PROVE  TInv'
  BY <1>15 DEF TypeOK, ShutdownSwap
<1>16. ASSUME NEW s \in Shutdowns, CloseDone(s)
       PROVE  TInv'
  BY <1>16 DEF TypeOK, CloseDone, Close
<1>17. ASSUME NEW s \in Shutdowns, Join(s)
       PROVE  TInv'
  BY <1>17 DEF TypeOK, Join
<1>18. ASSUME NEW s \in Shutdowns, DrainReceive(s)
       PROVE  TInv'
  <2>1. CASE queue # <<>>
    <3>1. rejected' \in Seq(Calls)
      <4>1. rejected' = Append(rejected, Head(queue))
        BY <1>18, <2>1 DEF DrainReceive
      <4>2. Head(queue) \in Calls /\ rejected \in Seq(Calls)
        BY <2>1, QueueTypes DEF TypeOK
      <4>3. QED
        BY <4>1, <4>2
    <3>2. QED
      BY <1>18, <2>1, <3>1, QueueTypes DEF TypeOK, DrainReceive, Hold
  <2>2. CASE queue = <<>>
    BY <1>18, <2>2 DEF TypeOK, DrainReceive
  <2>3. QED
    BY <2>1, <2>2
<1>19. ASSUME NEW s \in Shutdowns, DrainAnswer(s)
       PROVE  TInv'
  <2>1. held[s] \in Calls
    BY <1>19 DEF TypeOK, DrainAnswer
  <2>2. answers' \in [Calls -> Seq(Codes)]
    BY <1>19, <2>1 DEF TypeOK, DrainAnswer, Codes
  <2>3. QED
    BY <1>19, <2>2 DEF TypeOK, DrainAnswer
<1>20. ASSUME NEW s \in Shutdowns, ShutdownReturn(s)
       PROVE  TInv'
  BY <1>20 DEF TypeOK, ShutdownReturn
<1>21. QED
  BY <1>1, <1>2, <1>3, <1>4, <1>5, <1>6, <1>7, <1>8, <1>9, <1>10, <1>11, <1>12,
     <1>13, <1>14, <1>15, <1>16, <1>17, <1>18, <1>19, <1>20
  DEF Next

\* Every variable of the dispatcher always has its type; in particular the
\* queue never holds more than QueueSize items and no call is given work, a
\* handler or a code that is not one.
THEOREM TypeCorrect == Spec => []TypeOK
<1>1. TInv => TypeOK
  BY DEF TInv
<1>2. QED
  BY TypeInit, TypeStep, <1>1, PTL DEF Spec

-----------------------------------------------------------------------------
(* The ledger.  It is kept only because no drainer receives work before the *)
(* worker has returned: otherwise work run after some was rejected would    *)
(* stand before it on the right-hand side and after it on the left.         *)

DrainAfterExit ==
  /\ \A s \in Shutdowns :
       /\ drainer[s] \in {"drain", "done"} => worker = "exited"
       /\ shutdown[s] = "nil" => drainer[s] = "done"
  /\ rejected # <<>> => worker = "exited"
  /\ current # NoCall => worker = "handle"

LInv == TInv /\ DrainAfterExit /\ Ledger

LEMMA LedgerInit == Init => LInv
<1>1. Init => TInv
  BY TypeInit
<1>2. Init => DrainAfterExit
  BY DEF Init, DrainAfterExit
<1>3. <<>> = <<>> \o <<>> \o <<>>
  BY EmptySeq, ConcatEmptySeq
<1>4. Init => Ledger
  BY <1>3 DEF Init, Ledger
<1>5. QED
  BY <1>1, <1>2, <1>4 DEF LInv

LEMMA DrainAfterExitStep == LInv /\ [Next]_vars => DrainAfterExit'
<1> SUFFICES ASSUME LInv, [Next]_vars PROVE DrainAfterExit'
  OBVIOUS
<1> USE DEF LInv, TInv, DrainAfterExit, registry, callVars, line, workerVars,
            shutdownVars
<1>1. CASE UNCHANGED vars
  BY <1>1 DEF vars
<1>2. ASSUME NEW r \in Registrars, NEW k \in Keys, NEW h \in Handlers,
             RegisterCheck(r, k, h)
      PROVE  DrainAfterExit'
  BY <1>2 DEF RegisterCheck
<1>3. ASSUME NEW r \in Registrars, RegisterStore(r)
      PROVE  DrainAfterExit'
  BY <1>3 DEF RegisterStore
<1>4. ASSUME NEW k \in Keys, Unregister(k)
      PROVE  DrainAfterExit'
  BY <1>4 DEF Unregister
<1>5. ASSUME NEW c \in Calls,
             \/ \E kind \in Kinds, req \in Requests : Begin(c, kind, req)
             \/ EndContext(c) \/ Prepare(c) \/ Admit(c) \/ Refuse(c) \/ Await(c)
      PROVE  DrainAfterExit'
  BY <1>5 DEF Begin, EndContext, Prepare, Admit, Refuse, Await
<1>6. CASE TakeWork
  BY <1>6, CallAssumption DEF TakeWork, TypeOK
<1>7. CASE Exit
  BY <1>7 DEF Exit, TypeOK
<1>8. CASE EndHandlerContext
  BY <1>8 DEF EndHandlerContext
<1>9. ASSUME NEW outcome \in Outcomes, FinishWork(outcome)
      PROVE  DrainAfterExit'
  BY <1>9 DEF FinishWork
<1>10. ASSUME NEW s \in Shutdowns, ShutdownSwap(s)
       PROVE  DrainAfterExit'
  BY <1>10 DEF ShutdownSwap, TypeOK
<1>11. ASSUME NEW s \in Shutdowns, CloseDone(s)
       PROVE  DrainAfterExit'
  BY <1>11 DEF CloseDone, TypeOK
<1>12. ASSUME NEW s \in Shutdowns, Join(s)
       PROVE  DrainAfterExit'
  BY <1>12 DEF Join, WorkerReturned, TypeOK
<1>13. ASSUME NEW s \in Shutdowns, DrainReceive(s)
       PROVE  DrainAfterExit'
  BY <1>13 DEF DrainReceive, TypeOK
<1>14. ASSUME NEW s \in Shutdowns, DrainAnswer(s)
       PROVE  DrainAfterExit'
  BY <1>14 DEF DrainAnswer
<1>15. ASSUME NEW s \in Shutdowns, ShutdownReturn(s)
       PROVE  DrainAfterExit'
  BY <1>15 DEF ShutdownReturn, TypeOK
<1>16. QED
  BY <1>1, <1>2, <1>3, <1>4, <1>5, <1>6, <1>7, <1>8, <1>9, <1>10, <1>11, <1>12,
     <1>13, <1>14, <1>15
  DEF Next

\* What a step may do to the four sequences of the ledger: one item enters at
\* the tail of the queue, or leaves its head for the end of another sequence.
LEMMA LedgerMoves ==
  ASSUME TInv, [Next]_vars
  PROVE  \/ UNCHANGED <<admitted, ran, rejected, queue>>
         \/ \E c \in Calls : /\ admitted' = Append(admitted, c)
                             /\ queue' = Append(queue, c)
                             /\ UNCHANGED <<ran, rejected>>
         \/ /\ worker = "select" /\ queue # <<>> /\ queue' = Tail(queue)
            /\ ran' = Append(ran, Head(queue))
            /\ UNCHANGED <<admitted, rejected>>
         \/ /\ queue # <<>> /\ queue' = Tail(queue)
            /\ rejected' = Append(rejected, Head(queue))
            /\ UNCHANGED <<admitted, ran>>
  BY DEF Next, vars, registry, callVars, line, workerVars, shutdownVars,
     RegisterCheck, RegisterStore, Unregister, Begin, EndContext, Prepare, Admit,
     Refuse, Await, TakeWork, Exit, EndHandlerContext, FinishWork, ShutdownSwap,
     CloseDone, Join, DrainReceive, DrainAnswer, ShutdownReturn

LEMMA LedgerStep == LInv /\ [Next]_vars => Ledger'
<1> SUFFICES ASSUME LInv, [Next]_vars PROVE Ledger'
  OBVIOUS
<1>1. /\ queue \in Seq(Calls) /\ ran \in Seq(Calls)
      /\ rejected \in Seq(Calls) /\ ran \o rejected \in Seq(Calls)
  BY ConcatProperties DEF LInv, TInv, TypeOK
<1>2. CASE UNCHANGED <<admitted, ran, rejected, queue>>
  BY <1>2 DEF LInv, Ledger
<1>3. ASSUME NEW c \in Calls, admitted' = Append(admitted, c),
             queue' = Append(queue, c), UNCHANGED <<ran, rejected>>
      PROVE  Ledger'
  <2>1. (ran \o rejected) \o Append(queue, c)
          = Append((ran \o rejected) \o queue, c)
    BY <1>1, ConcatAppend
  <2>2. QED
    BY <1>3, <2>1 DEF LInv, Ledger
<1>4. CASE /\ worker = "select" /\ queue # <<>> /\ queue' = Tail(queue)
           /\ ran' = Append(ran, Head(queue))
           /\ UNCHANGED <<admitted, rejected>>
  <2>1. rejected = <<>>
    BY <1>4 DEF LInv, DrainAfterExit
  <2>2. Append(ran, Head(queue)) \in Seq(Calls)
    BY <1>1, <1>4
  <2>3. /\ ran \o <<>> = ran
        /\ Append(ran, Head(queue)) \o <<>> = Append(ran, Head(queue))
    BY <1>1, <2>2, ConcatEmptySeq
  <2>4. Append(ran, Head(queue)) \o Tail(queue) = ran \o queue
    BY <1>1, <1>4, MoveHead
  <2>5. QED
    BY <1>4, <2>1, <2>3, <2>4 DEF LInv, Ledger
<1>5. CASE /\ queue # <<>> /\ queue' = Tail(queue)
           /\ rejected' = Append(rejected, Head(queue))
           /\ UNCHANGED <<admitted, ran>>
  <2>1. Head(queue) \in Calls
    BY <1>1, <1>5
  <2>2. ran \o Append(rejected, Head(queue))
          = Append(ran \o rejected, Head(queue))
    BY <1>1, <2>1, ConcatAppend
  <2>3. Append(ran \o rejected, Head(queue)) \o Tail(queue)
          = (ran \o rejected) \o queue
    BY <1>1, <1>5, MoveHead
  <2>4. QED
    BY <1>5, <2>2, <2>3 DEF LInv, Ledger
<1>6. QED
  BY <1>2, <1>3, <1>4, <1>5, LedgerMoves DEF LInv

LEMMA LedgerInvariant == Spec => []LInv
<1>1. LInv /\ [Next]_vars => LInv'
  BY TypeStep, DrainAfterExitStep, LedgerStep DEF LInv
<1>2. QED
  BY LedgerInit, <1>1, PTL DEF Spec

\* However callers, the worker, and any number of Shutdown calls interleave,
\* the dispatcher loses, copies and reorders no work it took.
THEOREM LedgerKept == Spec => []Ledger
<1>1. LInv => Ledger
  BY DEF LInv
<1>2. QED
  BY LedgerInvariant, <1>1, PTL

\* Once any Shutdown has returned nil, the worker is gone and no handler is
\* called again, whichever calls were already past enqueue's check.
THEOREM ShutdownIsQuiet == Spec => QuietAfterShutdown
<1>1. ASSUME LInv, [Next]_vars, NEW s \in Shutdowns, shutdown[s] = "nil"
      PROVE  current = NoCall /\ ran' = ran
  <2>1. worker = "exited" /\ current = NoCall
    BY <1>1 DEF LInv, DrainAfterExit
  <2>2. QED
    BY <1>1, <2>1, LedgerMoves DEF LInv, TInv
<1>2. LInv /\ [Next]_vars =>
        [(\E s \in Shutdowns : shutdown[s] = "nil") =>
           current = NoCall /\ ran' = ran]_vars
  BY <1>1
<1>3. QED
  BY LedgerInvariant, <1>2, PTL DEF Spec, QuietAfterShutdown

-----------------------------------------------------------------------------
(* One response for each item of work.  A response is sent by whoever has   *)
(* the work in hand, and work comes into one hand only: the queue takes a   *)
(* call once, so by the ledger its head was never run or rejected before.   *)

Distinct(s) == \A i, j \in 1..Len(s) : s[i] = s[j] => i = j

AdmittedOnce ==
  /\ Distinct(admitted)
  /\ \A c \in Calls :
       pc[c] \in {"idle", "prepare", "select"} => c \notin Range(admitted)

OneHand ==
  /\ current # NoCall => current \in Range(ran)
  /\ \A s \in Shutdowns : held[s] # NoCall => held[s] \in Range(rejected)
  /\ \A s, t \in Shutdowns : held[s] # NoCall /\ held[s] = held[t] => s = t

SInv == LInv /\ AdmittedOnce /\ OneHand /\ SettledOnce

LEMMA RangeAppend ==
  ASSUME NEW S, NEW s \in Seq(S), NEW e \in S
  PROVE  Range(Append(s, e)) = Range(s) \cup {e}
<1>1. /\ Len(Append(s, e)) = Len(s) + 1 /\ Len(s) \in Nat
      /\ DOMAIN s = 1..Len(s) /\ DOMAIN Append(s, e) = 1..Len(s) + 1
      /\ \A i \in 1..Len(s) : Append(s, e)[i] = s[i]
      /\ Append(s, e)[Len(s) + 1] = e
  OBVIOUS
<1>2. QED
  BY <1>1 DEF Range

LEMMA DistinctAppend ==
  ASSUME NEW S, NEW s \in Seq(S), NEW e \in S, Distinct(s), e \notin Range(s)
  PROVE  Distinct(Append(s, e))
<1>1. /\ Len(Append(s, e)) = Len(s) + 1 /\ Len(s) \in Nat
      /\ DOMAIN s = 1..Len(s)
      /\ \A i \in 1..Len(s) : Append(s, e)[i] = s[i]
      /\ Append(s, e)[Len(s) + 1] = e
  OBVIOUS
<1>2. \A i \in 1..Len(s) : s[i] # e
  BY <1>1 DEF Range
<1>3. QED
  BY <1>1, <1>2 DEF Distinct

LEMMA DistinctConcat ==
  ASSUME NEW S, NEW s \in Seq(S), NEW t \in Seq(S), Distinct(s \o t)
  PROVE  Range(s) \cap Range(t) = {}
<1>1. /\ Len(s) \in Nat /\ Len(t) \in Nat
      /\ DOMAIN s = 1..Len(s) /\ DOMAIN t = 1..Len(t)
      /\ Len(s \o t) = Len(s) + Len(t)
      /\ \A i \in 1..Len(s) : (s \o t)[i] = s[i]
      /\ \A j \in 1..Len(t) : (s \o t)[Len(s) + j] = t[j]
  BY ConcatProperties
<1>2. ASSUME NEW i \in 1..Len(s), NEW j \in 1..Len(t), s[i] = t[j]
      PROVE  FALSE
  <2>1. i \in 1..Len(s \o t) /\ Len(s) + j \in 1..Len(s \o t) /\ i # Len(s) + j
    BY <1>1
  <2>2. QED
    BY <1>1, <1>2, <2>1 DEF Distinct
<1>3. QED
  BY <1>1, <1>2 DEF Range

\* What the ledger and AdmittedOnce say of the queue and the two histories.
LEMMA HandsApart ==
  ASSUME LInv, AdmittedOnce
  PROVE  /\ Range(ran) \cap Range(rejected) = {}
         /\ queue # <<>> => Head(queue) \notin Range(ran) \cup Range(rejected)
<1>1. /\ queue \in Seq(Calls) /\ ran \in Seq(Calls)
      /\ rejected \in Seq(Calls) /\ ran \o rejected \in Seq(Calls)
      /\ rejected \o queue \in Seq(Calls)
  BY ConcatProperties DEF LInv, TInv, TypeOK
<1>2. (ran \o rejected) \o queue = ran \o (rejected \o queue)
  BY <1>1, ConcatAssociative
<1>3. /\ Range(ran \o rejected) \cap Range(queue) = {}
      /\ Range(ran) \cap Range(rejected \o queue) = {}
  BY <1>1, <1>2, DistinctConcat DEF LInv, Ledger, AdmittedOnce
<1>4. /\ Range(ran \o rejected) = Range(ran) \cup Range(rejected)
      /\ Range(rejected \o queue) = Range(rejected) \cup Range(queue)
  BY <1>1, RangeConcatenation
<1>5. queue # <<>> => Head(queue) \in Range(queue)
  BY <1>1 DEF Range
<1>6. QED
  BY <1>3, <1>4, <1>5

LEMMA SettledInit == Init => SInv
<1> SUFFICES ASSUME Init PROVE SInv
  OBVIOUS
<1>1. Range(<<>>) = {}
  BY DEF Range
<1>2. LInv
  BY LedgerInit
<1>3. AdmittedOnce
  BY <1>1 DEF Init, AdmittedOnce, Distinct
<1>4. OneHand
  BY DEF Init, OneHand
<1>5. SettledOnce
  BY <1>1 DEF Init, SettledOnce, Settled
<1>6. QED
  BY <1>2, <1>3, <1>4, <1>5 DEF SInv

\* Steps that touch neither the sequences, the channels nor the hands.
LEMMA SettledFrame ==
  ASSUME SInv, UNCHANGED <<admitted, answers, current, held, ran, rejected>>,
         \A c \in Calls : pc'[c] \in {"idle", "prepare", "select"} =>
                          pc[c] \in {"idle", "prepare", "select"}
  PROVE  AdmittedOnce' /\ OneHand' /\ SettledOnce'
<1>1. AdmittedOnce'
  BY DEF SInv, AdmittedOnce, Distinct
<1>2. OneHand'
  BY DEF SInv, OneHand
<1>3. SettledOnce'
  BY DEF SInv, SettledOnce, Settled, InHand
<1>4. QED
  BY <1>1, <1>2, <1>3

\* The steps of callers and registrars that put nothing on the queue, and the
\* steps of Shutdown that take nothing from it.
LEMMA SettledQuietSteps ==
  ASSUME SInv,
         \/ UNCHANGED vars
         \/ \E r \in Registrars, k \in Keys, h \in Handlers : RegisterCheck(r, k, h)
         \/ \E r \in Registrars : RegisterStore(r)
         \/ \E k \in Keys : Unregister(k)
         \/ \E c \in Calls :
              \/ \E kind \in Kinds, req \in Requests : Begin(c, kind, req)
              \/ EndContext(c) \/ Prepare(c) \/ Refuse(c) \/ Await(c)
         \/ Exit \/ EndHandlerContext
         \/ \E s \in Shutdowns : \/ ShutdownSwap(s) \/ CloseDone(s) \/ Join(s)
                                \/ ShutdownReturn(s)
  PROVE  AdmittedOnce' /\ OneHand' /\ SettledOnce'
<1> USE DEF registry, callVars, line, workerVars, shutdownVars
<1>1. UNCHANGED <<admitted, answers, current, held, ran, rejected>>
  BY DEF vars, RegisterCheck, RegisterStore, Unregister, Begin, EndContext,
     Prepare, Refuse, Await, Exit, EndHandlerContext, ShutdownSwap, CloseDone,
     Join, ShutdownReturn
<1>2. \/ UNCHANGED pc
      \/ \E c \in Calls, v \in {"returned", "prepare", "select"} :
           /\ pc[c] \in {"idle", "prepare", "select", "await"}
           /\ pc' = [pc EXCEPT ![c] = v]
           /\ pc[c] = "await" => v = "returned"
  BY DEF vars, RegisterCheck, RegisterStore, Unregister, Begin, EndContext,
     Prepare, Refuse, Await, ContextCase, Return, Answer, Exit, EndHandlerContext,
     ShutdownSwap, CloseDone, Join, ShutdownReturn
<1>3. \A c \in Calls : pc'[c] \in {"idle", "prepare", "select"} =>
                       pc[c] \in {"idle", "prepare", "select"}
  BY <1>2 DEF SInv, LInv, TInv, TypeOK
<1>4. QED
  BY <1>1, <1>3, SettledFrame

LEMMA SettledAdmit ==
  ASSUME SInv, NEW c \in Calls, Admit(c)
  PROVE  AdmittedOnce' /\ OneHand' /\ SettledOnce'
<1> USE DEF registry, callVars, line, workerVars, shutdownVars
<1>1. admitted \in Seq(Calls) /\ pc \in [Calls -> Blocked \cup {"idle", "accepted", "returned"}]
  BY DEF SInv, LInv, TInv, TypeOK
<1>2. /\ pc[c] = "select" /\ admitted' = Append(admitted, c)
      /\ UNCHANGED <<answers, current, held, ran, rejected>>
      /\ \E v \in {"await", "accepted"} : pc' = [pc EXCEPT ![c] = v]
  BY DEF Admit, Accepted
<1>3. c \notin Range(admitted)
  BY <1>2 DEF SInv, AdmittedOnce
<1>4. Distinct(admitted')
  BY <1>1, <1>2, <1>3, DistinctAppend DEF SInv, AdmittedOnce
<1>5. Range(admitted') = Range(admitted) \cup {c}
  BY <1>1, <1>2, RangeAppend
<1>6. \A d \in Calls :
        pc'[d] \in {"idle", "prepare", "select"} => d \notin Range(admitted')
  BY <1>1, <1>2, <1>5 DEF SInv, AdmittedOnce
<1>7. AdmittedOnce'
  BY <1>4, <1>6 DEF AdmittedOnce, Distinct
<1>8. OneHand' /\ SettledOnce'
  BY <1>2 DEF SInv, OneHand, SettledOnce, Settled, InHand
<1>9. QED
  BY <1>7, <1>8

LEMMA SettledTakeWork ==
  ASSUME SInv, TakeWork
  PROVE  AdmittedOnce' /\ OneHand' /\ SettledOnce'
<1> DEFINE h == Head(queue)
<1> USE DEF registry, callVars, line, workerVars, shutdownVars
<1>1. /\ queue # <<>> /\ current = NoCall /\ current' = h
      /\ ran' = Append(ran, h)
      /\ UNCHANGED <<admitted, answers, held, rejected, pc>>
  BY DEF TakeWork, SInv, LInv, DrainAfterExit
<1>2. h \in Calls /\ ran \in Seq(Calls)
  BY <1>1, QueueTypes DEF SInv, LInv, TInv, TypeOK
<1>3. Range(ran') = Range(ran) \cup {h}
  BY <1>1, <1>2, RangeAppend
<1>4. h \notin Range(ran) \cup Range(rejected)
  BY <1>1, HandsApart DEF SInv
<1>5. AdmittedOnce'
  BY <1>1 DEF SInv, AdmittedOnce, Distinct
<1>6. OneHand'
  BY <1>1, <1>3 DEF SInv, OneHand
<1>7. ASSUME NEW d \in Calls
      PROVE  Len(answers'[d]) = IF Settled(d)' THEN 1 ELSE 0
  <2>1. Len(answers[d]) = IF Settled(d) THEN 1 ELSE 0
    BY DEF SInv, SettledOnce
  <2>2. CASE d = h
    BY <1>1, <1>4, <2>1, <2>2 DEF Settled, InHand
  <2>3. CASE d # h
    <3>1. InHand(d)' <=> InHand(d)
      BY <1>1, <2>3, CallAssumption DEF InHand
    <3>2. d \in Range(ran') \cup Range(rejected') <=> d \in Range(ran) \cup Range(rejected)
      BY <1>1, <1>3, <2>3
    <3>3. QED
      BY <1>1, <2>1, <3>1, <3>2 DEF Settled
  <2>4. QED
    BY <2>2, <2>3
<1>8. QED
  BY <1>5, <1>6, <1>7 DEF SettledOnce

LEMMA SettledFinishWork ==
  ASSUME SInv, NEW outcome \in Outcomes, FinishWork(outcome)
  PROVE  AdmittedOnce' /\ OneHand' /\ SettledOnce'
<1> USE DEF registry, callVars, line, workerVars, shutdownVars
<1>1. /\ current \in Calls /\ current' = NoCall
      /\ answers' = [answers EXCEPT ![current] = Append(@, Code(outcome))]
      /\ UNCHANGED <<admitted, held, ran, rejected, pc>>
  BY DEF FinishWork, Respond, SInv, LInv, TInv, WorkerBusy
<1>2. current \in Range(ran) /\ current \notin Range(rejected)
  BY <1>1, HandsApart, CallAssumption DEF SInv, OneHand
<1>3. \A s \in Shutdowns : held[s] # current
  BY <1>1, <1>2, CallAssumption DEF SInv, OneHand
<1>4. AdmittedOnce' /\ OneHand'
  BY <1>1 DEF SInv, AdmittedOnce, Distinct, OneHand
<1>5. answers \in [Calls -> Seq(Codes)]
  BY DEF SInv, LInv, TInv, TypeOK
<1>6. ASSUME NEW d \in Calls
      PROVE  Len(answers'[d]) = IF Settled(d)' THEN 1 ELSE 0
  <2>1. Len(answers[d]) = IF Settled(d) THEN 1 ELSE 0
    BY DEF SInv, SettledOnce
  <2>2. CASE d = current
    <3>1. Len(answers[d]) = 0 /\ Settled(d)'
      BY <1>1, <1>2, <1>3, <2>1, <2>2, CallAssumption DEF Settled, InHand
    <3>2. answers'[d] = Append(answers[d], Code(outcome))
      BY <1>1, <1>5, <2>2
    <3>3. QED
      BY <1>5, <3>1, <3>2
  <2>3. CASE d # current
    <3>1. Settled(d)' <=> Settled(d)
      BY <1>1, <2>3, CallAssumption DEF Settled, InHand
    <3>2. answers'[d] = answers[d]
      BY <1>1, <1>5, <2>3
    <3>3. QED
      BY <2>1, <3>1, <3>2
  <2>4. QED
    BY <2>2, <2>3
<1>7. QED
  BY <1>4, <1>6 DEF SettledOnce

LEMMA SettledDrainReceive ==
  ASSUME SInv, NEW s \in Shutdowns, DrainReceive(s)
  PROVE  AdmittedOnce' /\ OneHand' /\ SettledOnce'
<1> DEFINE h == Head(queue)
<1> USE DEF registry, callVars, line, workerVars, shutdownVars
<1>1. UNCHANGED <<admitted, answers, current, ran, pc>> /\ held[s] = NoCall
  BY DEF DrainReceive
<1>2. CASE queue = <<>>
  BY <1>1, <1>2, SettledFrame DEF DrainReceive
<1>3. CASE queue # <<>>
  <2>1. /\ held' = [held EXCEPT ![s] = h]
        /\ rejected' = Append(rejected, h)
    BY <1>3 DEF DrainReceive, Hold
  <2>2. /\ h \in Calls /\ rejected \in Seq(Calls)
        /\ held \in [Shutdowns -> Calls \cup {NoCall}]
    BY <1>3, QueueTypes DEF SInv, LInv, TInv, TypeOK
  <2>3. Range(rejected') = Range(rejected) \cup {h}
    BY <2>1, <2>2, RangeAppend
  <2>4. h \notin Range(ran) \cup Range(rejected)
    BY <1>3, HandsApart DEF SInv
  <2>5. /\ held'[s] = h
        /\ \A t \in Shutdowns : t # s => held'[t] = held[t]
        /\ \A t \in Shutdowns : held[t] # h
    BY <2>1, <2>2, <2>4, CallAssumption DEF SInv, OneHand
  <2>6. AdmittedOnce'
    BY <1>1 DEF SInv, AdmittedOnce, Distinct
  <2>7. OneHand'
    BY <1>1, <2>3, <2>5 DEF SInv, OneHand
  <2>8. ASSUME NEW d \in Calls
        PROVE  Len(answers'[d]) = IF Settled(d)' THEN 1 ELSE 0
    <3>1. Len(answers[d]) = IF Settled(d) THEN 1 ELSE 0
      BY DEF SInv, SettledOnce
    <3>2. CASE d = h
      <4>1. ~Settled(d)
        BY <2>4, <3>2 DEF Settled
      <4>2. ~Settled(d)'
        BY <2>5, <3>2 DEF Settled, InHand
      <4>3. QED
        BY <1>1, <3>1, <4>1, <4>2
    <3>3. CASE d # h
      <4>1. InHand(d)' <=> InHand(d)
        BY <1>1, <2>5, <3>3, CallAssumption DEF InHand
      <4>2. d \in Range(ran') \cup Range(rejected') <=> d \in Range(ran) \cup Range(rejected)
        BY <1>1, <2>3, <3>3
      <4>3. QED
        BY <1>1, <3>1, <4>1, <4>2 DEF Settled
    <3>4. QED
      BY <3>2, <3>3
  <2>9. QED
    BY <2>6, <2>7, <2>8 DEF SettledOnce
<1>4. QED
  BY <1>2, <1>3

LEMMA SettledDrainAnswer ==
  ASSUME SInv, NEW s \in Shutdowns, DrainAnswer(s)
  PROVE  AdmittedOnce' /\ OneHand' /\ SettledOnce'
<1> DEFINE h == held[s]
<1> USE DEF registry, callVars, line, workerVars, shutdownVars
<1>1. /\ h # NoCall /\ held' = [held EXCEPT ![s] = NoCall]
      /\ answers' = [answers EXCEPT ![h] = Append(@, "dispatcher_closed")]
      /\ UNCHANGED <<admitted, current, ran, rejected, pc>>
  BY DEF DrainAnswer
<1>2. /\ h \in Calls /\ held \in [Shutdowns -> Calls \cup {NoCall}]
      /\ answers \in [Calls -> Seq(Codes)]
  BY <1>1 DEF SInv, LInv, TInv, TypeOK
<1>3. h \in Range(rejected) /\ h # current
  BY <1>1, HandsApart DEF SInv, OneHand
<1>4. /\ held'[s] = NoCall
      /\ \A t \in Shutdowns : t # s => held'[t] = held[t] /\ held[t] # h
  BY <1>1, <1>2 DEF SInv, OneHand
<1>5. AdmittedOnce' /\ OneHand'
  BY <1>1, <1>4 DEF SInv, AdmittedOnce, Distinct, OneHand
<1>6. ASSUME NEW d \in Calls
      PROVE  Len(answers'[d]) = IF Settled(d)' THEN 1 ELSE 0
  <2>1. Len(answers[d]) = IF Settled(d) THEN 1 ELSE 0
    BY DEF SInv, SettledOnce
  <2>2. CASE d = h
    <3>1. ~Settled(d)
      BY <2>2 DEF Settled, InHand
    <3>2. Settled(d)'
      BY <1>1, <1>2, <1>3, <1>4, <2>2, CallAssumption DEF Settled, InHand
    <3>3. answers'[d] = Append(answers[d], "dispatcher_closed")
      BY <1>1, <1>2, <2>2
    <3>4. QED
      BY <1>2, <2>1, <3>1, <3>2, <3>3
  <2>3. CASE d # h
    <3>1. Settled(d)' <=> Settled(d)
      BY <1>1, <1>2, <1>4, <2>3, CallAssumption DEF Settled, InHand
    <3>2. answers'[d] = answers[d]
      BY <1>1, <1>2, <2>3
    <3>3. QED
      BY <2>1, <3>1, <3>2
  <2>4. QED
    BY <2>2, <2>3
<1>7. QED
  BY <1>5, <1>6 DEF SettledOnce

LEMMA SettledInvariant == Spec => []SInv
<1>1. ASSUME SInv, [Next]_vars
      PROVE  AdmittedOnce' /\ OneHand' /\ SettledOnce'
  BY <1>1, SettledQuietSteps, SettledAdmit, SettledTakeWork, SettledFinishWork,
     SettledDrainReceive, SettledDrainAnswer DEF Next
<1>2. SInv /\ [Next]_vars => SInv'
  BY <1>1, TypeStep, DrainAfterExitStep, LedgerStep DEF SInv, LInv
<1>3. QED
  BY SettledInit, <1>2, PTL DEF Spec

\* Every item of work gets exactly one response, when its handler has returned
\* or its drainer has rejected it, so no send on a result channel ever blocks
\* the worker or a drainer.
THEOREM OneResponseEach == Spec => []SettledOnce
<1>1. SInv => SettledOnce
  BY DEF SInv
<1>2. QED
  BY SettledInvariant, <1>1, PTL
-----------------------------------------------------------------------------
(***************************************************************************)
(* Who gets onto the dispatcher's queue and what callers are told, for any *)
(* callers, requests, policies and queue size.  The theorems rest on SInv: *)
(* a call that is still in enqueue was never admitted.                     *)
(***************************************************************************)

\* What enqueue establishes of a call, piece by piece, before it is admitted.
Checked(c) ==
  /\ ~call[c].late
  /\ call[c].req.size <= MaxSize
  /\ Authorized(call[c].req)
  /\ call[c].handler \in Handlers

ChecksGoFirst ==
  \A c \in Calls :
    /\ pc[c] = "prepare" => ~call[c].late
    /\ pc[c] = "select" \/ c \in Range(admitted) => Checked(c)

\* IDs that prepare assigned are not above the counter; nobody has one before.
IDsAreTaken ==
  \A c \in Calls :
    /\ pc[c] \in {"idle", "prepare"} => call[c].id = 0
    /\ call[c].req.id = 0 => call[c].id <= nextID

AParts == ChecksGoFirst /\ IDsAreTaken /\ AutoIDsDistinct /\ RefusedNeverRuns

AInv == SInv /\ AParts

-----------------------------------------------------------------------------
LEMMA AdmissionInit == Init => AInv
<1> SUFFICES ASSUME Init PROVE AInv
  OBVIOUS
<1>1. SInv
  BY SettledInit
<1>2. Range(<<>>) = {}
  BY DEF Range
<1>3. ChecksGoFirst /\ IDsAreTaken /\ AutoIDsDistinct
  <2>1. \A c \in Calls : pc[c] = "idle" /\ call[c].id = 0
    BY DEF Init, IdleCall
  <2>2. Range(admitted) = {} /\ nextID = 0
    BY <1>2 DEF Init
  <2>3. QED
    BY <2>1, <2>2 DEF ChecksGoFirst, IDsAreTaken, AutoIDsDistinct
<1>4. RefusedNeverRuns
  BY DEF Init, RefusedNeverRuns, Refused
<1>5. QED
  BY <1>1, <1>3, <1>4 DEF AInv, AParts

\* Calls in enqueue are not on the books, so what is written of them disturbs
\* nothing that was admitted.
LEMMA NotYetAdmitted ==
  ASSUME SInv, NEW c \in Calls, pc[c] \in {"idle", "prepare", "select"}
  PROVE  c \notin Range(admitted)
  BY DEF SInv, AdmittedOnce

\* Steps of the worker, of shutdowns and of registrars.
LEMMA AdmissionFrame ==
  ASSUME AInv, UNCHANGED <<pc, call, admitted, nextID>>
  PROVE  AParts'
  BY DEF AInv, AParts, ChecksGoFirst, Checked, Authorized, IDsAreTaken,
     AutoIDsDistinct, RefusedNeverRuns, Refused

LEMMA AdmissionBegin ==
  ASSUME AInv, NEW c \in Calls, NEW kind \in Kinds, NEW req \in Requests,
         Begin(c, kind, req)
  PROVE  AParts'
<1> DEFINE new == [IdleCall EXCEPT !.kind = kind, !.req = req, !.late = closed,
                     !.ret = IF SeesClosed THEN "dispatcher_closed" ELSE NoCode]
<1>1. /\ pc \in [Calls -> Blocked \cup {"idle", "accepted", "returned"}]
      /\ call \in [Calls -> CallRecord] /\ closed \in BOOLEAN /\ nextID \in Nat
  BY DEF AInv, SInv, LInv, TInv, TypeOK
<1>2. /\ pc[c] = "idle" /\ call' = [call EXCEPT ![c] = new]
      /\ pc' = [pc EXCEPT ![c] = IF closed THEN "returned" ELSE "prepare"]
      /\ UNCHANGED <<admitted, answers, nextID>>
  BY DEF Begin, SeesClosed, line
<1>3. /\ new.late = closed /\ new.id = 0 /\ new.req = req /\ new.kind = kind
  BY DEF IdleCall
<1>4. c \notin Range(admitted)
  BY <1>2, NotYetAdmitted DEF AInv
<1>5. /\ call'[c] = new
      /\ pc'[c] = IF closed THEN "returned" ELSE "prepare"
      /\ \A d \in Calls : d # c => call'[d] = call[d] /\ pc'[d] = pc[d]
  BY <1>1, <1>2
<1> HIDE DEF new
<1>6. ChecksGoFirst'
  BY <1>1, <1>2, <1>3, <1>4, <1>5 DEF AInv, AParts, ChecksGoFirst, Checked, Authorized
<1>7. IDsAreTaken' /\ AutoIDsDistinct'
  BY <1>1, <1>2, <1>3, <1>5 DEF AInv, AParts, IDsAreTaken, AutoIDsDistinct
<1>8. RefusedNeverRuns'
  BY <1>1, <1>2, <1>4, <1>5 DEF AInv, AParts, RefusedNeverRuns, Refused
<1>9. QED
  BY <1>6, <1>7, <1>8 DEF AParts

\* A call of enqueue or of Invoke's select that returns.  Once it was admitted
\* its caller is handed a response.
LEMMA AdmissionReturn ==
  ASSUME AInv, NEW c \in Calls, NEW v \in Codes,
         \/ pc[c] \in {"prepare", "select"} /\ Return(c, v)
         \/ pc[c] = "await" /\ Answer(c, v),
         UNCHANGED <<admitted, answers>>,
         nextID' \in Nat, nextID' >= nextID
  PROVE  AParts'
<1>1. /\ pc \in [Calls -> Blocked \cup {"idle", "accepted", "returned"}]
      /\ call \in [Calls -> CallRecord] /\ nextID \in Nat
  BY DEF AInv, SInv, LInv, TInv, TypeOK
<1>2. pc' = [pc EXCEPT ![c] = "returned"]
  BY DEF Return, Answer
<1>3. /\ pc'[c] = "returned" /\ pc[c] \in {"prepare", "select", "await"}
      /\ \A d \in Calls : d # c => call'[d] = call[d] /\ pc'[d] = pc[d]
  BY <1>1, <1>2 DEF Return, Answer
<1>4. /\ pc[c] = "await" => call'[c].resp = v
      /\ \A d \in Calls : /\ call'[d].late = call[d].late
                          /\ call'[d].req = call[d].req
                          /\ call'[d].id = call[d].id
                          /\ call'[d].handler = call[d].handler
  BY <1>1, <1>3 DEF CallRecord, Return, Answer
<1>5. \A d \in Calls : call[d].id \in Nat
  BY <1>1 DEF CallRecord
<1>6. ChecksGoFirst'
  BY <1>3, <1>4 DEF AInv, AParts, ChecksGoFirst, Checked, Authorized
<1>7. IDsAreTaken' /\ AutoIDsDistinct'
  BY <1>1, <1>3, <1>4, <1>5 DEF AInv, AParts, IDsAreTaken, AutoIDsDistinct
<1>8. RefusedNeverRuns'
  <2> SUFFICES ASSUME NEW d \in Calls, Refused(d)'
               PROVE  d \notin Range(admitted)
    BY DEF RefusedNeverRuns
  <2>1. CASE d # c
    BY <1>3, <2>1 DEF AInv, AParts, RefusedNeverRuns, Refused
  <2>2. CASE d = c /\ pc[c] = "await"
    BY <1>4, <2>2 DEF Refused, Codes, NoCode
  <2>3. CASE d = c /\ pc[c] # "await"
    BY <1>3, <2>3, NotYetAdmitted DEF AInv
  <2>4. QED
    BY <2>1, <2>2, <2>3
<1>9. QED
  BY <1>6, <1>7, <1>8 DEF AParts

LEMMA AdmissionPrepare ==
  ASSUME AInv, NEW c \in Calls, Prepare(c)
  PROVE  AParts'
<1> DEFINE req == call[c].req
           e   == PrepareError(req)
           id  == IF req.id = 0 THEN nextID + 1 ELSE req.id
           new == [call[c] EXCEPT !.id = id, !.handler = handlers[req.key]]
<1>1. /\ pc \in [Calls -> Blocked \cup {"idle", "accepted", "returned"}]
      /\ call \in [Calls -> CallRecord] /\ nextID \in Nat
      /\ handlers \in [Keys -> Handlers \cup {NoHandler}]
  BY DEF AInv, SInv, LInv, TInv, TypeOK
<1>2. /\ pc[c] = "prepare" /\ nextID' = AdvanceID(req)
      /\ UNCHANGED <<admitted, answers>>
  BY DEF Prepare, line
<1>3. call[c] \in CallRecord /\ req \in Requests \cup {NoRequest}
  BY <1>1 DEF CallRecord
<1>4. req.key \in Keys \cup {NoKey} /\ req.size \in Nat /\ req.id \in Nat
  BY <1>3, RequestTypes
<1>5. nextID' \in Nat /\ nextID' >= nextID
  BY <1>1, <1>2, <1>4 DEF AdvanceID
<1>6. CASE e # NoCode
  <2>1. Return(c, e) /\ e \in Codes
    BY <1>6 DEF Prepare, PrepareError, Codes
  <2>2. QED
    BY <1>2, <1>5, <2>1, AdmissionReturn
<1>7. CASE e = NoCode
  <2>1. /\ req.key \in Keys /\ req.size <= MaxSize
        /\ handlers[req.key] \in Handlers /\ Authorized(req)
    BY <1>1, <1>4, <1>7, SizeAssumption DEF PrepareError, NoCode
  <2>2. /\ pc' = [pc EXCEPT ![c] = "select"]
        /\ call' = [call EXCEPT ![c].id = id, ![c].handler = handlers[req.key]]
    BY <1>7 DEF Prepare
  <2>3. call' = [call EXCEPT ![c] = new]
    BY <1>1, <1>3, <2>2 DEF CallRecord
  <2>4. /\ pc'[c] = "select" /\ call'[c] = new
        /\ \A d \in Calls : d # c => call'[d] = call[d] /\ pc'[d] = pc[d]
    BY <1>1, <2>2, <2>3
  <2>5. /\ new.id = id /\ new.handler = handlers[req.key] /\ new.req = req
        /\ new.late = call[c].late /\ new.kind = call[c].kind
    BY <1>3 DEF CallRecord
  <2>6. c \notin Range(admitted) /\ ~call[c].late
    BY <1>2, NotYetAdmitted DEF AInv, AParts, ChecksGoFirst
  <2> HIDE DEF new
  <2>7. ChecksGoFirst'
    BY <1>2, <2>1, <2>4, <2>5, <2>6 DEF AInv, AParts, ChecksGoFirst, Checked, Authorized
  <2>8. \A d \in Calls : call[d].id \in Nat /\ (d # c => call'[d].id = call[d].id)
    BY <1>1, <2>4 DEF CallRecord
  <2>9. req.id = 0 => id = nextID + 1 /\ nextID' = nextID + 1
    BY <1>2 DEF AdvanceID
  <2>10. IDsAreTaken'
    BY <1>1, <1>5, <2>4, <2>5, <2>8, <2>9 DEF AInv, AParts, IDsAreTaken
  <2>11. AutoIDsDistinct'
    BY <1>1, <2>4, <2>5, <2>8, <2>9 DEF AInv, AParts, IDsAreTaken, AutoIDsDistinct
  <2>12. RefusedNeverRuns'
    BY <1>2, <2>4 DEF AInv, AParts, RefusedNeverRuns, Refused
  <2>13. QED
    BY <2>7, <2>10, <2>11, <2>12 DEF AParts
<1>8. QED
  BY <1>6, <1>7

LEMMA AdmissionAdmit ==
  ASSUME AInv, NEW c \in Calls, Admit(c)
  PROVE  AParts'
<1>1. /\ pc \in [Calls -> Blocked \cup {"idle", "accepted", "returned"}]
      /\ admitted \in Seq(Calls)
  BY DEF AInv, SInv, LInv, TInv, TypeOK
<1>2. /\ pc[c] = "select" /\ admitted' = Append(admitted, c)
      /\ pc' = [pc EXCEPT ![c] = IF call[c].kind = "Invoke" THEN "await"
                                                            ELSE "accepted"]
      /\ UNCHANGED <<call, answers, nextID>>
  BY DEF Admit, Accepted
<1>3. Range(admitted') = Range(admitted) \cup {c}
  BY <1>1, <1>2, RangeAppend
<1>4. /\ pc'[c] \in {"await", "accepted"}
      /\ \A d \in Calls : d # c => pc'[d] = pc[d]
  BY <1>1, <1>2
<1>5. ChecksGoFirst'
  BY <1>2, <1>3, <1>4 DEF AInv, AParts, ChecksGoFirst, Checked, Authorized
<1>6. IDsAreTaken' /\ AutoIDsDistinct'
  BY <1>2, <1>4 DEF AInv, AParts, IDsAreTaken, AutoIDsDistinct
<1>7. RefusedNeverRuns'
  BY <1>2, <1>3, <1>4 DEF AInv, AParts, RefusedNeverRuns, Refused
<1>8. QED
  BY <1>5, <1>6, <1>7 DEF AParts

LEMMA AdmissionRefuse ==
  ASSUME AInv, NEW c \in Calls, Refuse(c)
  PROVE  AParts'
<1>1. TypeOK /\ nextID \in Nat
  BY DEF AInv, SInv, LInv, TInv, TypeOK
<1>2. PICK v \in Codes : Return(c, v)
  BY <1>1, ContextTypes, ErrorCodes DEF Refuse, Codes
<1>3. pc[c] = "select" /\ UNCHANGED <<admitted, answers, nextID>>
  BY DEF Refuse, line
<1>4. QED
  BY <1>1, <1>2, <1>3, AdmissionReturn

LEMMA AdmissionAwait ==
  ASSUME AInv, NEW c \in Calls, Await(c)
  PROVE  AParts'
<1>1. TypeOK /\ nextID \in Nat
  BY DEF AInv, SInv, LInv, TInv, TypeOK
<1>2. answers[c] # <<>> => Head(answers[c]) \in Codes
  BY <1>1 DEF TypeOK
<1>3. PICK v \in Codes : Answer(c, v)
  BY <1>1, <1>2, ContextTypes, ErrorCodes DEF Await, ContextCase, Codes
<1>4. pc[c] = "await" /\ UNCHANGED <<admitted, answers, nextID>>
  BY DEF Await, line
<1>5. QED
  BY <1>1, <1>3, <1>4, AdmissionReturn

LEMMA AdmissionStep == AInv /\ [Next]_vars => AParts'
<1> SUFFICES ASSUME AInv, [Next]_vars PROVE AParts'
  OBVIOUS
<1>1. CASE \/ UNCHANGED vars
           \/ \E r \in Registrars, k \in Keys, h \in Handlers : RegisterCheck(r, k, h)
           \/ \E r \in Registrars : RegisterStore(r)
           \/ \E k \in Keys : Unregister(k)
           \/ \E c \in Calls : EndContext(c)
           \/ TakeWork \/ Exit \/ EndHandlerContext
           \/ \E outcome \in Outcomes : FinishWork(outcome)
           \/ \E s \in Shutdowns : \/ ShutdownSwap(s) \/ CloseDone(s) \/ Join(s)
                                   \/ DrainReceive(s) \/ DrainAnswer(s)
                                   \/ ShutdownReturn(s)
  <2>1. UNCHANGED <<pc, call, admitted, nextID>>
    BY <1>1 DEF vars, callVars, line, RegisterCheck, RegisterStore, Unregister,
       EndContext, TakeWork, Exit, EndHandlerContext, FinishWork, ShutdownSwap,
       CloseDone, Join, DrainReceive, DrainAnswer, ShutdownReturn
  <2>2. QED
    BY <2>1, AdmissionFrame
<1>2. CASE \E c \in Calls, kind \in Kinds, req \in Requests : Begin(c, kind, req)
  BY <1>2, AdmissionBegin
<1>3. CASE \E c \in Calls : Prepare(c) \/ Admit(c) \/ Refuse(c) \/ Await(c)
  BY <1>3, AdmissionPrepare, AdmissionAdmit, AdmissionRefuse, AdmissionAwait
<1>4. QED
  BY <1>1, <1>2, <1>3 DEF Next

LEMMA AdmissionInvariant == Spec => []AParts
<1>1. AInv <=> SInv /\ AParts
  BY DEF AInv
<1>2. Init => AParts
  BY AdmissionInit, <1>1
<1>3. SInv /\ AParts /\ [Next]_vars => AParts'
  BY AdmissionStep, <1>1
<1>4. QED
  BY SettledInvariant, <1>2, <1>3, PTL DEF Spec

-----------------------------------------------------------------------------
\* A call that is told an error and handed no response never runs, whichever
\* ready case the selects of enqueue chose: its caller may try again.
THEOREM RefusedIsRefused == Spec => []RefusedNeverRuns
<1>1. AParts => RefusedNeverRuns
  BY DEF AParts
<1>2. QED
  BY AdmissionInvariant, <1>1, PTL

\* Work is on the queue only after closed, size, policy and handler were
\* checked for it, whatever was closed or unregistered since.
THEOREM AdmittedAreChecked == Spec => []AdmittedWereChecked
<1>1. SInv /\ AParts => AdmittedWereChecked
  <2> SUFFICES ASSUME SInv, AParts, NEW c \in Range(admitted) PROVE Checked(c)
    BY DEF AdmittedWereChecked, Checked
  <2>1. admitted \in Seq(Calls)
    BY DEF SInv, LInv, TInv, TypeOK
  <2>2. c \in Calls
    BY <2>1 DEF Range
  <2>3. QED
    BY <2>2 DEF AParts, ChecksGoFirst
<1>2. QED
  BY SettledInvariant, AdmissionInvariant, <1>1, PTL

\* No two requests are given the same ID, however many callers run prepare.
THEOREM IDsAreDistinct == Spec => []AutoIDsDistinct
<1>1. AParts => AutoIDsDistinct
  BY DEF AParts
<1>2. QED
  BY AdmissionInvariant, <1>1, PTL

-----------------------------------------------------------------------------
(* What Invoke answers.  It gives up waiting with the error of a context   *)
(* that another call's handler may own; that handler has run, and runs     *)
(* only once, so the context never comes back to life.                     *)

\* The handler that makes a call was called.
ParentsRan ==
  \A c \in Calls : pc[c] # "idle" /\ Parent[c] # NoCall => Parent[c] \in Range(ran)

WInv == ParentsRan /\ InvokeAnswersTruly

LEMMA AnswerInit == Init => WInv
<1> SUFFICES ASSUME Init PROVE WInv
  OBVIOUS
<1>1. \A c \in Calls : pc[c] = "idle"
  BY DEF Init
<1>2. QED
  BY <1>1 DEF WInv, ParentsRan, InvokeAnswersTruly

\* A step calls one handler or none, and never undoes a close.
LEMMA HistoryGrows ==
  ASSUME SInv, [Next]_vars
  PROVE  /\ Range(ran) \subseteq Range(ran')
         /\ done => done'
<1>1. ran \in Seq(Calls) /\ queue \in Seq(Calls)
  BY DEF SInv, LInv, TInv, TypeOK
<1>2. CASE TakeWork
  <2>1. Head(queue) \in Calls /\ ran' = Append(ran, Head(queue)) /\ done' = done
    BY <1>1, <1>2 DEF TakeWork, shutdownVars
  <2>2. QED
    BY <1>1, <2>1, RangeAppend
<1>3. CASE ~TakeWork
  <2>1. ran' = ran
    BY <1>3 DEF Next, vars, workerVars, RegisterCheck, RegisterStore,
       Unregister, Begin, EndContext, Prepare, Admit, Refuse, Await, Exit,
       EndHandlerContext, FinishWork, ShutdownSwap, CloseDone, Join,
       DrainReceive, DrainAnswer, ShutdownReturn
  <2>2. done => done'
    BY <1>3 DEF Next, vars, shutdownVars, RegisterCheck, RegisterStore,
       Unregister, Begin, EndContext, Prepare, Admit, Refuse, Await, Exit,
       EndHandlerContext, FinishWork, ShutdownSwap, CloseDone, Close, Join,
       DrainReceive, DrainAnswer, ShutdownReturn
  <2>3. QED
    BY <2>1, <2>2
<1>4. QED
  BY <1>2, <1>3

\* What a step does to a call: it leaves it as it is, or lets it go on, or is a
\* return from enqueue, or one from the select of Invoke.
LEMMA CallMoves ==
  ASSUME SInv, [Next]_vars, NEW c \in Calls
  PROVE  \/ pc'[c] = pc[c] /\ call'[c] = call[c]
         \/ pc'[c] # "returned" /\ (pc[c] # "idle" \/ CallerRuns(c))
         \/ /\ pc[c] \in {"idle", "prepare", "select"} /\ admitted' = admitted
            /\ pc[c] = "idle" => CallerRuns(c)
         \/ Await(c)
<1>1. /\ pc \in [Calls -> Blocked \cup {"idle", "accepted", "returned"}]
      /\ call \in [Calls -> CallRecord]
  BY DEF SInv, LInv, TInv, TypeOK
<1>2. CASE \E d \in Calls, kind \in Kinds, req \in Requests : Begin(d, kind, req)
  BY <1>1, <1>2 DEF Begin, line
<1>3. CASE \E d \in Calls : Prepare(d)
  BY <1>1, <1>3 DEF Prepare, Return, line
<1>4. CASE \E d \in Calls : Admit(d)
  BY <1>1, <1>4 DEF Admit, Accepted
<1>5. CASE \E d \in Calls : Refuse(d)
  BY <1>1, <1>5 DEF Refuse, Return, line
<1>6. CASE \E d \in Calls : Await(d)
  <2>1. PICK d \in Calls : Await(d)
    BY <1>6
  <2>2. PICK v : Answer(d, v)
    BY <2>1 DEF Await, ContextCase
  <2>3. d # c => pc'[c] = pc[c] /\ call'[c] = call[c]
    BY <1>1, <2>2 DEF Answer
  <2>4. QED
    BY <2>1, <2>3
<1>7. CASE UNCHANGED <<pc, call>>
  BY <1>7
<1>8. QED
  BY <1>2, <1>3, <1>4, <1>5, <1>6, <1>7
  DEF Next, vars, callVars, RegisterCheck, RegisterStore, Unregister,
     EndContext, TakeWork, Exit, EndHandlerContext, FinishWork, ShutdownSwap,
     CloseDone, Join, DrainReceive, DrainAnswer, ShutdownReturn

\* Only a call at the select is admitted.
LEMMA AdmittedBefore ==
  ASSUME SInv, [Next]_vars, NEW c \in Calls, pc[c] # "select",
         c \in Range(admitted')
  PROVE  c \in Range(admitted)
<1>1. admitted \in Seq(Calls)
  BY DEF SInv, LInv, TInv, TypeOK
<1>2. CASE \E d \in Calls : Admit(d)
  <2>1. PICK d \in Calls : Admit(d)
    BY <1>2
  <2>2. pc[d] = "select" /\ admitted' = Append(admitted, d)
    BY <2>1 DEF Admit
  <2>3. QED
    BY <1>1, <2>2, RangeAppend
<1>3. CASE ~\E d \in Calls : Admit(d)
  <2>1. admitted' = admitted
    BY <1>3 DEF Next, vars, line, RegisterCheck, RegisterStore, Unregister,
       Begin, EndContext, Prepare, Refuse, Await, TakeWork, Exit,
       EndHandlerContext, FinishWork, ShutdownSwap, CloseDone, Join,
       DrainReceive, DrainAnswer, ShutdownReturn
  <2>2. QED
    BY <2>1
<1>4. QED
  BY <1>2, <1>3

LEMMA ParentsStep == SInv /\ ParentsRan /\ [Next]_vars => ParentsRan'
<1> SUFFICES ASSUME SInv, ParentsRan, [Next]_vars, NEW c \in Calls,
                    pc'[c] # "idle", Parent[c] # NoCall
             PROVE  Parent[c] \in Range(ran')
  BY DEF ParentsRan
<1>1. pc[c] # "idle" \/ CallerRuns(c)
  BY CallMoves DEF Await
<1>2. CASE pc[c] # "idle"
  BY <1>2, HistoryGrows DEF ParentsRan
<1>3. CASE CallerRuns(c)
  <2>1. Parent[c] = current /\ current # NoCall
    BY <1>3 DEF CallerRuns
  <2>2. QED
    BY <2>1, HistoryGrows DEF SInv, OneHand
<1>4. QED
  BY <1>1, <1>2, <1>3

\* A channel that got its response gets no other.
LEMMA AnswerStays ==
  ASSUME SInv, SInv', [Next]_vars, NEW c \in Calls, answers[c] # <<>>
  PROVE  answers'[c] = answers[c]
<1>1. answers \in [Calls -> Seq(Codes)]
  BY DEF SInv, LInv, TInv, TypeOK
<1>2. Len(answers'[c]) <= 1
  BY DEF SInv, SettledOnce
<1>3. CASE \E d \in Calls, v \in Codes :
           answers' = [answers EXCEPT ![d] = Append(@, v)]
  <2>1. PICK d \in Calls, v \in Codes :
          answers' = [answers EXCEPT ![d] = Append(@, v)]
    BY <1>3
  <2>2. CASE d = c
    <3>1. answers'[c] = Append(answers[c], v)
      BY <1>1, <2>1, <2>2
    <3>2. answers[c] \in Seq(Codes)
      BY <1>1
    <3>3. Len(answers'[c]) = Len(answers[c]) + 1
      BY <3>1, <3>2, AppendProperties
    <3>4. Len(answers[c]) \in Nat /\ Len(answers[c]) > 0
      BY <3>2, EmptySeq
    <3>5. QED
      BY <1>2, <3>3, <3>4
  <2>3. CASE d # c
    BY <1>1, <2>1, <2>3
  <2>4. QED
    BY <2>2, <2>3
<1>4. CASE answers' = answers
  BY <1>4
<1>5. QED
  <2>1. ASSUME NEW outcome \in Outcomes, FinishWork(outcome)
        PROVE  answers' = [answers EXCEPT ![current] = Append(@, Code(outcome))]
    BY <2>1 DEF FinishWork, Respond
  <2>6. ASSUME NEW outcome \in Outcomes, FinishWork(outcome)
        PROVE  current \in Calls /\ Code(outcome) \in Codes
    BY <2>6, ContextTypes, OutcomeAssumption
    DEF SInv, LInv, TInv, WorkerBusy, FinishWork, Code, ContextStates, Codes
  <2>2. ASSUME NEW s \in Shutdowns, DrainAnswer(s)
        PROVE  /\ held[s] \in Calls
               /\ answers' =
                    [answers EXCEPT ![held[s]] = Append(@, "dispatcher_closed")]
    BY <2>2 DEF DrainAnswer, SInv, LInv, TInv, TypeOK
  <2>3. CASE \/ \E outcome \in Outcomes : FinishWork(outcome)
             \/ \E s \in Shutdowns : DrainAnswer(s)
    BY <1>3, <2>1, <2>2, <2>3, <2>6 DEF Codes
  <2>4. CASE ~ \/ \E outcome \in Outcomes : FinishWork(outcome)
               \/ \E s \in Shutdowns : DrainAnswer(s)
    BY <1>4, <2>4 DEF Next, vars, line, RegisterCheck, RegisterStore,
       Unregister, Begin, EndContext, Prepare, Admit, Refuse, Await, TakeWork,
       Exit, EndHandlerContext, ShutdownSwap, CloseDone, Join, DrainReceive,
       ShutdownReturn
  <2>5. QED
    BY <2>3, <2>4

\* No step revives a context: what ends one, and the worker's own.
LEMMA ContextsEnd ==
  ASSUME SInv, [Next]_vars
  PROVE  /\ \A d \in Calls : CtxError(d) # "live" => ctx'[d] = ctx[d]
         /\ \A d \in Calls : ctx[d] # "live" => ctx'[d] # "live"
         /\ current' = current \/ current' = NoCall \/ TakeWork
         /\ current' # current \/ handlerCtx = "live" \/ handlerCtx' = handlerCtx
              \/ current = NoCall
<1>1. /\ ctx \in [Calls -> ContextStates] /\ "live" \notin ContextErrors
  BY OutcomeAssumption DEF SInv, LInv, TInv, TypeOK
<1>2. CASE \E d \in Calls : EndContext(d)
  <2>1. PICK d \in Calls : EndContext(d)
    BY <1>2
  <2>2. PICK e \in ContextErrors : ctx' = [ctx EXCEPT ![d] = e]
    BY <2>1 DEF EndContext
  <2>3. CtxError(d) = "live" /\ UNCHANGED <<current, handlerCtx>>
    BY <2>1 DEF EndContext, workerVars
  <2>4. QED
    BY <1>1, <2>2, <2>3
<1>3. CASE EndHandlerContext
  <2>1. handlerCtx = "live" /\ UNCHANGED <<ctx, current>>
    BY <1>3 DEF EndHandlerContext, HandlerError
  <2>2. QED
    BY <2>1
<1>4. CASE \E outcome \in Outcomes : FinishWork(outcome)
  <2>1. UNCHANGED ctx /\ current' = NoCall /\ current \in Calls
    BY <1>4 DEF FinishWork, SInv, LInv, TInv, WorkerBusy
  <2>2. QED
    BY <2>1, CallAssumption
<1>5. CASE TakeWork
  BY <1>5 DEF TakeWork
<1>6. CASE UNCHANGED <<ctx, current, handlerCtx>>
  BY <1>6
<1>7. QED
  BY <1>2, <1>3, <1>4, <1>5, <1>6
  DEF Next, vars, workerVars, RegisterCheck, RegisterStore, Unregister, Begin,
     Prepare, Admit, Refuse, Await, Exit, ShutdownSwap, CloseDone, Join,
     DrainReceive, DrainAnswer, ShutdownReturn

\* The context of a call that was made stays ended, and ends with its own error
\* only once.
LEMMA EndedStays ==
  ASSUME SInv, ParentsRan, [Next]_vars, NEW c \in Calls, pc[c] # "idle",
         CtxError(c) # "live"
  PROVE  CtxError(c)' # "live" /\ ctx'[c] = ctx[c]
<1>1. ctx'[c] = ctx[c]
  BY ContextsEnd
<1>2. CASE ctx[c] # "live"
  BY <1>1, <1>2 DEF CtxError, OwnError
<1>3. CASE ctx[c] = "live"
  <2>1. Parent[c] # NoCall /\ Parent[c] \in Calls /\ Parent[c] \in Range(ran)
    BY <1>3, CallAssumption DEF CtxError, OwnError, ParentsRan
  <2>2. CASE current' # Parent[c]
    BY <1>1, <1>3, <2>1, <2>2 DEF CtxError, OwnError
  <2>3. CASE current' = Parent[c]
    <3>1. current = Parent[c]
      <4>1. ~TakeWork
        <5> SUFFICES ASSUME TakeWork PROVE FALSE
          OBVIOUS
        <5>1. current' = Head(queue) /\ queue # <<>>
          BY DEF TakeWork
        <5>2. Head(queue) \notin Range(ran)
          BY <5>1, HandsApart DEF SInv
        <5>3. QED
          BY <2>1, <2>3, <5>1, <5>2
      <4>2. QED
        BY <2>1, <2>3, <4>1, ContextsEnd
    <3>2. CtxError(c) = HandlerError /\ CtxError(c)' = HandlerError'
      BY <1>1, <1>3, <2>1, <2>3, <3>1 DEF CtxError
    <3>3. CASE handlerCtx # "live"
      <4>1. handlerCtx' = handlerCtx
        BY <2>1, <2>3, <3>1, <3>3, ContextsEnd
      <4>2. QED
        BY <1>1, <3>2, <3>3, <4>1 DEF HandlerError
    <3>4. CASE handlerCtx = "live"
      <4>1. OwnError(current) # "live"
        BY <3>2, <3>4 DEF HandlerError
      <4>2. OwnError(current)' # "live"
        BY <2>1, <2>3, <3>1, <4>1, ContextsEnd DEF OwnError
      <4>3. QED
        BY <1>1, <3>2, <4>2 DEF HandlerError
    <3>5. QED
      BY <3>3, <3>4
  <2>4. QED
    BY <2>2, <2>3
<1>4. QED
  BY <1>2, <1>3

\* An Invoke that returns from its select says what it saw there.
LEMMA AwaitAnswers ==
  ASSUME SInv, NEW c \in Calls, Await(c)
  PROVE  \/ answers'[c] = <<call'[c].ret>>
         \/ GaveUp(c)'
         \/ done' /\ call'[c].ret = "dispatcher_closed"
<1>1. /\ call \in [Calls -> CallRecord] /\ answers \in [Calls -> Seq(Codes)]
      /\ TypeOK
  BY DEF SInv, LInv, TInv, TypeOK
<1>2. UNCHANGED <<answers, ctx, current, handlerCtx, done>>
  BY DEF Await, line, workerVars, shutdownVars
<1>3. ASSUME NEW v, Answer(c, v) PROVE call'[c].ret = v
  BY <1>1, <1>3 DEF Answer, CallRecord
<1>4. CASE answers[c] # <<>> /\ Answer(c, Head(answers[c]))
  <2>1. Len(answers[c]) \in {0, 1} /\ answers[c] \in Seq(Codes)
    BY <1>1 DEF SInv, SettledOnce
  <2>2. answers[c] = <<Head(answers[c])>>
    BY <1>4, <2>1
  <2>3. QED
    BY <1>2, <1>3, <1>4, <2>2
<1>5. CASE CtxError(c) # "live" /\ Answer(c, CtxError(c))
  <2>1. CtxError(c) \in ContextStates
    BY <1>1, ContextTypes
  <2>2. call'[c].ret = CtxError(c) /\ CtxError(c)' = CtxError(c)
    BY <1>2, <1>3, <1>5 DEF CtxError, HandlerError, OwnError
  <2>3. ctx[c] # "live" => CtxError(c) = ctx[c]
    BY DEF CtxError, OwnError
  <2>4. QED
    BY <1>2, <1>5, <2>1, <2>2, <2>3 DEF GaveUp, ContextStates
<1>6. CASE done /\ Answer(c, "dispatcher_closed")
  BY <1>2, <1>3, <1>6
<1>7. QED
  BY <1>4, <1>5, <1>6 DEF Await, ContextCase

LEMMA AnswersStep ==
  SInv /\ SInv' /\ WInv /\ [Next]_vars => InvokeAnswersTruly'
<1> SUFFICES ASSUME SInv, SInv', ParentsRan, InvokeAnswersTruly, [Next]_vars,
                    NEW c \in Calls, pc'[c] = "returned",
                    call'[c].kind = "Invoke", c \in Range(admitted')
             PROVE  \/ answers'[c] = <<call'[c].ret>>
                    \/ GaveUp(c)'
                    \/ done' /\ call'[c].ret = "dispatcher_closed"
  BY DEF WInv, InvokeAnswersTruly
<1>1. CASE pc'[c] = pc[c] /\ call'[c] = call[c]
  <2>1. c \in Range(admitted)
    BY <1>1, AdmittedBefore
  <2>2. \/ answers[c] = <<call[c].ret>>
        \/ GaveUp(c)
        \/ done /\ call[c].ret = "dispatcher_closed"
    BY <1>1, <2>1 DEF InvokeAnswersTruly
  <2>3. CASE answers[c] = <<call[c].ret>>
    <3>1. answers[c] # <<>>
      BY <2>3
    <3>2. answers'[c] = answers[c]
      BY <3>1, AnswerStays
    <3>3. QED
      BY <1>1, <2>3, <3>2
  <2>4. CASE GaveUp(c)
    BY <1>1, <2>4, EndedStays DEF GaveUp
  <2>5. CASE done /\ call[c].ret = "dispatcher_closed"
    BY <1>1, <2>5, HistoryGrows
  <2>6. QED
    BY <2>2, <2>3, <2>4, <2>5
<1>2. CASE pc[c] \in {"idle", "prepare", "select"} /\ admitted' = admitted
  BY <1>2, NotYetAdmitted
<1>3. CASE Await(c)
  BY <1>3, AwaitAnswers
<1>4. QED
  BY <1>1, <1>2, <1>3, CallMoves

\* An Invoke tells its caller the response to its own work, the error of its
\* own context or of the handler's that made it, or that the dispatcher closed,
\* and what it told stays true whatever happens later.
THEOREM InvokesAnswerTruly == Spec => []InvokeAnswersTruly
<1>1. SInv /\ SInv' /\ WInv /\ [Next]_vars => WInv'
  BY ParentsStep, AnswersStep DEF WInv
<1>2. WInv => InvokeAnswersTruly
  BY DEF WInv
<1>3. QED
  BY SettledInvariant, AnswerInit, <1>1, <1>2, PTL DEF Spec
-----------------------------------------------------------------------------
(***************************************************************************)
(* The dispatcher implements DispatchService, for any callers, requests,   *)
(* handlers, queue size and number of Shutdown calls: every step is one of *)
(* the abstract service under ServiceState, or changes nothing there.  The *)
(* argument rests on SInv, which keeps the queue, the hands of worker and  *)
(* drainers, and the answered work apart.                                  *)
(***************************************************************************)

(* Where a call is, read off its place in the ledger. *)

Held(c) == \E s \in Shutdowns : held[s] = c

\* A call is in the queue, in a hand, answered, or was never admitted.
LEMMA OnePlace ==
  ASSUME SInv, NEW c \in Calls
  PROVE  /\ Len(answers[c]) \in {0, 1}
         /\ c \in Range(queue) => /\ Len(answers[c]) = 0
                                  /\ current # c /\ ~Held(c)
                                  /\ c \in Range(admitted)
         /\ current = c => /\ Len(answers[c]) = 0 /\ ~Held(c)
                           /\ c \in Range(admitted)
         /\ Held(c) => Len(answers[c]) = 0 /\ c \in Range(admitted)
         /\ c \notin Range(admitted) => Len(answers[c]) = 0
<1>1. /\ queue \in Seq(Calls) /\ ran \in Seq(Calls) /\ rejected \in Seq(Calls)
      /\ ran \o rejected \in Seq(Calls)
      /\ Range(ran \o rejected) = Range(ran) \cup Range(rejected)
  BY ConcatProperties, RangeConcatenation DEF SInv, LInv, TInv, TypeOK
<1>2. /\ Range(admitted) = Range(ran) \cup Range(rejected) \cup Range(queue)
      /\ (Range(ran) \cup Range(rejected)) \cap Range(queue) = {}
  <2>1. (ran \o rejected) \o queue = admitted /\ Distinct(admitted)
    BY <1>1, ConcatAssociative DEF SInv, LInv, Ledger, AdmittedOnce
  <2>2. Range((ran \o rejected) \o queue) = Range(ran \o rejected) \cup Range(queue)
    <3>1. \A s, t \in Seq(Calls) : Range(s \o t) = Range(s) \cup Range(t)
      BY RangeConcatenation
    <3>2. QED
      BY <1>1, <3>1
  <2>3. Range(ran \o rejected) \cap Range(queue) = {}
    BY <1>1, <2>1, DistinctConcat
  <2>4. QED
    BY <1>1, <2>1, <2>2, <2>3
<1>3. Range(ran) \cap Range(rejected) = {}
  BY HandsApart DEF SInv
<1>4. current = c => c \in Range(ran)
  BY CallAssumption DEF SInv, OneHand
<1>5. Held(c) => c \in Range(rejected)
  BY CallAssumption DEF SInv, OneHand, Held
<1>6. Len(answers[c]) = IF Settled(c) THEN 1 ELSE 0
  BY DEF SInv, SettledOnce
<1>7. Settled(c) <=> /\ c \in Range(ran) \cup Range(rejected)
                     /\ current # c /\ ~Held(c)
  BY DEF Settled, InHand, Held
<1>8. QED
  BY <1>2, <1>3, <1>4, <1>5, <1>6, <1>7

\* So the cases of ServiceState exclude one another.
StatesApart ==
  \A c \in Calls :
    /\ Len(answers[c]) = 1 => ServiceState(c) = "answered"
    /\ current = c => ServiceState(c) = "running"
    /\ Held(c) => ServiceState(c) = "dropped"
    /\ c \in Range(queue) => ServiceState(c) = "waiting"
    /\ c \notin Range(admitted) =>
         ServiceState(c) = IF pc[c] = "returned" THEN "refused" ELSE "new"

LEMMA StateCases == SInv => StatesApart
<1> SUFFICES ASSUME SInv, NEW c \in Calls
    PROVE  /\ Len(answers[c]) = 1 => ServiceState(c) = "answered"
           /\ current = c => ServiceState(c) = "running"
           /\ Held(c) => ServiceState(c) = "dropped"
           /\ c \in Range(queue) => ServiceState(c) = "waiting"
           /\ c \notin Range(admitted) =>
                ServiceState(c) = IF pc[c] = "returned" THEN "refused" ELSE "new"
  BY DEF StatesApart
<1>1. Len(answers[c]) = 1 => ServiceState(c) = "answered"
  BY OnePlace DEF ServiceState
<1>2. current = c => ServiceState(c) = "running"
  <2>1. current = c => /\ Len(answers[c]) = 0 /\ ~Held(c)
                       /\ c \notin Range(queue) /\ c \in Range(admitted)
    BY OnePlace
  <2>2. QED
    BY <2>1 DEF ServiceState, Held
<1>3. Held(c) => ServiceState(c) = "dropped"
  <2>1. Held(c) => /\ Len(answers[c]) = 0 /\ current # c
                   /\ c \notin Range(queue) /\ c \in Range(admitted)
    BY OnePlace
  <2>2. QED
    BY <2>1 DEF ServiceState, Held
<1>4. c \in Range(queue) => ServiceState(c) = "waiting"
  BY OnePlace DEF ServiceState, Held
<1>5. c \notin Range(admitted) =>
        ServiceState(c) = IF pc[c] = "returned" THEN "refused" ELSE "new"
  BY OnePlace DEF ServiceState, Held
<1>6. QED
  BY <1>1, <1>2, <1>3, <1>4, <1>5

LEMMA StateCasesNext == SInv' => StatesApart'
  BY StateCases, PTL

\* A call whose place does not change keeps its state.
LEMMA SameState ==
  ASSUME NEW c \in Calls, answers'[c] = answers[c],
         current' = c <=> current = c, Held(c)' <=> Held(c),
         c \in Range(queue') <=> c \in Range(queue),
         c \in Range(admitted') <=> c \in Range(admitted),
         c \notin Range(admitted) =>
           (pc'[c] = "returned" <=> pc[c] = "returned")
  PROVE  ServiceState(c)' = ServiceState(c)
  BY DEF ServiceState, Held

\* One call moves and the others stay where they are.
LEMMA Moves ==
  ASSUME NEW c \in Calls, NEW from, NEW to,
         ServiceState(c) = from, ServiceState(c)' = to,
         \A d \in Calls \ {c} : ServiceState(d)' = ServiceState(d)
  PROVE  Service!Move(c, from, to)
  BY DEF Service!Move

-----------------------------------------------------------------------------
LEMMA ServiceInit == Init => Service!Init
<1> SUFFICES ASSUME Init PROVE Service!Init
  OBVIOUS
<1>1. SInv /\ Range(admitted) = {}
  BY SettledInit DEF Init, Range
<1>2. \A c \in Calls : ServiceState(c) = "new"
  BY <1>1, StateCases DEF Init, StatesApart
<1>3. QED
  BY <1>2 DEF Init, Service!Init

\* Steps of contexts, registrars and shutdowns are none of the service's.
LEMMA ServiceStutter ==
  ASSUME UNCHANGED <<pc, answers, current, held, queue, admitted, worker>>
  PROVE  UNCHANGED Service!vars
<1>1. \A c \in Calls : ServiceState(c)' = ServiceState(c)
  BY SameState DEF Held
<1>2. QED
  BY <1>1 DEF Service!vars

\* Inside enqueue, and in Invoke's select, a caller moves on or returns.  Only
\* one that was not admitted is thereby refused.
LEMMA ServiceCaller ==
  ASSUME SInv, SInv', NEW c \in Calls, pc[c] # "returned",
         UNCHANGED <<answers, current, held, queue, admitted, worker>>,
         NEW v, pc' = [pc EXCEPT ![c] = v]
  PROVE  Service!Refuse(c) \/ UNCHANGED Service!vars
<1>1. \A d \in Calls \ {c} : ServiceState(d)' = ServiceState(d)
  BY SameState DEF Held, SInv, LInv, TInv, TypeOK
<1>2. CASE c \notin Range(admitted) /\ v = "returned"
  <2>1. pc'[c] = "returned" /\ c \notin Range(admitted')
    BY <1>2 DEF SInv, LInv, TInv, TypeOK
  <2>2. ServiceState(c) = "new"
    BY <1>2, StateCases DEF StatesApart
  <2>3. ServiceState(c)' = "refused"
    BY <2>1, StateCasesNext DEF StatesApart
  <2>4. QED
    BY <1>1, <2>2, <2>3, Moves DEF Service!Refuse
<1>3. CASE c \in Range(admitted) \/ v # "returned"
  <2>1. ServiceState(c)' = ServiceState(c)
    BY <1>3, SameState DEF Held, SInv, LInv, TInv, TypeOK
  <2>2. QED
    BY <1>1, <2>1 DEF Service!vars
<1>4. QED
  BY <1>2, <1>3

LEMMA ServiceAdmit ==
  ASSUME SInv, SInv', NEW c \in Calls, Admit(c)
  PROVE  Service!Submit(c)
<1> USE DEF line, workerVars, shutdownVars
<1>1. /\ pc[c] = "select" /\ queue' = Append(queue, c)
      /\ admitted' = Append(admitted, c)
      /\ UNCHANGED <<answers, current, held, worker>>
      /\ \E v : pc' = [pc EXCEPT ![c] = v]
  BY DEF Admit, Accepted
<1>2. /\ Range(queue') = Range(queue) \cup {c}
      /\ Range(admitted') = Range(admitted) \cup {c}
  BY <1>1, RangeAppend DEF SInv, LInv, TInv, TypeOK
<1>3. ServiceState(c) = "new"
  BY <1>1, StateCases DEF SInv, AdmittedOnce, StatesApart
<1>4. ServiceState(c)' = "waiting"
  BY <1>2, StateCasesNext DEF StatesApart
<1>5. \A d \in Calls \ {c} : ServiceState(d)' = ServiceState(d)
  BY <1>1, <1>2, SameState DEF Held, SInv, LInv, TInv, TypeOK
<1>6. QED
  BY <1>1, <1>3, <1>4, <1>5, Moves DEF Service!Submit

\* Taking the head of the queue moves that call and nobody else.
LEMMA ServiceHead ==
  ASSUME SInv, queue # <<>>, queue' = Tail(queue),
         NEW h \in Calls, h = Head(queue), NEW to, ServiceState(h)' = to,
         UNCHANGED <<answers, admitted, pc>>,
         \A d \in Calls \ {h} : /\ current' = d <=> current = d
                                /\ Held(d)' <=> Held(d)
  PROVE  Service!Move(h, "waiting", to)
<1>1. Range(queue) = {h} \cup Range(Tail(queue))
  <2>1. /\ Len(queue) \in Nat \ {0}
        /\ DOMAIN queue = 1..Len(queue) /\ queue[1] = h
        /\ DOMAIN Tail(queue) = 1..Len(queue) - 1
        /\ \A i \in 1..Len(queue) - 1 : Tail(queue)[i] = queue[i + 1]
    BY DEF SInv, LInv, TInv, TypeOK
  <2>2. ASSUME NEW i \in 1..Len(queue)
        PROVE  queue[i] \in {h} \cup Range(Tail(queue))
    <3>1. i = 1 \/ (i - 1 \in 1..Len(queue) - 1 /\ Tail(queue)[i - 1] = queue[i])
      BY <2>1
    <3>2. QED
      BY <2>1, <3>1 DEF Range
  <2>3. Range(queue) \subseteq {h} \cup Range(Tail(queue))
    BY <2>1, <2>2 DEF Range
  <2>4. {h} \cup Range(Tail(queue)) \subseteq Range(queue)
    BY <2>1 DEF Range
  <2>5. QED
    BY <2>1, <2>3, <2>4
<1>2. ServiceState(h) = "waiting"
  BY <1>1, StateCases DEF StatesApart
<1>3. \A d \in Calls \ {h} : ServiceState(d)' = ServiceState(d)
  BY <1>1, SameState
<1>4. QED
  BY <1>1, <1>2, <1>3, Moves

LEMMA ServiceTakeWork ==
  ASSUME SInv, SInv', TakeWork
  PROVE  Service!Run
<1> USE DEF callVars, line, shutdownVars
<1>1. /\ worker = "select" /\ queue # <<>> /\ queue' = Tail(queue)
      /\ worker' = "handle" /\ current' = Head(queue) /\ current = NoCall
      /\ UNCHANGED <<answers, admitted, pc, held>>
  BY DEF TakeWork, SInv, LInv, DrainAfterExit
<1>2. PICK h \in Calls : h = Head(queue)
  BY <1>1, QueueTypes DEF SInv, LInv, TInv
<1>3. ServiceState(h)' = "running"
  BY <1>1, <1>2, StateCasesNext DEF StatesApart
<1>4. Service!Move(h, "waiting", "running")
  BY <1>1, <1>2, <1>3, ServiceHead, CallAssumption DEF Held
<1>5. \A c \in Calls : ServiceState(c) # "running"
  BY <1>1, CallAssumption DEF ServiceState
<1>6. QED
  BY <1>1, <1>2, <1>4, <1>5 DEF Service!Run

LEMMA ServiceExit ==
  ASSUME SInv, Exit
  PROVE  Service!Stop
<1> USE DEF callVars, line, shutdownVars
<1>1. /\ worker = "select" /\ worker' = "exited" /\ current = NoCall
      /\ UNCHANGED <<answers, admitted, pc, held, queue, current>>
  BY DEF Exit, SInv, LInv, DrainAfterExit
<1>2. \A c \in Calls : ServiceState(c) # "running"
  BY <1>1, CallAssumption DEF ServiceState
<1>3. \A c \in Calls : ServiceState(c)' = ServiceState(c)
  BY <1>1, SameState DEF Held
<1>4. QED
  BY <1>1, <1>2, <1>3 DEF Service!Stop

LEMMA ServiceDrainReceive ==
  ASSUME SInv, SInv', NEW s \in Shutdowns, DrainReceive(s)
  PROVE  Service!Drop \/ UNCHANGED Service!vars
<1> USE DEF callVars, line, workerVars
<1>1. /\ UNCHANGED <<answers, admitted, pc, current, worker>>
      /\ worker = "exited" /\ held[s] = NoCall
  BY DEF DrainReceive, SInv, LInv, DrainAfterExit
<1>2. CASE queue = <<>>
  BY <1>1, <1>2, ServiceStutter DEF DrainReceive
<1>3. CASE queue # <<>>
  <2>1. PICK h \in Calls : h = Head(queue)
    BY <1>3, QueueTypes DEF SInv, LInv, TInv
  <2>2. /\ held' = [held EXCEPT ![s] = h] /\ queue' = Tail(queue)
        /\ held \in [Shutdowns -> Calls \cup {NoCall}]
    BY <1>3, <2>1 DEF DrainReceive, Hold, SInv, LInv, TInv, TypeOK
  <2>3. Held(h)'
    BY <2>2 DEF Held
  <2>4. ServiceState(h)' = "dropped"
    BY <2>3, StateCasesNext DEF StatesApart
  <2>5. \A d \in Calls \ {h} : Held(d)' <=> Held(d)
    BY <1>1, <2>2, CallAssumption DEF Held
  <2>6. Service!Move(h, "waiting", "dropped")
    BY <1>1, <1>3, <2>1, <2>2, <2>4, <2>5, ServiceHead
  <2>7. QED
    BY <1>1, <1>3, <2>1, <2>2, <2>6 DEF Service!Drop
<1>4. QED
  BY <1>2, <1>3

\* Whoever has the work in hand answers it, and puts it down.
LEMMA ServiceAnswer ==
  ASSUME SInv, SInv', NEW c \in Calls, current = c \/ Held(c),
         NEW v \in Codes, answers' = [answers EXCEPT ![c] = Append(@, v)],
         UNCHANGED <<admitted, pc, queue>>, worker # "exited" <=> worker' # "exited",
         \A d \in Calls \ {c} : /\ current' = d <=> current = d
                                /\ Held(d)' <=> Held(d)
  PROVE  Service!Answer(c)
<1>1. answers \in [Calls -> Seq(Codes)]
  BY DEF SInv, LInv, TInv, TypeOK
<1>2. Len(answers[c]) = 0
  BY OnePlace
<1>3. answers'[c] = Append(answers[c], v) /\ Len(answers'[c]) = 1
  BY <1>1, <1>2
<1>4. ServiceState(c) \in {"running", "dropped"}
  BY StateCases DEF StatesApart
<1>5. ServiceState(c)' = "answered"
  BY <1>3, StateCasesNext DEF StatesApart
<1>6. \A d \in Calls \ {c} : ServiceState(d)' = ServiceState(d)
  BY <1>1, SameState
<1>7. Service!Move(c, ServiceState(c), "answered")
  BY <1>5, <1>6, Moves
<1>8. QED
  BY <1>4, <1>7 DEF Service!Answer

LEMMA ServiceFinishWork ==
  ASSUME SInv, SInv', NEW outcome \in Outcomes, FinishWork(outcome)
  PROVE  \E c \in Calls : Service!Answer(c)
<1> USE DEF callVars, line, shutdownVars
<1>1. PICK c \in Calls : c = current
  BY DEF FinishWork, SInv, LInv, TInv, WorkerBusy
<1>2. /\ current' = NoCall /\ worker = "handle" /\ worker' = "select"
      /\ answers' = [answers EXCEPT ![c] = Append(@, Code(outcome))]
      /\ UNCHANGED <<admitted, held, pc, queue>>
  BY <1>1 DEF FinishWork, Respond
<1>3. Code(outcome) \in Codes
  BY <1>1, OutcomeAssumption, ContextTypes, ErrorCodes
  DEF FinishWork, Code, Codes, SInv, LInv, TInv
<1>4. \A d \in Calls \ {c} : /\ current' = d <=> current = d
                             /\ Held(d)' <=> Held(d)
  BY <1>1, <1>2, CallAssumption DEF Held
<1>5. Service!Answer(c)
  BY <1>1, <1>2, <1>3, <1>4, ServiceAnswer
<1>6. QED
  BY <1>5

LEMMA ServiceDrainAnswer ==
  ASSUME SInv, SInv', NEW s \in Shutdowns, DrainAnswer(s)
  PROVE  \E c \in Calls : Service!Answer(c)
<1> DEFINE h == held[s]
<1> USE DEF callVars, line, workerVars
<1>1. /\ h # NoCall /\ held' = [held EXCEPT ![s] = NoCall]
      /\ answers' = [answers EXCEPT ![h] = Append(@, "dispatcher_closed")]
      /\ UNCHANGED <<admitted, current, pc, queue, worker>>
  BY DEF DrainAnswer
<1>2. h \in Calls /\ held \in [Shutdowns -> Calls \cup {NoCall}]
  BY <1>1 DEF SInv, LInv, TInv, TypeOK
<1>3. Held(h) /\ \A d \in Calls \ {h} : Held(d)' <=> Held(d)
  BY <1>1, <1>2, CallAssumption DEF Held
<1>4. QED
  BY <1>1, <1>2, <1>3, ServiceAnswer DEF Codes

-----------------------------------------------------------------------------
LEMMA ServiceStep ==
  ASSUME SInv, SInv', [Next]_vars
  PROVE  [Service!Next]_Service!vars
<1> USE DEF registry, callVars, line, workerVars, shutdownVars
<1>1. CASE \/ UNCHANGED vars
           \/ \E r \in Registrars, k \in Keys, h \in Handlers : RegisterCheck(r, k, h)
           \/ \E r \in Registrars : RegisterStore(r)
           \/ \E k \in Keys : Unregister(k)
           \/ \E c \in Calls : EndContext(c)
           \/ EndHandlerContext
           \/ \E s \in Shutdowns : \/ ShutdownSwap(s) \/ CloseDone(s) \/ Join(s)
                                   \/ ShutdownReturn(s)
  <2>1. UNCHANGED <<pc, answers, current, held, queue, admitted, worker>>
    BY <1>1 DEF vars, RegisterCheck, RegisterStore, Unregister, EndContext,
       EndHandlerContext, ShutdownSwap, CloseDone, Join, ShutdownReturn
  <2>2. QED
    BY <2>1, ServiceStutter
<1>2. CASE \E c \in Calls : \/ \E kind \in Kinds, req \in Requests : Begin(c, kind, req)
                            \/ Prepare(c) \/ Refuse(c) \/ Await(c)
  <2>1. /\ UNCHANGED <<answers, current, held, queue, admitted, worker>>
        /\ \E c \in Calls, v \in {"prepare", "select", "returned"} :
             pc[c] # "returned" /\ pc' = [pc EXCEPT ![c] = v]
    BY <1>2 DEF Begin, Prepare, Refuse, Await, ContextCase, Return, Answer
  <2>2. PICK c \in Calls, v \in {"prepare", "select", "returned"} :
          pc[c] # "returned" /\ pc' = [pc EXCEPT ![c] = v]
    BY <2>1
  <2>3. QED
    BY <2>1, <2>2, ServiceCaller DEF Service!Next
<1>3. CASE \E c \in Calls : Admit(c)
  BY <1>3, ServiceAdmit DEF Service!Next
<1>4. CASE TakeWork
  BY <1>4, ServiceTakeWork DEF Service!Next
<1>5. CASE Exit
  BY <1>5, ServiceExit DEF Service!Next
<1>6. CASE \E outcome \in Outcomes : FinishWork(outcome)
  BY <1>6, ServiceFinishWork DEF Service!Next
<1>7. CASE \E s \in Shutdowns : DrainReceive(s)
  BY <1>7, ServiceDrainReceive DEF Service!Next
<1>8. CASE \E s \in Shutdowns : DrainAnswer(s)
  BY <1>8, ServiceDrainAnswer DEF Service!Next
<1>9. QED
  BY <1>1, <1>2, <1>3, <1>4, <1>5, <1>6, <1>7, <1>8 DEF Next

\* Whatever interleaving of callers, worker, contexts and shutdowns: each call
\* is refused, or joins one line and is answered once, by the worker before it
\* stops or as dropped after, in the order of the line.
THEOREM DispatcherRefines == Spec => ImplementsService
<1>1. SInv /\ SInv' /\ [Next]_vars => [Service!Next]_Service!vars
  BY ServiceStep
<1>2. QED
  BY SettledInvariant, ServiceInit, <1>1, PTL
  DEF Spec, ImplementsService, Service!Spec
===============================================================================
