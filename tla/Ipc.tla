----------------------------------- MODULE Ipc -----------------------------------
(***************************************************************************)
(* internal/ipc/router.go: the Router of request channels and the pair of  *)
(* MessagePorts NewMessageChannel makes, used by goroutines that interleave*)
(* between critical sections of a port's mutex or the router's.            *)
(*                                                                         *)
(* Handlers run on the goroutine that delivers, with no lock held, and may *)
(* use ports and router again: a goroutine is a stack of frames, and may   *)
(* begin an operation when it has none or is inside a handler.             *)
(*                                                                         *)
(* What messages carry, transferred ports included, changes no port.       *)
(***************************************************************************)
EXTENDS Naturals, Sequences, Functions

CONSTANTS
  Goroutines,
  Messages,      \* each is posted at most once
  Listeners,     \* what OnMessage is given; on one port at a time
  Registrations, \* what Handle and HandleOnce are given, until it is called
  Channels,      \* of the router
  MaxDepth,      \* bound on the depth of a stack
  NoRegistration

ASSUME DepthAssumption == MaxDepth \in Nat
ASSUME RegistrationAssumption == NoRegistration \notin Registrations

VARIABLES
  ports,      \* the two MessagePorts
  stack,      \* what each goroutine is doing, innermost last
  handlers,   \* Router.handlers
  once,       \* the registrations made by HandleOnce
  sent,       \* history: the posting of each message
  fate,       \* history: what deliver did with it
  handled,    \* history: how often each listener was called with it
  invoked     \* history: how often each registration's handler was called

portVars == <<ports, sent, fate, handled>>
routerVars == <<handlers, once, invoked>>
vars == <<portVars, routerVars, stack>>

Ends == {1, 2}

\* NewMessageChannel makes each port the other's peer.
Peer(e) == 3 - e

NewPort == [started |-> FALSE, closed |-> FALSE, queue |-> <<>>,
            listeners |-> <<>>]

Unsent == [state |-> "new", to |-> 1, late |-> FALSE, saw |-> {},
           before |-> {}]

Init ==
  /\ ports = [e \in Ends |-> NewPort]
  /\ stack = [g \in Goroutines |-> <<>>]
  /\ handlers = [c \in Channels |-> NoRegistration]
  /\ once = {}
  /\ sent = [m \in Messages |-> Unsent]
  /\ fate = [m \in Messages |-> "none"]
  /\ handled = [call \in Messages \X Listeners |-> 0]
  /\ invoked = [r \in Registrations |-> 0]

-----------------------------------------------------------------------------
(* Frames. *)

\* PostMessage between its two critical sections.
PostFrame(m) == [op |-> "post", msg |-> m]

\* deliver or Start with listeners still to call; inside: in the first of them.
CallFrame(op, calls) == [op |-> op, calls |-> calls, inside |-> FALSE]

\* Invoke inside a handler.
InvokeFrame == [op |-> "invoke", inside |-> TRUE]

Top(g) == stack[g][Len(stack[g])]

Doing(g, op) == stack[g] # <<>> /\ Top(g).op = op

Calling(g) == Doing(g, "deliver") \/ Doing(g, "start")

MayBegin(g) ==
  \/ stack[g] = <<>>
  \/ /\ Len(stack[g]) < MaxDepth
     /\ Calling(g) \/ Doing(g, "invoke")
     /\ Top(g).inside

Push(s, frame) == Append(s, frame)
Pop(s) == SubSeq(s, 1, Len(s) - 1)

\* The calls left of a frame: for each message, every listener.
Calls(messages, listeners) ==
  LET n == Len(listeners)
  IN  [i \in 1 .. Len(messages) * n |->
        <<messages[((i - 1) \div n) + 1], listeners[((i - 1) % n) + 1]>>]

\* s with a frame for the calls, if there are any.
PushCalls(s, op, calls) ==
  IF calls = <<>> THEN s ELSE Push(s, CallFrame(op, calls))

\* A goroutine returns from the frame it finishes: a post returns with its
\* delivery.
Finish(m) == sent' = [sent EXCEPT ![m].state = "returned"]

-----------------------------------------------------------------------------
(* MessagePort. *)

\* The messages whose posting to e has returned: they come before a new one.
Earlier(e) == {m \in Messages : sent[m].state = "returned" /\ sent[m].to = e}

\* PostMessage looks at its own port, and gives up if that is closed.
PostMessage(g, e, m) ==
  /\ MayBegin(g) /\ sent[m].state = "new"
  /\ LET peer == Peer(e)
     IN  sent' = [sent EXCEPT ![m] =
           [state |-> IF ports[e].closed THEN "refused" ELSE "posting",
            to |-> peer,
            late |-> ports[e].closed \/ ports[peer].closed,
            saw |-> Range(ports[peer].listeners),
            before |-> Earlier(peer)]]
  /\ stack' = IF ports[e].closed THEN stack
              ELSE [stack EXCEPT ![g] = Push(@, PostFrame(m))]
  /\ UNCHANGED <<ports, fate, handled, routerVars>>

FaultyDropped(p) == FALSE

Dropped(p) == p.closed

FaultyEnqueue(q, m) == <<m>> \o q

Enqueue(q, m) == Append(q, m)

\* deliver calls the listeners of a started port, and queues for another.
CallsNow(p) == p.started

FaultyQueues(p) == FALSE

Queues(p) == ~p.started

Deliver(g) ==
  /\ Doing(g, "post")
  /\ LET m == Top(g).msg
         e == sent[m].to
         p == ports[e]
         calls == IF Dropped(p) \/ ~CallsNow(p) THEN <<>>
                  ELSE Calls(<<m>>, p.listeners)
     IN  /\ ports' = IF Dropped(p) \/ ~Queues(p) THEN ports
                     ELSE [ports EXCEPT ![e].queue = Enqueue(@, m)]
         /\ fate' = [fate EXCEPT ![m] = IF Dropped(p) THEN "dropped"
                       ELSE IF Queues(p) THEN "queued" ELSE "direct"]
         /\ IF calls = <<>>
              THEN stack' = [stack EXCEPT ![g] = Pop(@)] /\ Finish(m)
              ELSE /\ stack' = [stack EXCEPT
                         ![g] = Push(Pop(@), CallFrame("deliver", calls))]
                   /\ UNCHANGED sent
  /\ UNCHANGED <<handled, routerVars>>

\* Start takes the queue and the listeners there are, and delivers unlocked.
Start(g, e) ==
  /\ MayBegin(g)
  /\ ~ports[e].closed /\ ~ports[e].started
  /\ ports' = [ports EXCEPT ![e].started = TRUE, ![e].queue = <<>>]
  /\ stack' = [stack EXCEPT ![g] = PushCalls(@, "start",
                 Calls(ports[e].queue, ports[e].listeners))]
  /\ UNCHANGED <<sent, fate, handled, routerVars>>

OnMessage(g, e, l) ==
  /\ MayBegin(g)
  /\ \A f \in Ends : l \notin Range(ports[f].listeners)
  /\ ports' = [ports EXCEPT ![e].listeners = Append(@, l)]
  /\ UNCHANGED <<stack, sent, fate, handled, routerVars>>

Close(g, e) ==
  /\ MayBegin(g)
  /\ ports' = [ports EXCEPT ![e].closed = TRUE, ![e].queue = <<>>,
                            ![e].listeners = <<>>]
  /\ UNCHANGED <<stack, sent, fate, handled, routerVars>>

CallListener(g) ==
  /\ Calling(g) /\ ~Top(g).inside
  /\ handled' = [handled EXCEPT ![Head(Top(g).calls)] = @ + 1]
  /\ stack' = [stack EXCEPT ![g][Len(stack[g])].inside = TRUE]
  /\ UNCHANGED <<ports, sent, fate, routerVars>>

ListenerReturns(g) ==
  /\ Calling(g) /\ Top(g).inside
  /\ LET calls == Top(g).calls
         rest  == CallFrame(Top(g).op, Tail(calls))
     IN  IF Len(calls) > 1
           THEN /\ stack' = [stack EXCEPT ![g] = Push(Pop(@), rest)]
                /\ UNCHANGED sent
           ELSE /\ stack' = [stack EXCEPT ![g] = Pop(@)]
                /\ IF Top(g).op = "deliver" THEN Finish(calls[1][1])
                                            ELSE UNCHANGED sent
  /\ UNCHANGED <<ports, fate, handled, routerVars>>

-----------------------------------------------------------------------------
(* Router. *)

\* Handle and HandleOnce; a channel that has a handler keeps it.
Handle(g, c, r, isOnce) ==
  /\ MayBegin(g)
  /\ handlers[c] = NoRegistration
  /\ invoked[r] = 0 /\ r \notin once \cup Range(handlers)
  /\ handlers' = [handlers EXCEPT ![c] = r]
  /\ once' = IF isOnce THEN once \cup {r} ELSE once
  /\ UNCHANGED <<portVars, stack, invoked>>

RemoveHandler(g, c) ==
  /\ MayBegin(g)
  /\ handlers[c] # NoRegistration
  /\ handlers' = [handlers EXCEPT ![c] = NoRegistration]
  /\ UNCHANGED <<portVars, stack, once, invoked>>

FaultyAfterTake(c) == handlers

\* takeHandler deletes a once-handler in the critical section it finds it in.
AfterTake(c) ==
  IF handlers[c] \in once THEN [handlers EXCEPT ![c] = NoRegistration]
                          ELSE handlers

Invoke(g, c) ==
  /\ MayBegin(g)
  /\ handlers[c] # NoRegistration
  /\ invoked' = [invoked EXCEPT ![handlers[c]] = IF @ < 2 THEN @ + 1 ELSE @]
  /\ handlers' = AfterTake(c)
  /\ stack' = [stack EXCEPT ![g] = Push(@, InvokeFrame)]
  /\ UNCHANGED <<portVars, once>>

InvokeReturns(g) ==
  /\ Doing(g, "invoke")
  /\ stack' = [stack EXCEPT ![g] = Pop(@)]
  /\ UNCHANGED <<portVars, routerVars>>

-----------------------------------------------------------------------------
Next ==
  \E g \in Goroutines :
    \/ \E e \in Ends, m \in Messages : PostMessage(g, e, m)
    \/ Deliver(g)
    \/ \E e \in Ends : Start(g, e)
    \/ \E e \in Ends, l \in Listeners : OnMessage(g, e, l)
    \/ \E e \in Ends : Close(g, e)
    \/ CallListener(g)
    \/ ListenerReturns(g)
    \/ \E c \in Channels, r \in Registrations, o \in BOOLEAN : Handle(g, c, r, o)
    \/ \E c \in Channels : RemoveHandler(g, c)
    \/ \E c \in Channels : Invoke(g, c)
    \/ InvokeReturns(g)

Spec == Init /\ [][Next]_vars

-----------------------------------------------------------------------------
(* Properties. *)

\* The call of listener l with message m is on some goroutine's stack.
Pending(op, m, l) ==
  \E g \in Goroutines : \E i \in DOMAIN stack[g] :
    stack[g][i].op = op /\ <<m, l>> \in Range(stack[g][i].calls)

\* No message is lost or handled twice: one whose PostMessage has returned
\* without an error has been given to every listener its port had, or waits on
\* the queue of a port not started, or is about to be given, or the port was
\* closed meanwhile; and no listener is called twice with one message, by
\* deliver, by Start or by both, on whatever goroutines they run.
EachHandledOnce ==
  /\ \A m \in Messages, l \in Listeners : handled[m, l] <= 1
  /\ \A m \in Messages : sent[m].state = "returned" =>
       LET p == ports[sent[m].to] IN
       \/ p.closed
       \/ ~p.started /\ m \in Range(p.queue)
       \/ \A l \in sent[m].saw : handled[m, l] > 0 \/ Pending("start", m, l)

\* Close is final: what is posted to or from a port closed before is handled by
\* nobody, although a port may be given listeners after its Close.
ClosedStaysQuiet ==
  \A m \in Messages, l \in Listeners : sent[m].late => handled[m, l] = 0

\* A listener is called with messages in the order they were posted, when the
\* posting of one returned before the other began.  One exception: a message
\* delivered directly overtakes what a Start in progress has yet to deliver.
InOrder ==
  \A m, n \in Messages, l \in Listeners :
    (m \in sent[n].before /\ l \in sent[m].saw /\ handled[n, l] > 0)
      => handled[m, l] > 0 \/ (fate[n] = "direct" /\ Pending("start", m, l))

\* A HandleOnce handler is called at most once, however many goroutines invoke
\* its channel at the same time, and whatever it invokes itself.
OnceRunsOnce == \A r \in once : invoked[r] <= 1
===============================================================================
