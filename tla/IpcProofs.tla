------------------------------- MODULE IpcProofs -------------------------------
(***************************************************************************)
(* Theorems about the message ports and the router, for any number of      *)
(* goroutines, messages, listeners and channels and stacks of any depth.   *)
(***************************************************************************)
EXTENDS Ipc, SequenceTheorems, TLAPS

-----------------------------------------------------------------------------
(* Types. *)

Pairs == Messages \X Listeners

PostFrames == [op : {"post"}, msg : Messages]

CallFrames ==
  [op : {"deliver", "start"}, calls : Seq(Pairs), inside : BOOLEAN]

Frames == PostFrames \cup CallFrames \cup {InvokeFrame}

Port ==
  [started : BOOLEAN, closed : BOOLEAN, queue : Seq(Messages),
   listeners : Seq(Listeners)]

Posting ==
  [state : {"new", "refused", "posting", "returned"}, to : Ends,
   late : BOOLEAN, saw : SUBSET Listeners, before : SUBSET Messages]

PortsTypeOK ==
  /\ ports \in [Ends -> Port]
  /\ sent \in [Messages -> Posting]
  /\ fate \in [Messages -> {"none", "dropped", "queued", "direct"}]
  /\ handled \in [Pairs -> Nat]
  /\ stack \in [Goroutines -> Seq(Frames)]

RouterTypeOK ==
  /\ handlers \in [Channels -> Registrations \cup {NoRegistration}]
  /\ once \in SUBSET Registrations
  /\ invoked \in [Registrations -> Nat]

-----------------------------------------------------------------------------
(* The inductive invariant. *)

\* A registration serves one channel at most, and one made by HandleOnce that
\* was called serves none.
TakenOnce ==
  /\ \A c, d \in Channels :
       handlers[c] = handlers[d] /\ handlers[c] # NoRegistration => c = d
  /\ \A r \in once :
       /\ invoked[r] <= 1
       /\ invoked[r] > 0 => \A c \in Channels : handlers[c] # r

\* The messages a frame is working on.
Carried(f) ==
  IF f.op = "post" THEN {f.msg}
  ELSE IF f.op = "invoke" THEN {}
  ELSE {f.calls[q][1] : q \in DOMAIN f.calls}

\* What a frame knows of the messages it carries, from their postings s, their
\* fates t and the calls h so far.
PostOK(f, s, t) == s[f.msg].state = "posting" /\ t[f.msg] = "none"

CallOK(f, h) ==
  /\ f.calls # <<>>
  /\ \A p, q \in DOMAIN f.calls : f.calls[p] = f.calls[q] => p = q
  /\ f.inside => h[f.calls[1]] > 0
  /\ \A q \in DOMAIN f.calls : q > 1 \/ ~f.inside => h[f.calls[q]] = 0

\* deliver gives one message to every listener the posting saw.
DeliverOK(f, s, t, h) ==
  LET m == f.calls[1][1]
  IN  /\ \A q \in DOMAIN f.calls : f.calls[q][1] = m
      /\ s[m].state = "posting" /\ t[m] = "direct"
      /\ \A l \in s[m].saw :
           h[<<m, l>>] > 0 \/ \E q \in DOMAIN f.calls : f.calls[q] = <<m, l>>

\* Start gives each listener the earlier messages first.
StartOK(f, s, t, h) ==
  \A q \in DOMAIN f.calls :
    LET n == f.calls[q][1]
        l == f.calls[q][2]
    IN  /\ s[n].state = "returned" /\ t[n] = "queued"
        /\ \A m \in s[n].before :
             h[<<m, l>>] > 0 \/ \E p \in 1 .. (q - 1) : f.calls[p] = <<m, l>>

FrameOK(f, s, t, h) ==
  /\ f.op = "post" => PostOK(f, s, t)
  /\ f.op \in {"deliver", "start"} => CallOK(f, h)
  /\ f.op = "deliver" => DeliverOK(f, s, t, h)
  /\ f.op = "start" => StartOK(f, s, t, h)

FramesOK ==
  \A g \in Goroutines : \A i \in DOMAIN stack[g] :
    FrameOK(stack[g][i], sent, fate, handled)

\* One frame at most works on a message.
OnePlace ==
  \A g, h \in Goroutines :
    \A i \in DOMAIN stack[g], j \in DOMAIN stack[h] :
      Carried(stack[g][i]) \cap Carried(stack[h][j]) # {} => g = h /\ i = j

\* A started or closed port has no queue; listeners are registered once.
PortsOK ==
  \A e \in Ends :
    /\ ports[e].queue # <<>> => ~ports[e].started /\ ~ports[e].closed
    /\ \A i, j \in DOMAIN ports[e].listeners :
         ports[e].listeners[i] = ports[e].listeners[j] => i = j

\* Message m waits on the queue of e: nobody works on it or ever did.
WaitingOK(m, e, s, t, st, h) ==
  /\ s[m].to = e /\ s[m].state = "returned" /\ t[m] = "queued"
  /\ \A l \in Listeners : h[<<m, l>>] = 0
  /\ \A g \in Goroutines : \A i \in DOMAIN st[g] : m \notin Carried(st[g][i])

\* A queue holds each message once and earlier ones first.
QueuesOK ==
  \A e \in Ends : LET q == ports[e].queue IN
    \A j \in DOMAIN q :
      /\ WaitingOK(q[j], e, sent, fate, stack, handled)
      /\ \A i \in DOMAIN q : q[i] = q[j] => i = j
      /\ \A m \in sent[q[j]].before : \E i \in 1 .. (j - 1) : q[i] = m

\* What became of message m, posted as s[m], by its fate t[m], and its port.
MessageOK(m, p, s, t, h) ==
  LET to == p[s[m].to]
      posted == s[m].state \in {"posting", "returned"}
  IN  /\ s[m].state \in {"new", "refused"} => t[m] = "none"
      /\ t[m] \in {"none", "dropped"} => \A l \in Listeners : h[<<m, l>>] = 0
      /\ s[m].state = "returned" => t[m] # "none"
      /\ t[m] = "direct" => to.started
      /\ t[m] = "dropped" => to.closed
      /\ s[m].late => t[m] \in {"none", "dropped"}
      /\ s[m].late /\ posted => to.closed
      /\ posted /\ ~to.closed => s[m].saw \subseteq Range(to.listeners)
      /\ \A l \in Listeners : h[<<m, l>>] <= 1
      /\ \A n \in s[m].before :
           /\ s[n].state = "returned" /\ s[n].to = s[m].to
           /\ t[n] = "dropped" => s[m].late

MessagesOK == \A m \in Messages : MessageOK(m, ports, sent, fate, handled)

\* Frame f is a Start that is about to call listener l with m.
Taken(f, m, l) ==
  f.op = "start" /\ \E q \in DOMAIN f.calls : f.calls[q] = <<m, l>>

\* Listener l has been called with m, or a Start on stacks st is about to.
Reached(m, l, st, h) ==
  \/ h[<<m, l>>] > 0
  \/ \E g \in Goroutines : \E i \in DOMAIN st[g] : Taken(st[g][i], m, l)

\* A queued message is on the queue until Start takes it or Close drops it.
Queued(m, p, s, t, st, h) == t[m] = "queued" =>
  LET to == p[s[m].to]
  IN  \/ to.closed
      \/ \E i \in DOMAIN to.queue : to.queue[i] = m
      \/ to.started /\ \A l \in s[m].saw : Reached(m, l, st, h)

\* A message delivered directly was given to all before its posting returned,
\* and what was posted before it has been taken from the queue.
Direct(n, s, t, st, h) == t[n] = "direct" =>
  /\ s[n].state = "returned" => \A l \in s[n].saw : h[<<n, l>>] > 0
  /\ \A m \in s[n].before : \A l \in s[m].saw : Reached(m, l, st, h)

\* No listener is called with a queued message before the earlier ones.
Ordered(n, s, t, h) == t[n] = "queued" =>
  \A m \in s[n].before : \A l \in Listeners : h[<<n, l>>] > 0 => h[<<m, l>>] > 0

DeliveryOK(m, p, s, t, st, h) ==
  /\ Queued(m, p, s, t, st, h)
  /\ Direct(m, s, t, st, h)
  /\ Ordered(m, s, t, h)

DeliveriesOK ==
  \A m \in Messages : DeliveryOK(m, ports, sent, fate, stack, handled)

PInv ==
  /\ PortsTypeOK /\ FramesOK /\ OnePlace /\ PortsOK /\ QueuesOK /\ MessagesOK
  /\ DeliveriesOK

RInv == RouterTypeOK /\ TakenOnce

IInv == PInv /\ RInv

-----------------------------------------------------------------------------
(* Stacks. *)

INSTANCE StackLemmas

LEMMA Entered ==
  ASSUME NEW st \in Stacks, NEW g \in Goroutines, st[g] # <<>>,
         st[g][Len(st[g])] \in CallFrames,
         NEW tt,
         LET k == Len(st[g])
         IN  Becomes(st, tt, g, [st[g] EXCEPT ![k] = [@ EXCEPT !.inside = TRUE]])
  PROVE  LET k == Len(st[g])
             f == [st[g][k] EXCEPT !.inside = TRUE]
         IN  /\ tt \in Stacks /\ SameBut(st, tt, g, k) /\ k \in Nat
             /\ k \in DOMAIN st[g] /\ k \in DOMAIN tt[g]
             /\ f \in CallFrames /\ tt[g][k] = f
<1> DEFINE f == [st[g][Len(st[g])] EXCEPT !.inside = TRUE]
<1>1. f \in CallFrames /\ f \in Frames
  BY DEF CallFrames, Frames
<1>2. Becomes(st, tt, g, WithTop(st[g], f))
  BY DEF WithTop
<1> HIDE DEF f
<1>3. LET k == Len(st[g])
      IN  /\ tt \in Stacks /\ SameBut(st, tt, g, k) /\ k \in Nat
          /\ k \in DOMAIN st[g] /\ k \in DOMAIN tt[g] /\ tt[g][k] = f
  BY <1>1, <1>2, Assigned
<1> QED
  BY <1>1, <1>3 DEF f

-----------------------------------------------------------------------------
(* The calls of a frame: message a to listener b is call (a - 1) * n + b. *)

LEMMA Bound ==
  ASSUME NEW n \in Nat \ {0}, NEW d \in Int, d >= 1
  PROVE  d * n >= n
OBVIOUS

LEMMA Division ==
  ASSUME NEW n \in Nat \ {0}, NEW x \in Nat
  PROVE  /\ x \div n \in Nat /\ x % n \in 0 .. (n - 1)
         /\ x = (x \div n) * n + (x % n)
OBVIOUS

LEMMA OneDivision ==
  ASSUME NEW n \in Nat \ {0}, NEW a \in Nat, NEW b \in 0 .. (n - 1),
         NEW c \in Nat, NEW d \in 0 .. (n - 1), a * n + b = c * n + d
  PROVE  a = c /\ b = d
<1>1. CASE a < c
  <2>1. (c - a) * n >= n
    BY <1>1, Bound
  <2>2. c * n = a * n + (c - a) * n
    OBVIOUS
  <2> QED
    BY <2>1, <2>2
<1>2. CASE a > c
  <2>1. (a - c) * n >= n
    BY <1>2, Bound
  <2>2. a * n = c * n + (a - c) * n
    OBVIOUS
  <2> QED
    BY <2>1, <2>2
<1>3. CASE a = c
  BY <1>3
<1> QED
  BY <1>1, <1>2, <1>3

LEMMA Quotient ==
  ASSUME NEW n \in Nat \ {0}, NEW a \in Nat, NEW b \in 0 .. (n - 1)
  PROVE  (a * n + b) \div n = a /\ (a * n + b) % n = b
<1>1. a * n \in Nat
  OBVIOUS
<1> DEFINE x == a * n + b
<1>2. x \in Nat
  BY <1>1
<1> HIDE DEF x
<1>3. x \div n \in Nat /\ x % n \in 0 .. (n - 1) /\ x = (x \div n) * n + (x % n)
  BY <1>2, Division
<1>4. a * n + b = (x \div n) * n + (x % n)
  BY <1>3 DEF x
<1>5. a = x \div n /\ b = x % n
  BY <1>3, <1>4, OneDivision
<1> QED
  BY <1>5 DEF x

\* The place of message a's call of listener b, of n.
Place(a, b, n) == (a - 1) * n + b

\* Places are within the sequence, in the order of the messages.
LEMMA PlaceBounds ==
  ASSUME NEW n \in Nat, NEW k \in Nat, NEW a \in 1 .. k, NEW b \in 1 .. n
  PROVE  Place(a, b, n) \in 1 .. k * n
<1>0. n \in Nat \ {0}
  OBVIOUS
<1>1. (a - 1) * n \in Nat
  OBVIOUS
<1>2. CASE a = k
  <2>1. k * n = (a - 1) * n + n
    BY <1>2
  <2> QED
    BY <1>1, <2>1 DEF Place
<1>3. CASE a < k
  <2>1. (k - a) * n >= n
    BY <1>0, <1>3, Bound
  <2>2. k * n = (a - 1) * n + n + (k - a) * n
    OBVIOUS
  <2> QED
    BY <1>1, <2>1, <2>2 DEF Place
<1> QED
  BY <1>2, <1>3

LEMMA PlaceOrder ==
  ASSUME NEW n \in Nat, NEW a \in Nat \ {0}, NEW c \in Nat, a < c,
         NEW b \in 1 .. n, NEW d \in 1 .. n
  PROVE  Place(a, b, n) < Place(c, d, n)
<1>0. n \in Nat \ {0}
  OBVIOUS
<1>1. (a - 1) * n \in Nat
  OBVIOUS
<1>2. (c - a) * n >= n
  BY <1>0, Bound
<1>3. (c - 1) * n = (a - 1) * n + (c - a) * n
  OBVIOUS
<1> DEFINE x == (a - 1) * n
           y == (c - a) * n
<1>4. x \in Nat /\ y \in Int /\ y >= n
  BY <1>1, <1>2
<1>5. Place(a, b, n) = x + b /\ Place(c, d, n) = x + y + d
  BY <1>3 DEF Place
<1> HIDE DEF x, y
<1> QED
  BY <1>4, <1>5

\* Every call has a place.
LEMMA Placed ==
  ASSUME NEW n \in Nat, NEW k \in Nat, NEW i \in 1 .. k * n
  PROVE  /\ ((i - 1) \div n) + 1 \in 1 .. k /\ ((i - 1) % n) + 1 \in 1 .. n
         /\ i = Place(((i - 1) \div n) + 1, ((i - 1) % n) + 1, n)
<1>0. n \in Nat \ {0}
  <2>1. CASE n = 0
    <3>1. k * n = 0
      BY <2>1
    <3> QED
      BY <3>1
  <2> QED
    BY <2>1
<1>1. k * n \in Nat
  OBVIOUS
<1> DEFINE x == i - 1
           a == x \div n
           b == x % n
<1>2. x \in Nat /\ x < k * n
  BY <1>1
<1> HIDE DEF x
<1>3. a \in Nat /\ b \in 0 .. (n - 1) /\ x = a * n + b
  BY <1>0, <1>2, Division
<1> HIDE DEF a, b
<1>4. a < k
  <2>1. CASE a >= k
    <3>1. a * n = k * n + (a - k) * n
      BY <1>3
    <3>2. (a - k) * n >= 0
      BY <1>3, <2>1
    <3> QED
      BY <1>1, <1>2, <1>3, <3>1, <3>2
  <2> QED
    BY <1>3, <2>1
<1>5. a + 1 \in 1 .. k /\ b + 1 \in 1 .. n
  BY <1>3, <1>4
<1>6. i = x + 1
  BY <1>1 DEF x
<1>7. Place(a + 1, b + 1, n) = a * n + (b + 1)
  BY <1>3 DEF Place
<1>8. a * n \in Nat
  BY <1>3
<1>9. i = Place(a + 1, b + 1, n)
  BY <1>3, <1>6, <1>7, <1>8
<1> QED
  BY <1>5, <1>9 DEF a, b, x

LEMMA CallsPlaced ==
  ASSUME NEW ms \in Seq(Messages), NEW ls \in Seq(Listeners)
  PROVE  LET cs == Calls(ms, ls)
             n  == Len(ls)
         IN  /\ cs \in Seq(Pairs)
             /\ DOMAIN cs = 1 .. Len(ms) * n
             /\ \A i \in DOMAIN cs :
                  \E a \in 1 .. Len(ms), b \in 1 .. n :
                    i = Place(a, b, n) /\ cs[i] = <<ms[a], ls[b]>>
             /\ \A a \in 1 .. Len(ms), b \in 1 .. n :
                  /\ Place(a, b, n) \in DOMAIN cs
                  /\ cs[Place(a, b, n)] = <<ms[a], ls[b]>>
<1> DEFINE cs == Calls(ms, ls)
<1> PICK n \in Nat : n = Len(ls)
  BY LenProperties
<1> PICK k \in Nat : k = Len(ms)
  BY LenProperties
<1>1. \A a \in 1 .. k : ms[a] \in Messages
  BY ElementOfSeq
<1>2. \A b \in 1 .. n : ls[b] \in Listeners
  BY ElementOfSeq
<1>3. cs = [i \in 1 .. k * n |->
             <<ms[((i - 1) \div n) + 1], ls[((i - 1) % n) + 1]>>]
  BY DEF Calls
<1> HIDE DEF cs
<1>4. DOMAIN cs = 1 .. k * n
  BY <1>3
<1>5. \A i \in 1 .. k * n : cs[i] \in Pairs
  <2> TAKE i \in 1 .. k * n
  <2> DEFINE a == ((i - 1) \div n) + 1
             b == ((i - 1) % n) + 1
  <2>1. a \in 1 .. k /\ b \in 1 .. n
    BY Placed
  <2>2. cs[i] = <<ms[a], ls[b]>>
    BY <1>3
  <2> HIDE DEF a, b
  <2> QED
    BY <1>1, <1>2, <2>1, <2>2 DEF Pairs
<1>6. cs \in Seq(Pairs)
  <2>1. cs \in [1 .. k * n -> Pairs]
    BY <1>3, <1>4, <1>5
  <2>2. k * n \in Nat
    OBVIOUS
  <2> QED
    BY <2>1, <2>2, SeqDef
<1>7. \A i \in 1 .. k * n : \E a \in 1 .. k, b \in 1 .. n :
        i = Place(a, b, n) /\ cs[i] = <<ms[a], ls[b]>>
  <2> TAKE i \in 1 .. k * n
  <2> DEFINE a == ((i - 1) \div n) + 1
             b == ((i - 1) % n) + 1
  <2>1. a \in 1 .. k /\ b \in 1 .. n /\ i = Place(a, b, n)
    BY Placed
  <2>2. cs[i] = <<ms[a], ls[b]>>
    BY <1>3
  <2> HIDE DEF a, b
  <2> QED
    BY <2>1, <2>2
<1>8. \A a \in 1 .. k, b \in 1 .. n :
        /\ Place(a, b, n) \in 1 .. k * n
        /\ cs[Place(a, b, n)] = <<ms[a], ls[b]>>
  <2> TAKE a \in 1 .. k, b \in 1 .. n
  <2> DEFINE i == Place(a, b, n)
  <2>1. i \in 1 .. k * n
    BY PlaceBounds
  <2>2. /\ a - 1 \in Nat /\ b - 1 \in 0 .. (n - 1) /\ n \in Nat \ {0}
    OBVIOUS
  <2>3. i - 1 = (a - 1) * n + (b - 1)
    <3>1. (a - 1) * n \in Nat
      BY <2>2
    <3> QED
      BY <3>1 DEF Place
  <2>4. (i - 1) \div n = a - 1 /\ (i - 1) % n = b - 1
    <3> DEFINE x == (a - 1) * n + (b - 1)
    <3>1. x \div n = a - 1 /\ x % n = b - 1
      BY <2>2, Quotient
    <3> QED
      BY <2>3, <3>1
  <2> HIDE DEF i
  <2>5. ((i - 1) \div n) + 1 = a /\ ((i - 1) % n) + 1 = b
    BY <2>4
  <2>6. cs[i] = <<ms[((i - 1) \div n) + 1], ls[((i - 1) % n) + 1]>>
    BY <1>3, <2>1
  <2> QED
    BY <2>1, <2>5, <2>6 DEF i
<1>9. DOMAIN cs = 1 .. Len(ms) * Len(ls)
  BY <1>4
<1>10. \A i \in DOMAIN cs : \E a \in 1 .. Len(ms), b \in 1 .. Len(ls) :
         i = Place(a, b, Len(ls)) /\ cs[i] = <<ms[a], ls[b]>>
  BY <1>4, <1>7
<1>11. \A a \in 1 .. Len(ms), b \in 1 .. Len(ls) :
         /\ Place(a, b, Len(ls)) \in DOMAIN cs
         /\ cs[Place(a, b, Len(ls))] = <<ms[a], ls[b]>>
  BY <1>4, <1>8
<1> QED
  BY <1>6, <1>9, <1>10, <1>11 DEF cs

-----------------------------------------------------------------------------
(* What a step keeps. *)

\* A step changes nothing about a message outside C, nor the posting and the
\* fate of one that was posted; no call is undone.
Keeps(C) ==
  /\ \A m \in Messages \ C :
       /\ sent'[m] = sent[m] /\ fate'[m] = fate[m]
       /\ \A l \in Listeners : handled'[<<m, l>>] = handled[<<m, l>>]
  /\ \A m \in Messages : sent[m].state = "returned" =>
       sent'[m] = sent[m] /\ fate'[m] = fate[m]
  /\ \A c \in Pairs : handled'[c] >= handled[c]

\* A port starts and closes for good, and loses no listener until it closes.
PortsGrow ==
  \A e \in Ends :
    /\ ports[e].started => ports'[e].started
    /\ ports[e].closed => ports'[e].closed
    /\ ~ports'[e].closed => Range(ports[e].listeners) \subseteq Range(ports'[e].listeners)

LEMMA FrameFacts ==
  ASSUME NEW f \in Frames
  PROVE  /\ f.op \in {"post", "deliver", "start", "invoke"}
         /\ f.op = "post" => f.msg \in Messages /\ Carried(f) = {f.msg}
         /\ f.op = "invoke" => Carried(f) = {}
         /\ f.op \in {"deliver", "start"} =>
              /\ f \in CallFrames /\ f.calls \in Seq(Pairs) /\ f.inside \in BOOLEAN
              /\ DOMAIN f.calls = 1 .. Len(f.calls) /\ Len(f.calls) \in Nat
              /\ Carried(f) = {f.calls[q][1] : q \in DOMAIN f.calls}
              /\ \A q \in DOMAIN f.calls :
                   /\ f.calls[q] \in Pairs /\ f.calls[q][1] \in Messages
                   /\ f.calls[q][2] \in Listeners
                   /\ f.calls[q] = <<f.calls[q][1], f.calls[q][2]>>
<1>1. CASE f \in PostFrames
  BY <1>1 DEF PostFrames, Carried
<1>2. CASE f \in CallFrames
  <2>1. f.op \in {"deliver", "start"} /\ f.calls \in Seq(Pairs) /\ f.inside \in BOOLEAN
    BY <1>2 DEF CallFrames
  <2>2. /\ DOMAIN f.calls = 1 .. Len(f.calls) /\ Len(f.calls) \in Nat
        /\ \A q \in DOMAIN f.calls : f.calls[q] \in Pairs
    BY <2>1, LenProperties, ElementOfSeq
  <2>3. \A c \in Pairs : c[1] \in Messages /\ c[2] \in Listeners /\ c = <<c[1], c[2]>>
    BY DEF Pairs
  <2>4. Carried(f) = {f.calls[q][1] : q \in DOMAIN f.calls}
    BY <2>1 DEF Carried
  <2> QED
    BY <1>2, <2>1, <2>2, <2>3, <2>4
<1>3. CASE f = InvokeFrame
  BY <1>3 DEF InvokeFrame, Carried
<1> QED
  BY <1>1, <1>2, <1>3 DEF Frames

\* A frame whose messages a step does not touch stays right.
LEMMA FrameKept ==
  ASSUME PortsTypeOK, PortsTypeOK', NEW C, Keeps(C),
         NEW f \in Frames, Carried(f) \cap C = {},
         FrameOK(f, sent, fate, handled)
  PROVE  FrameOK(f, sent', fate', handled')
<1>1. /\ handled \in [Pairs -> Nat] /\ handled' \in [Pairs -> Nat]
      /\ sent \in [Messages -> Posting]
  BY DEF PortsTypeOK
<1>2. \A m \in Messages \ C :
        /\ sent'[m] = sent[m] /\ fate'[m] = fate[m]
        /\ \A l \in Listeners : handled'[<<m, l>>] = handled[<<m, l>>]
  BY DEF Keeps
<1>3. \A c \in Pairs : handled[c] > 0 => handled'[c] > 0
  BY <1>1 DEF Keeps
<1>4. CASE f.op = "post"
  BY <1>2, <1>4, FrameFacts DEF FrameOK, PostOK
<1>5. CASE f.op \in {"deliver", "start"}
  <2> DEFINE cs == f.calls
  <2>1. /\ DOMAIN cs = 1 .. Len(cs) /\ Len(cs) \in Nat /\ f.inside \in BOOLEAN
        /\ \A q \in DOMAIN cs :
             /\ cs[q] \in Pairs /\ cs[q][1] \in Messages \ C
             /\ cs[q][2] \in Listeners
             /\ cs[q] = <<cs[q][1], cs[q][2]>>
    BY <1>5, FrameFacts
  <2>2. \A q \in DOMAIN cs :
          /\ handled'[cs[q]] = handled[cs[q]]
          /\ sent'[cs[q][1]] = sent[cs[q][1]] /\ fate'[cs[q][1]] = fate[cs[q][1]]
    <3> TAKE q \in DOMAIN cs
    <3> DEFINE m == cs[q][1]
               l == cs[q][2]
    <3>1. m \in Messages \ C /\ l \in Listeners /\ cs[q] = <<m, l>>
      BY <2>1
    <3> HIDE DEF m, l
    <3>2. sent'[m] = sent[m] /\ fate'[m] = fate[m] /\ handled'[<<m, l>>] = handled[<<m, l>>]
      BY <1>2, <3>1
    <3>3. handled'[cs[q]] = handled[cs[q]]
      BY <3>1, <3>2
    <3> QED
      BY <3>2, <3>3 DEF m
  <2>3. CallOK(f, handled)
    BY <1>5 DEF FrameOK
  <2>4. 1 \in DOMAIN cs
    <3>1. cs \in Seq(Pairs) /\ cs # <<>>
      BY <1>5, <2>3, FrameFacts DEF CallOK
    <3>2. Len(cs) \in Nat \ {0}
      BY <3>1, EmptySeq
    <3> QED
      BY <2>1, <3>2
  <2>5. CallOK(f, handled')
    BY <2>2, <2>3, <2>4 DEF CallOK
  <2>6. ASSUME f.op = "deliver" PROVE DeliverOK(f, sent', fate', handled')
    <3>1. DeliverOK(f, sent, fate, handled)
      BY <2>6 DEF FrameOK
    <3> DEFINE m == cs[1][1]
    <3>2. m \in Messages /\ sent'[m] = sent[m] /\ fate'[m] = fate[m]
      BY <2>1, <2>2, <2>4
    <3>3. \A l \in sent[m].saw : l \in Listeners
      BY <1>1, <3>2 DEF Posting
    <3>4. \A l \in sent[m].saw : handled[<<m, l>>] > 0 => handled'[<<m, l>>] > 0
      BY <1>3, <3>2, <3>3 DEF Pairs
    <3> QED
      BY <3>1, <3>2, <3>4 DEF DeliverOK
  <2>7. ASSUME f.op = "start" PROVE StartOK(f, sent', fate', handled')
    <3>1. StartOK(f, sent, fate, handled)
      BY <2>7 DEF FrameOK
    <3>2. \A q \in DOMAIN cs : \A m \in sent[cs[q][1]].before : m \in Messages
      BY <1>1, <2>1 DEF Posting
    <3>3. \A q \in DOMAIN cs : \A m \in sent[cs[q][1]].before :
            handled[<<m, cs[q][2]>>] > 0 => handled'[<<m, cs[q][2]>>] > 0
      BY <1>3, <2>1, <3>2 DEF Pairs
    <3> QED
      BY <2>2, <3>1, <3>3 DEF StartOK
  <2> QED
    BY <1>5, <2>5, <2>6, <2>7 DEF FrameOK
<1>6. CASE f.op = "invoke"
  BY <1>6 DEF FrameOK
<1> QED
  BY <1>4, <1>5, <1>6, FrameFacts

\* A step that changes one level of one stack, and touches the messages C that
\* no other level carries, keeps the frames right if the new one is.
LEMMA FramesStep ==
  ASSUME PortsTypeOK, PortsTypeOK', FramesOK, OnePlace, NEW C, Keeps(C),
         NEW g \in Goroutines, NEW k \in Nat, SameBut(stack, stack', g, k),
         \A h \in Goroutines : \A i \in DOMAIN stack[h] : h # g \/ i # k =>
           Carried(stack[h][i]) \cap C = {},
         k \in DOMAIN stack'[g] =>
           /\ FrameOK(stack'[g][k], sent', fate', handled')
           /\ \A h \in Goroutines : \A i \in DOMAIN stack[h] : h # g \/ i # k =>
                Carried(stack[h][i]) \cap Carried(stack'[g][k]) = {}
  PROVE  FramesOK' /\ OnePlace'
<1>1. stack \in Stacks /\ stack' \in Stacks
  BY DEF PortsTypeOK, Stacks
<1>2. \A h \in Goroutines : \A i \in DOMAIN stack[h] : i \in Nat /\ stack[h][i] \in Frames
  BY <1>1, Levels
<1>3. \A h \in Goroutines : \A i \in DOMAIN stack'[h] : i \in Nat
  BY <1>1, Levels
<1>4. \A h \in Goroutines : \A i \in DOMAIN stack'[h] : h # g \/ i # k =>
        i \in DOMAIN stack[h] /\ stack'[h][i] = stack[h][i]
  BY <1>3 DEF SameBut
<1>5. FramesOK'
  <2> SUFFICES ASSUME NEW h \in Goroutines, NEW i \in DOMAIN stack'[h]
               PROVE  FrameOK(stack'[h][i], sent', fate', handled')
    BY DEF FramesOK
  <2>1. CASE h = g /\ i = k
    BY <2>1
  <2>2. CASE h # g \/ i # k
    <3>1. i \in DOMAIN stack[h] /\ stack'[h][i] = stack[h][i]
      BY <1>4, <2>2
    <3>2. /\ stack[h][i] \in Frames /\ Carried(stack[h][i]) \cap C = {}
          /\ FrameOK(stack[h][i], sent, fate, handled)
      BY <1>2, <2>2, <3>1 DEF FramesOK
    <3> QED
      BY <3>1, <3>2, FrameKept
  <2> QED
    BY <2>1, <2>2
<1>6. OnePlace'
  <2> SUFFICES ASSUME NEW a \in Goroutines, NEW b \in Goroutines,
                      NEW i \in DOMAIN stack'[a], NEW j \in DOMAIN stack'[b],
                      Carried(stack'[a][i]) \cap Carried(stack'[b][j]) # {}
               PROVE  a = b /\ i = j
    BY DEF OnePlace
  <2>1. CASE (a # g \/ i # k) /\ (b # g \/ j # k)
    BY <1>4, <2>1 DEF OnePlace
  <2>2. CASE a = g /\ i = k /\ (b # g \/ j # k)
    BY <1>4, <2>2
  <2>3. CASE (a # g \/ i # k) /\ b = g /\ j = k
    BY <1>4, <2>3
  <2> QED
    BY <2>1, <2>2, <2>3
<1> QED
  BY <1>5, <1>6

\* The messages a step does not touch stay right.
LEMMA MessagesStep ==
  ASSUME PortsTypeOK, PortsTypeOK', MessagesOK, NEW C, Keeps(C), PortsGrow,
         \A m \in Messages \cap C : MessageOK(m, ports', sent', fate', handled')
  PROVE  MessagesOK'
<1> SUFFICES ASSUME NEW m \in Messages, m \notin C
             PROVE  MessageOK(m, ports', sent', fate', handled')
  BY DEF MessagesOK
<1>1. /\ sent'[m] = sent[m] /\ fate'[m] = fate[m]
      /\ \A l \in Listeners : handled'[<<m, l>>] = handled[<<m, l>>]
  BY DEF Keeps
<1>2. sent[m] \in Posting
  BY DEF PortsTypeOK
<1>3. sent[m].to \in Ends /\ sent[m].before \subseteq Messages
  BY <1>2 DEF Posting
<1>4. MessageOK(m, ports, sent, fate, handled)
  BY DEF MessagesOK
<1>5. \A n \in sent[m].before :
        /\ sent'[n].state = "returned" /\ sent'[n].to = sent'[m].to
        /\ fate'[n] = "dropped" => sent'[m].late
  BY <1>1, <1>3, <1>4 DEF MessageOK, Keeps
<1> DEFINE e == sent[m].to
<1>6. /\ ports[e].started => ports'[e].started
      /\ ports[e].closed => ports'[e].closed
      /\ ~ports'[e].closed => Range(ports[e].listeners) \subseteq Range(ports'[e].listeners)
  BY <1>3 DEF PortsGrow
<1> QED
  BY <1>1, <1>4, <1>5, <1>6 DEF MessageOK

\* A message on a queue stays untouched there, if the new level leaves it alone.
LEMMA WaitingStep ==
  ASSUME PortsTypeOK', NEW C, Keeps(C),
         NEW g \in Goroutines, NEW k \in Nat, SameBut(stack, stack', g, k),
         NEW e \in Ends, NEW m \in Messages, m \notin C,
         WaitingOK(m, e, sent, fate, stack, handled),
         k \in DOMAIN stack'[g] => m \notin Carried(stack'[g][k])
  PROVE  WaitingOK(m, e, sent', fate', stack', handled')
<1>1. stack' \in Stacks
  BY DEF PortsTypeOK, Stacks
<1>2. \A h \in Goroutines : \A i \in DOMAIN stack'[h] : h # g \/ i # k =>
        i \in DOMAIN stack[h] /\ stack'[h][i] = stack[h][i]
  BY <1>1, Levels DEF SameBut
<1>3. \A h \in Goroutines : \A i \in DOMAIN stack'[h] : m \notin Carried(stack'[h][i])
  BY <1>2 DEF WaitingOK
<1> QED
  BY <1>3 DEF WaitingOK, Keeps

\* The queues that a step leaves or empties stay right.
LEMMA QueuesStep ==
  ASSUME PortsTypeOK, PortsTypeOK', QueuesOK, NEW C, Keeps(C),
         NEW g \in Goroutines, NEW k \in Nat, SameBut(stack, stack', g, k),
         \A e \in Ends :
           ports'[e].queue = ports[e].queue \/ ports'[e].queue = <<>>,
         \A e \in Ends : \A j \in DOMAIN ports'[e].queue :
           /\ ports'[e].queue[j] \notin C
           /\ k \in DOMAIN stack'[g] =>
                ports'[e].queue[j] \notin Carried(stack'[g][k])
  PROVE  QueuesOK'
<1> SUFFICES ASSUME NEW e \in Ends, NEW j \in DOMAIN ports'[e].queue
             PROVE  LET q == ports'[e].queue IN
                    /\ WaitingOK(q[j], e, sent', fate', stack', handled')
                    /\ \A i \in DOMAIN q : q[i] = q[j] => i = j
                    /\ \A m \in sent'[q[j]].before : \E i \in 1 .. (j - 1) : q[i] = m
  BY DEF QueuesOK
<1> DEFINE q == ports[e].queue
<1>1. q \in Seq(Messages)
  BY DEF PortsTypeOK, Port
<1>2. ports'[e].queue = q
  <2>1. DOMAIN <<>> = {}
    BY LenProperties, EmptySeq
  <2> QED
    BY <2>1
<1>3. q[j] \in Messages
  BY <1>1, <1>2, LenProperties, ElementOfSeq
<1>4. /\ WaitingOK(q[j], e, sent, fate, stack, handled)
      /\ \A i \in DOMAIN q : q[i] = q[j] => i = j
      /\ \A m \in sent[q[j]].before : \E i \in 1 .. (j - 1) : q[i] = m
  BY <1>2 DEF QueuesOK
<1>5. q[j] \notin C /\ (k \in DOMAIN stack'[g] => q[j] \notin Carried(stack'[g][k]))
  BY <1>2
<1> HIDE DEF q
<1>6. \A m \in Messages : m = q[j] => WaitingOK(m, e, sent', fate', stack', handled')
  <2> SUFFICES ASSUME NEW m \in Messages, m = q[j]
               PROVE  WaitingOK(m, e, sent', fate', stack', handled')
    OBVIOUS
  <2>1. /\ WaitingOK(m, e, sent, fate, stack, handled) /\ m \notin C
        /\ k \in DOMAIN stack'[g] => m \notin Carried(stack'[g][k])
    BY <1>4, <1>5
  <2> QED
    BY <2>1, WaitingStep
<1>7. sent'[q[j]] = sent[q[j]]
  BY <1>3, <1>4 DEF WaitingOK, Keeps
<1> QED
  BY <1>2, <1>3, <1>4, <1>6, <1>7

\* What a Start has yet to call it still has, or has called.
LEMMA ReachedStep ==
  ASSUME PortsTypeOK, PortsTypeOK', NEW C, Keeps(C),
         NEW g \in Goroutines, NEW k \in Nat, SameBut(stack, stack', g, k),
         NEW m \in Messages, NEW l \in Listeners,
         k \in DOMAIN stack[g] /\ Taken(stack[g][k], m, l) =>
           \/ handled'[<<m, l>>] > 0
           \/ k \in DOMAIN stack'[g] /\ Taken(stack'[g][k], m, l),
         Reached(m, l, stack, handled)
  PROVE  Reached(m, l, stack', handled')
<1>1. stack \in Stacks
  BY DEF PortsTypeOK, Stacks
<1>2. CASE handled[<<m, l>>] > 0
  <2>1. <<m, l>> \in Pairs
    BY DEF Pairs
  <2>2. handled[<<m, l>>] \in Nat /\ handled'[<<m, l>>] \in Nat
    BY <2>1 DEF PortsTypeOK
  <2>3. handled'[<<m, l>>] >= handled[<<m, l>>]
    BY <2>1 DEF Keeps
  <2>4. handled'[<<m, l>>] > 0
    BY <1>2, <2>2, <2>3
  <2> QED
    BY <2>4 DEF Reached
<1>3. ASSUME NEW h \in Goroutines, NEW i \in DOMAIN stack[h], Taken(stack[h][i], m, l)
      PROVE  Reached(m, l, stack', handled')
  <2>1. CASE h = g /\ i = k
    BY <1>3, <2>1 DEF Reached
  <2>2. CASE h # g \/ i # k
    <3>1. i \in Nat
      BY <1>1, Levels
    <3>2. i \in DOMAIN stack'[h] /\ stack'[h][i] = stack[h][i]
      BY <2>2, <3>1 DEF SameBut
    <3> QED
      BY <1>3, <3>2 DEF Reached
  <2> QED
    BY <2>1, <2>2
<1> QED
  BY <1>2, <1>3 DEF Reached

\* The deliveries of messages a step does not touch stay right.
LEMMA DeliveriesStep ==
  ASSUME PortsTypeOK, PortsTypeOK', MessagesOK, DeliveriesOK,
         NEW C, Keeps(C), PortsGrow,
         \A m \in Messages, l \in Listeners :
           Reached(m, l, stack, handled) => Reached(m, l, stack', handled'),
         \A e \in Ends : \A i \in DOMAIN ports[e].queue :
           LET m == ports[e].queue[i]
           IN  \/ ports'[e].closed
               \/ \E j \in DOMAIN ports'[e].queue : ports'[e].queue[j] = m
               \/ /\ ports'[e].started
                  /\ \A l \in sent[m].saw : Reached(m, l, stack', handled'),
         \A m \in Messages \cap C :
           DeliveryOK(m, ports', sent', fate', stack', handled')
  PROVE  DeliveriesOK'
<1> SUFFICES ASSUME NEW m \in Messages, m \notin C
             PROVE  DeliveryOK(m, ports', sent', fate', stack', handled')
  BY DEF DeliveriesOK
<1>1. /\ sent'[m] = sent[m] /\ fate'[m] = fate[m]
      /\ \A l \in Listeners : handled'[<<m, l>>] = handled[<<m, l>>]
  BY DEF Keeps
<1>2. /\ sent[m].to \in Ends /\ sent[m].before \subseteq Messages
      /\ sent[m].saw \subseteq Listeners
  BY DEF PortsTypeOK, Posting
<1>3. /\ Queued(m, ports, sent, fate, stack, handled)
      /\ Direct(m, sent, fate, stack, handled)
      /\ Ordered(m, sent, fate, handled)
  BY DEF DeliveriesOK, DeliveryOK
<1>4. \A n \in sent[m].before : sent'[n] = sent[n] /\ sent[n].saw \subseteq Listeners
  <2>1. \A n \in sent[m].before : sent[n].state = "returned"
    BY DEF MessagesOK, MessageOK
  <2>2. \A n \in Messages : sent[n].saw \subseteq Listeners
    BY DEF PortsTypeOK, Posting
  <2> QED
    BY <1>2, <2>1, <2>2 DEF Keeps
<1>5. Queued(m, ports', sent', fate', stack', handled')
  <2> SUFFICES ASSUME fate[m] = "queued"
               PROVE  LET to == ports'[sent[m].to]
                      IN  \/ to.closed
                          \/ \E i \in DOMAIN to.queue : to.queue[i] = m
                          \/ /\ to.started
                             /\ \A l \in sent[m].saw : Reached(m, l, stack', handled')
    BY <1>1 DEF Queued
  <2> DEFINE e == sent[m].to
  <2>1. CASE ports[e].closed
    BY <1>2, <2>1 DEF PortsGrow
  <2>2. CASE \E i \in DOMAIN ports[e].queue : ports[e].queue[i] = m
    BY <1>2, <2>2
  <2>3. CASE ports[e].started /\ \A l \in sent[m].saw : Reached(m, l, stack, handled)
    <3>1. ports'[e].started
      BY <1>2, <2>3 DEF PortsGrow
    <3> QED
      BY <1>2, <2>3, <3>1
  <2> QED
    BY <1>3, <2>1, <2>2, <2>3 DEF Queued
<1>6. Direct(m, sent', fate', stack', handled')
  <2> SUFFICES ASSUME fate[m] = "direct"
               PROVE  /\ sent[m].state = "returned" =>
                           \A l \in sent[m].saw : handled'[<<m, l>>] > 0
                      /\ \A n \in sent[m].before : \A l \in sent'[n].saw :
                           Reached(n, l, stack', handled')
    BY <1>1 DEF Direct
  <2>1. /\ sent[m].state = "returned" => \A l \in sent[m].saw : handled[<<m, l>>] > 0
        /\ \A n \in sent[m].before : \A l \in sent[n].saw :
             Reached(n, l, stack, handled)
    BY <1>3 DEF Direct
  <2>2. sent[m].state = "returned" => \A l \in sent[m].saw : handled'[<<m, l>>] > 0
    BY <1>1, <1>2, <2>1
  <2>3. ASSUME NEW n \in sent[m].before, NEW l \in sent'[n].saw
        PROVE  Reached(n, l, stack', handled')
    <3>1. n \in Messages /\ l \in Listeners /\ l \in sent[n].saw
      BY <1>2, <1>4
    <3> QED
      BY <2>1, <3>1
  <2> QED
    BY <2>2, <2>3
<1>7. Ordered(m, sent', fate', handled')
  <2> SUFFICES ASSUME fate[m] = "queued", NEW n \in sent[m].before, NEW l \in Listeners,
                      handled[<<m, l>>] > 0
               PROVE  handled'[<<n, l>>] > 0
    BY <1>1 DEF Ordered
  <2>1. handled[<<n, l>>] > 0
    BY <1>3 DEF Ordered
  <2>2. <<n, l>> \in Pairs
    BY <1>2 DEF Pairs
  <2>3. handled[<<n, l>>] \in Nat /\ handled'[<<n, l>>] \in Nat
    BY <2>2 DEF PortsTypeOK
  <2>4. handled'[<<n, l>>] >= handled[<<n, l>>]
    BY <2>2 DEF Keeps
  <2> QED
    BY <2>1, <2>3, <2>4
<1> QED
  BY <1>5, <1>6, <1>7 DEF DeliveryOK

-----------------------------------------------------------------------------
(* Steps. *)

\* A step that changes no message, port or stack.
LEMMA SamePorts ==
  ASSUME PInv, UNCHANGED <<portVars, stack>>
  PROVE  PInv'
<1> USE DEF portVars
<1>1. PortsTypeOK' /\ PortsOK' /\ OnePlace'
  BY DEF PInv, PortsTypeOK, PortsOK, OnePlace
<1>2. FramesOK' /\ QueuesOK' /\ MessagesOK' /\ DeliveriesOK'
  BY DEF PInv, FramesOK, QueuesOK, MessagesOK, DeliveriesOK
<1> QED
  BY <1>1, <1>2 DEF PInv

LEMMA NothingKept ==
  ASSUME PortsTypeOK, UNCHANGED <<sent, fate, handled>>
  PROVE  Keeps({})
BY DEF PortsTypeOK, Keeps

\* A step that only puts a frame without messages on a stack, or takes it off.
LEMMA QuietStep ==
  ASSUME PInv, UNCHANGED portVars, stack' \in Stacks,
         NEW g \in Goroutines, NEW k \in Nat, SameBut(stack, stack', g, k),
         k \in DOMAIN stack[g] => stack[g][k].op = "invoke",
         k \in DOMAIN stack'[g] => stack'[g][k] = InvokeFrame
  PROVE  PInv'
<1> USE DEF portVars
<1>1. PortsTypeOK /\ PortsTypeOK' /\ Keeps({}) /\ PortsGrow /\ PortsOK'
  BY NothingKept DEF PInv, PortsTypeOK, Stacks, PortsGrow, PortsOK
<1>2. FrameOK(InvokeFrame, sent', fate', handled') /\ Carried(InvokeFrame) = {}
  BY DEF FrameOK, InvokeFrame, Carried
<1>3. FramesOK' /\ OnePlace'
  BY <1>1, <1>2, FramesStep DEF PInv
<1>4. QueuesOK'
  BY <1>1, <1>2, QueuesStep DEF PInv
<1>5. MessagesOK'
  BY <1>1, MessagesStep DEF PInv
<1>6. \A m \in Messages, l \in Listeners :
        Reached(m, l, stack, handled) => Reached(m, l, stack', handled')
  BY <1>1, ReachedStep DEF Taken
<1>7. DeliveriesOK'
  BY <1>1, <1>6, DeliveriesStep DEF PInv
<1> QED
  BY <1>1, <1>3, <1>4, <1>5, <1>7 DEF PInv

LEMMA PInvInvoke ==
  ASSUME PInv, NEW g \in Goroutines, NEW c \in Channels, Invoke(g, c)
  PROVE  PInv'
<1>1. stack \in Stacks /\ InvokeFrame \in Frames
  BY DEF PInv, PortsTypeOK, Stacks, Frames
<1>2. Becomes(stack, stack', g, Push(stack[g], InvokeFrame))
  BY <1>1 DEF Invoke, Becomes, Stacks
<1> DEFINE k == Len(stack[g]) + 1
<1>3. /\ stack' \in Stacks /\ SameBut(stack, stack', g, k) /\ k \in Nat
      /\ k \notin DOMAIN stack[g] /\ stack'[g][k] = InvokeFrame
  BY <1>1, <1>2, Pushed DEF Push
<1>4. UNCHANGED portVars
  BY DEF Invoke
<1> HIDE DEF k
<1> QED
  BY <1>3, <1>4, QuietStep

LEMMA PInvInvokeReturns ==
  ASSUME PInv, NEW g \in Goroutines, InvokeReturns(g)
  PROVE  PInv'
<1>1. stack \in Stacks
  BY DEF PInv, PortsTypeOK, Stacks
<1> DEFINE k == Len(stack[g])
<1>2. stack[g] # <<>> /\ stack[g][k].op = "invoke"
  BY DEF InvokeReturns, Doing, Top
<1>3. Becomes(stack, stack', g, Pop(stack[g]))
  BY <1>1 DEF InvokeReturns, Becomes, Stacks
<1>4. /\ stack' \in Stacks /\ SameBut(stack, stack', g, k) /\ k \in Nat
      /\ k \notin DOMAIN stack'[g]
  BY <1>1, <1>2, <1>3, Popped DEF Pop, DropTop
<1>5. UNCHANGED portVars
  BY DEF InvokeReturns
<1> HIDE DEF k
<1> QED
  BY <1>2, <1>4, <1>5, QuietStep

\* The stacks and the messages stay, and the ports but for one.
LEMMA PInvOnMessage ==
  ASSUME PInv, NEW g \in Goroutines, NEW e \in Ends, NEW l \in Listeners,
         OnMessage(g, e, l)
  PROVE  PInv'
<1>1. stack \in Stacks /\ stack' = stack /\ UNCHANGED <<sent, fate, handled>>
  BY DEF PInv, PortsTypeOK, Stacks, OnMessage
<1> DEFINE ls == ports[e].listeners
<1>2. /\ ports \in [Ends -> Port]
      /\ ls \in Seq(Listeners) /\ DOMAIN ls = 1 .. Len(ls) /\ Len(ls) \in Nat
  BY LenProperties DEF PInv, PortsTypeOK, Port
<1>3. /\ ports' = [ports EXCEPT ![e].listeners = Append(ls, l)]
      /\ \A i \in DOMAIN ls : ls[i] # l
  BY DEF OnMessage, Range
<1>4. /\ Append(ls, l) \in Seq(Listeners)
      /\ DOMAIN Append(ls, l) = 1 .. Len(ls) + 1
      /\ \A i \in 1 .. Len(ls) : Append(ls, l)[i] = ls[i]
      /\ Append(ls, l)[Len(ls) + 1] = l
  BY <1>2, AppendProperties, LenProperties
<1>5. \A f \in Ends :
        /\ ports'[f].started = ports[f].started
        /\ ports'[f].closed = ports[f].closed
        /\ ports'[f].queue = ports[f].queue
        /\ f # e => ports'[f].listeners = ports[f].listeners
  BY <1>2, <1>3 DEF Port
<1>6. ports' \in [Ends -> Port] /\ ports'[e].listeners = Append(ls, l)
  BY <1>2, <1>3, <1>4 DEF Port
<1>7. PortsTypeOK /\ PortsTypeOK' /\ Keeps({})
  BY <1>1, <1>6, NothingKept DEF PInv, PortsTypeOK
<1>8. Range(ls) \subseteq Range(ports'[e].listeners)
  BY <1>2, <1>4, <1>6 DEF Range
<1>9. PortsGrow
  BY <1>5, <1>8 DEF PortsGrow
<1>10. \A i, j \in DOMAIN ports'[e].listeners :
         ports'[e].listeners[i] = ports'[e].listeners[j] => i = j
  <2>1. \A i, j \in 1 .. Len(ls) : ls[i] = ls[j] => i = j
    BY <1>2 DEF PInv, PortsOK
  <2> HIDE DEF ls
  <2>2. \A i \in 1 .. Len(ls) + 1 : i \in 1 .. Len(ls) \/ i = Len(ls) + 1
    BY <1>2
  <2> QED
    BY <1>2, <1>3, <1>4, <1>6, <2>1, <2>2
<1>11. PortsOK'
  BY <1>5, <1>10 DEF PInv, PortsOK
<1>12. SameBut(stack, stack', g, 0) /\ 0 \notin DOMAIN stack[g] /\ 0 \in Nat
  BY <1>1, Unchanged
<1>13. FramesOK' /\ OnePlace'
  BY <1>1, <1>7, <1>12, FramesStep DEF PInv
<1>14. QueuesOK'
  BY <1>1, <1>5, <1>7, <1>12, QueuesStep DEF PInv
<1>15. MessagesOK'
  BY <1>7, <1>9, MessagesStep DEF PInv
<1>16. DeliveriesOK'
  BY <1>1, <1>5, <1>7, <1>9, DeliveriesStep DEF PInv
<1> QED
  BY <1>7, <1>11, <1>13, <1>14, <1>15, <1>16 DEF PInv

LEMMA PInvClose ==
  ASSUME PInv, NEW g \in Goroutines, NEW e \in Ends, Close(g, e)
  PROVE  PInv'
<1>1. stack \in Stacks /\ stack' = stack /\ UNCHANGED <<sent, fate, handled>>
  BY DEF PInv, PortsTypeOK, Stacks, Close
<1>2. /\ ports \in [Ends -> Port]
      /\ ports' = [ports EXCEPT ![e].closed = TRUE, ![e].queue = <<>>,
                                ![e].listeners = <<>>]
  BY DEF PInv, PortsTypeOK, Close
<1>3. <<>> \in Seq(Messages) /\ <<>> \in Seq(Listeners)
  BY EmptySeq
<1>4. /\ ports' \in [Ends -> Port] /\ ports'[e].closed
      /\ ports'[e].started = ports[e].started
      /\ ports'[e].queue = <<>> /\ ports'[e].listeners = <<>>
      /\ \A f \in Ends : f # e => ports'[f] = ports[f]
  BY <1>2, <1>3 DEF Port
<1>5. PortsTypeOK /\ PortsTypeOK' /\ Keeps({})
  BY <1>1, <1>4, NothingKept DEF PInv, PortsTypeOK
<1>6. PortsGrow
  BY <1>4 DEF PortsGrow
<1>7. DOMAIN ports'[e].listeners = {}
  BY <1>3, <1>4, LenProperties, EmptySeq
<1>8. PortsOK'
  BY <1>4, <1>7 DEF PInv, PortsOK
<1>9. SameBut(stack, stack', g, 0) /\ 0 \notin DOMAIN stack[g] /\ 0 \in Nat
  BY <1>1, Unchanged
<1>10. FramesOK' /\ OnePlace'
  BY <1>1, <1>5, <1>9, FramesStep DEF PInv
<1>11. QueuesOK'
  <2>1. \A f \in Ends : ports'[f].queue = ports[f].queue \/ ports'[f].queue = <<>>
    BY <1>4
  <2> QED
    BY <1>1, <1>5, <1>9, <2>1, QueuesStep DEF PInv
<1>12. MessagesOK'
  BY <1>5, <1>6, MessagesStep DEF PInv
<1>13. DeliveriesOK'
  BY <1>1, <1>4, <1>5, <1>6, DeliveriesStep DEF PInv
<1> QED
  BY <1>5, <1>8, <1>10, <1>11, <1>12, <1>13 DEF PInv

\* The message of a frame was posted, and by its fate the frame's kind is told.
LEMMA CarriedFacts ==
  ASSUME NEW s, NEW t, NEW h, NEW f \in Frames, FrameOK(f, s, t, h),
         NEW m \in Carried(f)
  PROVE  /\ m \in Messages
         /\ f.op = "post" => s[m].state = "posting" /\ t[m] = "none"
         /\ f.op = "deliver" => s[m].state = "posting" /\ t[m] = "direct"
         /\ f.op = "start" => s[m].state = "returned" /\ t[m] = "queued"
         /\ f.op \in {"post", "deliver", "start"}
<1>1. CASE f.op = "post"
  BY <1>1, FrameFacts DEF FrameOK, PostOK
<1>2. CASE f.op \in {"deliver", "start"}
  <2> PICK q \in DOMAIN f.calls : m = f.calls[q][1]
    BY <1>2, FrameFacts
  <2>1. m \in Messages
    BY <1>2, FrameFacts
  <2> QED
    BY <1>2, <2>1 DEF FrameOK, DeliverOK, StartOK
<1>3. CASE f.op = "invoke"
  BY <1>3, FrameFacts
<1> QED
  BY <1>1, <1>2, <1>3, FrameFacts

LEMMA InFrame ==
  ASSUME PInv, NEW g \in Goroutines, NEW i \in DOMAIN stack[g]
  PROVE  /\ stack[g][i] \in Frames /\ i \in Nat
         /\ FrameOK(stack[g][i], sent, fate, handled)
<1>1. stack \in Stacks
  BY DEF PInv, PortsTypeOK, Stacks
<1> QED
  BY <1>1, Levels DEF PInv, FramesOK

LEMMA InQueue ==
  ASSUME PInv, NEW e \in Ends, NEW j \in DOMAIN ports[e].queue
  PROVE  /\ ports[e].queue[j] \in Messages
         /\ WaitingOK(ports[e].queue[j], e, sent, fate, stack, handled)
<1>1. ports[e].queue \in Seq(Messages)
  BY DEF PInv, PortsTypeOK, Port
<1> QED
  BY <1>1, LenProperties, ElementOfSeq DEF PInv, QueuesOK

LEMMA PInvPostMessage ==
  ASSUME PInv, NEW g \in Goroutines, NEW e \in Ends, NEW m \in Messages,
         PostMessage(g, e, m)
  PROVE  PInv'
<1> DEFINE to == Peer(e)
           refused == ports[e].closed
           k == IF refused THEN 0 ELSE Len(stack[g]) + 1
           new == [state |-> IF refused THEN "refused" ELSE "posting",
                   to |-> to, late |-> refused \/ ports[to].closed,
                   saw |-> Range(ports[to].listeners), before |-> Earlier(to)]
<1>1. /\ stack \in Stacks /\ ports \in [Ends -> Port]
      /\ sent \in [Messages -> Posting]
  BY DEF PInv, PortsTypeOK, Stacks
<1>2. /\ sent[m].state = "new" /\ sent' = [sent EXCEPT ![m] = new]
      /\ stack' = IF refused THEN stack
                  ELSE [stack EXCEPT ![g] = Push(@, PostFrame(m))]
      /\ UNCHANGED <<ports, fate, handled>>
  BY DEF PostMessage
<1>3. to \in Ends
  BY DEF Ends, Peer
<1>4. PostFrame(m) \in Frames
  BY DEF PostFrame, Frames, PostFrames
<1>5. /\ stack' \in Stacks /\ SameBut(stack, stack', g, k) /\ k \in Nat
      /\ k \notin DOMAIN stack[g]
      /\ k \in DOMAIN stack'[g] => stack'[g][k] = PostFrame(m) /\ ~refused
  <2>1. CASE refused
    BY <1>1, <1>2, <2>1, Unchanged
  <2>2. CASE ~refused
    <3>1. Becomes(stack, stack', g, Push(stack[g], PostFrame(m)))
      BY <1>1, <1>2, <2>2 DEF Becomes, Stacks
    <3> QED
      BY <1>1, <1>4, <2>2, <3>1, Pushed DEF Push
  <2> QED
    BY <2>1, <2>2
<1> HIDE DEF k
<1>6. new \in Posting
  <2>1. Range(ports[to].listeners) \subseteq Listeners
    <3>1. ports[to].listeners \in Seq(Listeners)
      BY <1>1, <1>3 DEF Port
    <3> QED
      BY <3>1, LenProperties, ElementOfSeq DEF Range
  <2>2. ports[to].closed \in BOOLEAN /\ refused \in BOOLEAN
    BY <1>1, <1>3 DEF Port
  <2>3. Earlier(to) \subseteq Messages
    BY DEF Earlier
  <2> HIDE DEF to, refused
  <2> QED
    BY <1>3, <2>1, <2>2, <2>3 DEF Posting, to
<1>7. /\ sent' \in [Messages -> Posting] /\ sent'[m] = new
      /\ \A n \in Messages : n # m => sent'[n] = sent[n]
  BY <1>1, <1>2, <1>6
<1>8. PortsTypeOK /\ PortsTypeOK'
  BY <1>2, <1>5, <1>7 DEF PInv, PortsTypeOK, Stacks
<1>9. PortsGrow /\ PortsOK'
  BY <1>2 DEF PInv, PortsGrow, PortsOK
<1>10. Keeps({m})
  BY <1>2, <1>7, <1>8 DEF Keeps, PortsTypeOK
<1>11. \A h \in Goroutines : \A i \in DOMAIN stack[h] : m \notin Carried(stack[h][i])
  <2> SUFFICES ASSUME NEW h \in Goroutines, NEW i \in DOMAIN stack[h],
                      m \in Carried(stack[h][i])
               PROVE  FALSE
    OBVIOUS
  <2>1. sent[m].state \in {"posting", "returned"}
    BY InFrame, CarriedFacts
  <2> QED
    BY <1>2, <2>1
<1>12. /\ fate[m] = "none" /\ \A l \in Listeners : handled[<<m, l>>] = 0
  BY <1>2 DEF PInv, MessagesOK, MessageOK
<1>13. Carried(PostFrame(m)) = {m}
  BY DEF Carried, PostFrame
<1>14. ~refused => FrameOK(PostFrame(m), sent', fate', handled')
  BY <1>2, <1>7, <1>12 DEF FrameOK, PostOK, PostFrame
<1>15. FramesOK' /\ OnePlace'
  BY <1>5, <1>8, <1>10, <1>11, <1>13, <1>14, FramesStep DEF PInv
<1>16. QueuesOK'
  <2>1. \A f \in Ends : \A j \in DOMAIN ports'[f].queue : ports'[f].queue[j] # m
    BY <1>2, InQueue DEF WaitingOK
  <2>2. \A f \in Ends : \A j \in DOMAIN ports'[f].queue :
          /\ ports'[f].queue[j] \notin {m}
          /\ k \in DOMAIN stack'[g] =>
               ports'[f].queue[j] \notin Carried(stack'[g][k])
    BY <1>5, <1>13, <2>1
  <2>3. QueuesOK /\ \A f \in Ends : ports'[f].queue = ports[f].queue
    BY <1>2 DEF PInv
  <2> QED
    BY <1>5, <1>8, <1>10, <2>2, <2>3, QueuesStep
<1>17. MessageOK(m, ports', sent', fate', handled')
  <2>1. \A n \in Earlier(to) :
          /\ n # m /\ n \in Messages /\ sent'[n] = sent[n]
          /\ sent[n].state = "returned" /\ sent[n].to = to
          /\ fate[n] = "dropped" => ports[to].closed
    <3> TAKE n \in Earlier(to)
    <3>1. n \in Messages /\ sent[n].state = "returned" /\ sent[n].to = to
      BY DEF Earlier
    <3>2. MessageOK(n, ports, sent, fate, handled)
      BY <3>1 DEF PInv, MessagesOK
    <3> QED
      BY <1>2, <1>7, <3>1, <3>2 DEF MessageOK
  <2> HIDE DEF to
  <2>2. /\ new.to = to /\ new.late = (refused \/ ports[to].closed)
        /\ new.saw = Range(ports[to].listeners) /\ new.before = Earlier(to)
        /\ new.state = IF refused THEN "refused" ELSE "posting"
    OBVIOUS
  <2> HIDE DEF new
  <2>3. \A l \in Listeners : handled[<<m, l>>] <= 1
    BY <1>12
  <2>4. /\ sent'[m] = new /\ ports' = ports /\ handled' = handled
        /\ fate'[m] = "none"
    BY <1>2, <1>7, <1>12
  <2>5. \A n \in new.before :
          /\ sent'[n].state = "returned" /\ sent'[n].to = new.to
          /\ fate'[n] = "dropped" => new.late
    <3> TAKE n \in new.before
    <3>1. n \in Earlier(to)
      BY <2>2
    <3>2. /\ sent'[n] = sent[n] /\ fate'[n] = fate[n]
          /\ sent[n].state = "returned" /\ sent[n].to = to
          /\ fate[n] = "dropped" => ports[to].closed
      BY <1>2, <2>1, <3>1
    <3> QED
      BY <2>2, <3>2
  <2>6. /\ new.to = to /\ new.state \in {"refused", "posting"}
        /\ new.saw = Range(ports[to].listeners)
    BY <2>2
  <2>7. new.late /\ new.state = "posting" => ports[to].closed
    BY <2>2
  <2> QED
    BY <1>12, <2>3, <2>4, <2>5, <2>6, <2>7 DEF MessageOK
<1>18. MessagesOK'
  BY <1>8, <1>9, <1>10, <1>17, MessagesStep DEF PInv
<1>19. DeliveryOK(m, ports', sent', fate', stack', handled')
  BY <1>2, <1>12 DEF DeliveryOK, Queued, Direct, Ordered
<1>20. \A n \in Messages, l \in Listeners :
         Reached(n, l, stack, handled) => Reached(n, l, stack', handled')
  BY <1>5, <1>8, <1>10, ReachedStep
<1>21. DeliveriesOK'
  BY <1>2, <1>8, <1>9, <1>10, <1>19, <1>20, DeliveriesStep DEF PInv
<1> QED
  BY <1>8, <1>9, <1>15, <1>16, <1>18, <1>21 DEF PInv

\* No call is made twice, if no message and no listener is there twice.
LEMMA CallsOnce ==
  ASSUME NEW ms \in Seq(Messages), NEW ls \in Seq(Listeners),
         \A i, j \in DOMAIN ms : ms[i] = ms[j] => i = j,
         \A i, j \in DOMAIN ls : ls[i] = ls[j] => i = j
  PROVE  LET cs == Calls(ms, ls)
         IN  \A p, q \in DOMAIN cs : cs[p] = cs[q] => p = q
<1> DEFINE cs == Calls(ms, ls)
<1>1. \A i \in DOMAIN cs : \E a \in 1 .. Len(ms), b \in 1 .. Len(ls) :
        i = Place(a, b, Len(ls)) /\ cs[i] = <<ms[a], ls[b]>>
  BY CallsPlaced
<1> HIDE DEF cs
<1>2. DOMAIN ms = 1 .. Len(ms) /\ DOMAIN ls = 1 .. Len(ls)
  BY LenProperties
<1>3. ASSUME NEW p \in DOMAIN cs, NEW q \in DOMAIN cs, cs[p] = cs[q]
      PROVE  p = q
  <2>1. PICK a \in 1 .. Len(ms), b \in 1 .. Len(ls) :
          p = Place(a, b, Len(ls)) /\ cs[p] = <<ms[a], ls[b]>>
    BY <1>1
  <2>2. PICK c \in 1 .. Len(ms), d \in 1 .. Len(ls) :
          q = Place(c, d, Len(ls)) /\ cs[q] = <<ms[c], ls[d]>>
    BY <1>1
  <2>3. ms[a] = ms[c] /\ ls[b] = ls[d]
    BY <1>3, <2>1, <2>2
  <2>4. a = c /\ b = d
    BY <1>2, <2>3
  <2> QED
    BY <2>1, <2>2, <2>4
<1> QED
  BY <1>3 DEF cs

\* What the frame of a Start is right about.
LEMMA StartFrame ==
  ASSUME PInv, NEW e \in Ends
  PROVE  LET cs == Calls(ports[e].queue, ports[e].listeners)
             f  == CallFrame("start", cs)
         IN  /\ f \in Frames
             /\ cs # <<>> => FrameOK(f, sent, fate, handled)
             /\ \A m \in Carried(f) :
                  \E j \in DOMAIN ports[e].queue : ports[e].queue[j] = m
             /\ \A j \in DOMAIN ports[e].queue :
                  \A l \in Range(ports[e].listeners) :
                    cs # <<>> /\ Taken(f, ports[e].queue[j], l)
<1> DEFINE q == ports[e].queue
           ls == ports[e].listeners
           cs == Calls(q, ls)
           n == Len(ls)
           f == CallFrame("start", cs)
<1>1. q \in Seq(Messages) /\ ls \in Seq(Listeners)
  BY DEF PInv, PortsTypeOK, Port
<1>2. /\ DOMAIN q = 1 .. Len(q) /\ DOMAIN ls = 1 .. n
      /\ Len(q) \in Nat /\ n \in Nat
      /\ \A b \in 1 .. n : ls[b] \in Listeners
  BY <1>1, LenProperties, ElementOfSeq
<1>3. \A a \in 1 .. Len(q) :
        /\ q[a] \in Messages /\ WaitingOK(q[a], e, sent, fate, stack, handled)
        /\ \A m \in sent[q[a]].before : \E i \in 1 .. (a - 1) : q[i] = m
  BY <1>2, InQueue DEF PInv, QueuesOK
<1>4. /\ \A i, j \in DOMAIN q : q[i] = q[j] => i = j
      /\ \A i, j \in DOMAIN ls : ls[i] = ls[j] => i = j
  BY DEF PInv, QueuesOK, PortsOK
<1> HIDE DEF q, ls
<1>5. \A i, j \in DOMAIN cs : cs[i] = cs[j] => i = j
  BY <1>1, <1>4, CallsOnce
<1>6. cs \in Seq(Pairs)
  BY <1>1, CallsPlaced
<1>7. \A i \in DOMAIN cs : \E a \in 1 .. Len(q), b \in 1 .. n :
        i = Place(a, b, n) /\ cs[i] = <<q[a], ls[b]>>
  BY <1>1, CallsPlaced
<1>8. \A a \in 1 .. Len(q), b \in 1 .. n :
        Place(a, b, n) \in DOMAIN cs /\ cs[Place(a, b, n)] = <<q[a], ls[b]>>
  BY <1>1, CallsPlaced
<1>9. DOMAIN cs \subseteq Nat \ {0} /\ DOMAIN <<>> = {}
  BY <1>6, LenProperties, EmptySeq
<1> HIDE DEF cs, n
<1>10. /\ f.op = "start" /\ f.calls = cs /\ f.inside = FALSE
       /\ f \in CallFrames /\ f \in Frames
  BY <1>6 DEF CallFrame, CallFrames, Frames
<1> HIDE DEF f
<1>11. ASSUME NEW i \in DOMAIN cs
       PROVE  /\ handled[cs[i]] = 0
              /\ sent[cs[i][1]].state = "returned" /\ fate[cs[i][1]] = "queued"
              /\ \A m \in sent[cs[i][1]].before :
                   \E p \in 1 .. (i - 1) : cs[p] = <<m, cs[i][2]>>
              /\ \E a \in DOMAIN q : q[a] = cs[i][1]
  <2>1. PICK a \in 1 .. Len(q), b \in 1 .. n :
          i = Place(a, b, n) /\ cs[i] = <<q[a], ls[b]>>
    BY <1>7
  <2>2. /\ WaitingOK(q[a], e, sent, fate, stack, handled) /\ ls[b] \in Listeners
        /\ cs[i][1] = q[a] /\ cs[i][2] = ls[b]
    BY <1>2, <1>3, <2>1
  <2>3. /\ handled[cs[i]] = 0
        /\ sent[cs[i][1]].state = "returned" /\ fate[cs[i][1]] = "queued"
    BY <2>1, <2>2 DEF WaitingOK
  <2>4. ASSUME NEW m \in sent[q[a]].before
        PROVE  \E p \in 1 .. (i - 1) : cs[p] = <<m, ls[b]>>
    <3>1. PICK c \in 1 .. (a - 1) : q[c] = m
      BY <1>3
    <3>2. c \in 1 .. Len(q) /\ c < a /\ c \in Nat \ {0} /\ a \in Nat
      BY <1>2
    <3> DEFINE p == Place(c, b, n)
    <3>3. p \in DOMAIN cs /\ cs[p] = <<m, ls[b]>>
      BY <1>8, <3>1, <3>2
    <3>4. p < i
      BY <1>2, <2>1, <3>2, PlaceOrder
    <3> HIDE DEF p
    <3>5. p \in 1 .. (i - 1)
      BY <1>9, <3>3, <3>4
    <3> QED
      BY <3>3, <3>5
  <2>5. \E c \in DOMAIN q : q[c] = cs[i][1]
    BY <1>2, <2>2
  <2> QED
    BY <2>2, <2>3, <2>4, <2>5
<1>12. ASSUME cs # <<>>
       PROVE  FrameOK(f, sent, fate, handled)
  <2>1. CallOK(f, handled)
    BY <1>5, <1>10, <1>11, <1>12, <1>9 DEF CallOK
  <2>2. StartOK(f, sent, fate, handled)
    BY <1>10, <1>11 DEF StartOK
  <2> QED
    BY <1>10, <2>1, <2>2 DEF FrameOK
<1>13. \A m \in Carried(f) : \E j \in DOMAIN q : q[j] = m
  BY <1>10, <1>11, FrameFacts
<1>14. ASSUME NEW j \in DOMAIN q, NEW l \in Range(ls)
       PROVE  cs # <<>> /\ Taken(f, q[j], l)
  <2>1. PICK b \in 1 .. n : ls[b] = l
    BY <1>2 DEF Range
  <2>2. Place(j, b, n) \in DOMAIN cs /\ cs[Place(j, b, n)] = <<q[j], l>>
    BY <1>2, <1>8, <2>1
  <2> QED
    BY <1>9, <1>10, <2>2 DEF Taken
<1> QED
  BY <1>10, <1>12, <1>13, <1>14 DEF f, cs, q, ls

LEMMA PInvStart ==
  ASSUME PInv, NEW g \in Goroutines, NEW e \in Ends, Start(g, e)
  PROVE  PInv'
<1> DEFINE q == ports[e].queue
           ls == ports[e].listeners
           cs == Calls(q, ls)
           f == CallFrame("start", cs)
           k == IF cs = <<>> THEN 0 ELSE Len(stack[g]) + 1
<1>1. /\ stack \in Stacks /\ ports \in [Ends -> Port]
      /\ sent \in [Messages -> Posting]
  BY DEF PInv, PortsTypeOK, Stacks
<1>2. /\ ~ports[e].closed /\ ~ports[e].started
      /\ ports' = [ports EXCEPT ![e].started = TRUE, ![e].queue = <<>>]
      /\ UNCHANGED <<sent, fate, handled>>
  BY DEF Start
<1>3. cs = <<>> => stack' = stack
  BY <1>1 DEF Start, PushCalls, Stacks
<1>4. cs # <<>> => Becomes(stack, stack', g, Push(stack[g], f))
  BY <1>1 DEF Start, PushCalls, Becomes, Stacks
<1>5. /\ f \in Frames
      /\ cs # <<>> => FrameOK(f, sent, fate, handled)
      /\ \A m \in Carried(f) : \E j \in DOMAIN q : q[j] = m
      /\ \A j \in DOMAIN q : \A l \in Range(ls) : cs # <<>> /\ Taken(f, q[j], l)
  BY StartFrame
<1> HIDE DEF cs, f
<1>6. /\ stack' \in Stacks /\ SameBut(stack, stack', g, k) /\ k \in Nat
      /\ k \notin DOMAIN stack[g]
      /\ k \in DOMAIN stack'[g] => stack'[g][k] = f /\ cs # <<>>
      /\ cs # <<>> => k \in DOMAIN stack'[g]
  <2>1. CASE cs = <<>>
    BY <1>1, <1>3, <2>1, Unchanged
  <2>2. CASE cs # <<>>
    BY <1>1, <1>4, <1>5, <2>2, Pushed DEF Push
  <2> QED
    BY <2>1, <2>2
<1> HIDE DEF k
<1>7. <<>> \in Seq(Messages)
  BY EmptySeq
<1>8. /\ ports' \in [Ends -> Port] /\ ports'[e].started
      /\ ports'[e].closed = ports[e].closed
      /\ ports'[e].queue = <<>> /\ ports'[e].listeners = ls
      /\ \A x \in Ends : x # e => ports'[x] = ports[x]
  BY <1>1, <1>2, <1>7 DEF Port
<1>9. PortsTypeOK /\ PortsTypeOK' /\ Keeps({})
  BY <1>2, <1>6, <1>8, NothingKept DEF PInv, PortsTypeOK, Stacks
<1>10. PortsGrow /\ PortsOK'
  BY <1>8 DEF PInv, PortsGrow, PortsOK
<1>11. \A m \in Carried(f) :
         /\ WaitingOK(m, e, sent, fate, stack, handled)
         /\ \A h \in Goroutines : \A i \in DOMAIN stack[h] : m \notin Carried(stack[h][i])
  BY <1>5, InQueue DEF WaitingOK
<1>12. FramesOK' /\ OnePlace'
  BY <1>2, <1>5, <1>6, <1>9, <1>11, FramesStep DEF PInv
<1>13. QueuesOK'
  <2>1. \A x \in Ends : ports'[x].queue = ports[x].queue \/ ports'[x].queue = <<>>
    BY <1>8
  <2>2. ASSUME NEW x \in Ends, NEW j \in DOMAIN ports'[x].queue
        PROVE  ports'[x].queue[j] \notin Carried(f)
    <3>1. x # e
      BY <1>7, <1>8, LenProperties, EmptySeq
    <3>2. WaitingOK(ports'[x].queue[j], x, sent, fate, stack, handled)
      BY <1>8, <3>1, InQueue
    <3> QED
      BY <1>11, <3>1, <3>2 DEF WaitingOK
  <2> QED
    BY <1>6, <1>9, <2>1, <2>2, QueuesStep DEF PInv
<1>14. MessagesOK'
  BY <1>9, <1>10, MessagesStep DEF PInv
<1>15. \A m \in Messages, l \in Listeners :
         Reached(m, l, stack, handled) => Reached(m, l, stack', handled')
  BY <1>6, <1>9, ReachedStep
<1>16. ASSUME NEW x \in Ends, NEW i \in DOMAIN ports[x].queue
       PROVE  LET m == ports[x].queue[i]
              IN  \/ \E j \in DOMAIN ports'[x].queue : ports'[x].queue[j] = m
                  \/ /\ ports'[x].started
                     /\ \A l \in sent[m].saw : Reached(m, l, stack', handled')
  <2>1. CASE x # e
    BY <1>8, <2>1
  <2>2. CASE x = e
    <3> DEFINE m == q[i]
    <3>1. m \in Messages /\ WaitingOK(m, e, sent, fate, stack, handled)
      BY <2>2, InQueue
    <3>2. MessageOK(m, ports, sent, fate, handled)
      BY <3>1 DEF PInv, MessagesOK
    <3>3. sent[m].saw \subseteq Range(ls)
      <4> HIDE DEF m, ls
      <4>1. sent[m].to = e /\ sent[m].state = "returned"
        BY <3>1 DEF WaitingOK
      <4> QED
        BY <1>2, <3>2, <4>1 DEF MessageOK, ls
    <3>4. \A l \in sent[m].saw : cs # <<>> /\ Taken(f, m, l)
      BY <1>5, <2>2, <3>3
    <3>5. \A l \in sent[m].saw : Reached(m, l, stack', handled')
      BY <1>6, <3>4 DEF Reached
    <3> QED
      BY <1>8, <2>2, <3>5
  <2> QED
    BY <2>1, <2>2
<1>17. DeliveriesOK'
  BY <1>9, <1>10, <1>15, <1>16, DeliveriesStep DEF PInv
<1> QED
  BY <1>9, <1>10, <1>12, <1>13, <1>14, <1>17 DEF PInv

\* What the frame of a direct delivery is right about: t is the fate after it.
LEMMA DeliverFrame ==
  ASSUME PInv, NEW m \in Messages, NEW t, t[m] = "direct",
         sent[m].state = "posting", ~ports[sent[m].to].closed,
         \A l \in Listeners : handled[<<m, l>>] = 0
  PROVE  LET ls == ports[sent[m].to].listeners
             cs == Calls(<<m>>, ls)
             f  == CallFrame("deliver", cs)
         IN  /\ f \in Frames
             /\ cs # <<>> => FrameOK(f, sent, t, handled) /\ Carried(f) = {m}
             /\ cs = <<>> => sent[m].saw = {}
<1> DEFINE e == sent[m].to
           ls == ports[e].listeners
           ms == <<m>>
           cs == Calls(ms, ls)
           n == Len(ls)
           f == CallFrame("deliver", cs)
<1>1. e \in Ends
  BY DEF PInv, PortsTypeOK, Posting
<1>2. ls \in Seq(Listeners)
  BY <1>1 DEF PInv, PortsTypeOK, Port
<1>3. /\ DOMAIN ls = 1 .. n /\ n \in Nat
      /\ \A b \in 1 .. n : ls[b] \in Listeners
  BY <1>2, LenProperties, ElementOfSeq
<1>4. ms \in Seq(Messages) /\ Len(ms) = 1 /\ DOMAIN ms = 1 .. 1 /\ ms[1] = m
  OBVIOUS
<1>5. MessageOK(m, ports, sent, fate, handled)
  BY DEF PInv, MessagesOK
<1>6. sent[m].saw \subseteq Range(ls)
  BY <1>5 DEF MessageOK
<1>7. /\ \A i, j \in DOMAIN ms : ms[i] = ms[j] => i = j
      /\ \A i, j \in DOMAIN ls : ls[i] = ls[j] => i = j
  BY <1>1, <1>4 DEF PInv, PortsOK
<1> HIDE DEF ls, ms
<1>8. \A i, j \in DOMAIN cs : cs[i] = cs[j] => i = j
  BY <1>2, <1>4, <1>7, CallsOnce
<1>9. cs \in Seq(Pairs)
  BY <1>2, <1>4, CallsPlaced
<1>10. \A i \in DOMAIN cs : \E b \in 1 .. n : cs[i] = <<m, ls[b]>>
  <2>1. \A i \in DOMAIN cs : \E a \in 1 .. Len(ms), b \in 1 .. n :
          i = Place(a, b, n) /\ cs[i] = <<ms[a], ls[b]>>
    BY <1>2, <1>4, CallsPlaced
  <2>2. \A a \in 1 .. Len(ms) : ms[a] = m
    BY <1>4
  <2> QED
    BY <2>1, <2>2
<1>11. \A b \in 1 .. n :
         Place(1, b, n) \in DOMAIN cs /\ cs[Place(1, b, n)] = <<m, ls[b]>>
  <2>1. \A a \in 1 .. Len(ms), b \in 1 .. n :
          Place(a, b, n) \in DOMAIN cs /\ cs[Place(a, b, n)] = <<ms[a], ls[b]>>
    BY <1>2, <1>4, CallsPlaced
  <2>2. 1 \in 1 .. Len(ms)
    BY <1>4
  <2> QED
    BY <1>4, <2>1, <2>2
<1>12. DOMAIN cs = 1 .. Len(cs) /\ DOMAIN <<>> = {}
  BY <1>9, LenProperties, EmptySeq
<1>13. cs # <<>> => 1 \in DOMAIN cs
  <2> SUFFICES ASSUME cs # <<>> PROVE 1 \in DOMAIN cs
    OBVIOUS
  <2> HIDE DEF cs
  <2>1. Len(cs) \in Nat \ {0}
    BY <1>9, EmptySeq
  <2> QED
    BY <1>12, <2>1
<1> HIDE DEF cs, n, e
<1>14. /\ f.op = "deliver" /\ f.calls = cs /\ f.inside = FALSE
       /\ f \in CallFrames /\ f \in Frames
  BY <1>9 DEF CallFrame, CallFrames, Frames
<1> HIDE DEF f
<1>15. \A i \in DOMAIN cs : cs[i][1] = m /\ handled[cs[i]] = 0
  BY <1>3, <1>10
<1>16. \A l \in sent[m].saw : \E i \in DOMAIN cs : cs[i] = <<m, l>>
  <2> SUFFICES ASSUME NEW l \in sent[m].saw
               PROVE  \E i \in DOMAIN cs : cs[i] = <<m, l>>
    OBVIOUS
  <2>1. PICK b \in 1 .. n : ls[b] = l
    BY <1>3, <1>6 DEF Range
  <2> QED
    BY <1>11, <2>1
<1>17. ASSUME cs # <<>>
       PROVE  FrameOK(f, sent, t, handled) /\ Carried(f) = {m}
  <2>1. CallOK(f, handled)
    BY <1>8, <1>12, <1>13, <1>14, <1>15, <1>17 DEF CallOK
  <2>2. DeliverOK(f, sent, t, handled)
    BY <1>13, <1>14, <1>15, <1>16, <1>17 DEF DeliverOK
  <2>3. Carried(f) = {m}
    BY <1>13, <1>14, <1>15, <1>17, FrameFacts
  <2> QED
    BY <1>14, <2>1, <2>2, <2>3 DEF FrameOK
<1>18. cs = <<>> => sent[m].saw = {}
  BY <1>12, <1>16
<1> QED
  BY <1>14, <1>17, <1>18 DEF f, cs, ls, ms, e

\* deliver in one critical section: what it decides on, and what follows.
LEMMA PInvDeliver ==
  ASSUME PInv, NEW g \in Goroutines, Deliver(g)
  PROVE  PInv'
<1> DEFINE k == Len(stack[g])
           m == stack[g][k].msg
           e == sent[m].to
           closed == ports[e].closed
           started == ports[e].started
           q == ports[e].queue
           cs == Calls(<<m>>, ports[e].listeners)
           f == CallFrame("deliver", cs)
           over == closed \/ ~started \/ cs = <<>>
           became == IF closed THEN "dropped"
                     ELSE IF ~started THEN "queued" ELSE "direct"
<1>1. /\ stack \in Stacks /\ ports \in [Ends -> Port]
      /\ sent \in [Messages -> Posting] /\ PortsTypeOK
      /\ fate \in [Messages -> {"none", "dropped", "queued", "direct"}]
      /\ handled \in [Pairs -> Nat]
  BY DEF PInv, PortsTypeOK, Stacks
<1>2. stack[g] # <<>> /\ stack[g][k].op = "post"
  BY DEF Deliver, Doing, Top
<1>3. k \in DOMAIN stack[g] /\ k \in Nat
  <2>1. stack[g] \in Seq(Frames) /\ DOMAIN stack[g] = 1 .. k
    BY <1>1, Levels
  <2>2. k \in Nat \ {0}
    BY <1>2, <2>1, EmptySeq
  <2> QED
    BY <2>1, <2>2
<1>4. /\ stack[g][k] \in Frames
      /\ FrameOK(stack[g][k], sent, fate, handled)
  BY <1>3, InFrame
<1>5. /\ m \in Messages /\ Carried(stack[g][k]) = {m}
      /\ sent[m].state = "posting" /\ fate[m] = "none"
  BY <1>2, <1>4, FrameFacts DEF FrameOK, PostOK
<1>6. MessageOK(m, ports, sent, fate, handled)
  BY <1>5 DEF PInv, MessagesOK
<1>7. \A l \in Listeners : handled[<<m, l>>] = 0
  BY <1>5, <1>6 DEF MessageOK
<1>8. e \in Ends /\ sent[m] \in Posting
  BY <1>1, <1>5 DEF Posting
<1>9. closed \in BOOLEAN /\ started \in BOOLEAN /\ q \in Seq(Messages)
  BY <1>1, <1>8 DEF Port
<1>10. /\ ports' = IF closed \/ started THEN ports
                   ELSE [ports EXCEPT ![e].queue = Append(@, m)]
       /\ fate' = [fate EXCEPT ![m] = became]
       /\ handled' = handled
  BY <1>9 DEF Deliver, Top, Dropped, Queues, Enqueue
<1>11. IF over
         THEN /\ stack' = [stack EXCEPT ![g] = Pop(@)]
              /\ sent' = [sent EXCEPT ![m].state = "returned"]
         ELSE stack' = [stack EXCEPT ![g] = Push(Pop(@), f)] /\ sent' = sent
  <2>1. CASE closed \/ ~started
    BY <2>1, <1>9 DEF Deliver, Top, Dropped, CallsNow, Finish
  <2>2. CASE ~closed /\ started
    BY <2>2, <1>9 DEF Deliver, Top, Dropped, CallsNow, Finish
  <2> QED
    BY <2>1, <2>2, <1>9
<1>12. fate'[m] = became /\ \A n \in Messages : n # m => fate'[n] = fate[n]
  BY <1>1, <1>5, <1>10
<1>13. ~closed /\ started =>
         /\ f \in Frames
         /\ cs # <<>> => FrameOK(f, sent, fate', handled) /\ Carried(f) = {m}
         /\ cs = <<>> => sent[m].saw = {}
  BY <1>5, <1>7, <1>12, DeliverFrame
<1> HIDE DEF cs, f
<1>14. /\ stack' \in Stacks /\ SameBut(stack, stack', g, k)
       /\ k \in DOMAIN stack'[g] => stack'[g][k] = f /\ ~over
  <2>1. CASE over
    <3>1. Becomes(stack, stack', g, Pop(stack[g]))
      BY <1>1, <1>11, <2>1 DEF Becomes, Stacks
    <3> QED
      BY <1>1, <1>2, <3>1, Popped DEF Pop, DropTop
  <2>2. CASE ~over
    <3>1. Becomes(stack, stack', g, Push(Pop(stack[g]), f))
      BY <1>1, <1>11, <2>2 DEF Becomes, Stacks
    <3>2. f \in Frames
      BY <1>13, <2>2
    <3>3. Becomes(stack, stack', g, Append(DropTop(stack[g]), f))
      BY <3>1 DEF Push, Pop, DropTop
    <3> HIDE DEF k
    <3>4. LET n == Len(stack[g])
          IN  /\ stack' \in Stacks /\ SameBut(stack, stack', g, n)
              /\ stack'[g][n] = f
      BY <1>1, <1>2, <3>2, <3>3, Replaced
    <3> QED
      BY <2>2, <3>4 DEF k
  <2> QED
    BY <2>1, <2>2
<1> HIDE DEF k
<1>15. /\ sent' \in [Messages -> Posting]
       /\ \A n \in Messages : n # m => sent'[n] = sent[n]
       /\ sent'[m].to = e /\ sent'[m].late = sent[m].late
       /\ sent'[m].saw = sent[m].saw /\ sent'[m].before = sent[m].before
       /\ sent'[m].state = IF over THEN "returned" ELSE "posting"
  <2> HIDE DEF m
  <2>1. CASE over
    BY <1>1, <1>5, <1>8, <1>11, <2>1 DEF Posting
  <2>2. CASE ~over
    BY <1>1, <1>5, <1>8, <1>11, <2>2 DEF Posting
  <2> QED
    BY <2>1, <2>2
<1> HIDE DEF m, over
<1>16. /\ Append(q, m) \in Seq(Messages)
       /\ Len(q) \in Nat /\ DOMAIN q = 1 .. Len(q)
       /\ DOMAIN Append(q, m) = 1 .. Len(q) + 1
       /\ \A i \in 1 .. Len(q) : Append(q, m)[i] = q[i]
       /\ Append(q, m)[Len(q) + 1] = m
  <2> HIDE DEF e, q
  <2>1. /\ Append(q, m) \in Seq(Messages) /\ Len(Append(q, m)) = Len(q) + 1
        /\ \A i \in 1 .. Len(q) : Append(q, m)[i] = q[i]
        /\ Append(q, m)[Len(q) + 1] = m
    BY <1>5, <1>9, AppendProperties
  <2>2. Len(q) \in Nat /\ DOMAIN q = 1 .. Len(q)
    BY <1>9, LenProperties
  <2>3. DOMAIN Append(q, m) = 1 .. Len(q) + 1
    BY <2>1, LenProperties
  <2> QED
    BY <2>1, <2>2, <2>3
<1>17. /\ ports' \in [Ends -> Port]
       /\ \A x \in Ends : /\ ports'[x].started = ports[x].started
                          /\ ports'[x].closed = ports[x].closed
                          /\ ports'[x].listeners = ports[x].listeners
                          /\ x # e => ports'[x].queue = ports[x].queue
       /\ ports'[e].queue = IF closed \/ started THEN q ELSE Append(q, m)
  <2>1. CASE closed \/ started
    BY <1>1, <1>10, <2>1
  <2>2. CASE ~closed /\ ~started
    <3> DEFINE p == [ports[e] EXCEPT !.queue = Append(@, m)]
    <3>1. ports[e] \in Port
      BY <1>1, <1>8
    <3>2. /\ p \in Port /\ p.started = ports[e].started
          /\ p.closed = ports[e].closed /\ p.listeners = ports[e].listeners
          /\ p.queue = Append(q, m)
      BY <1>16, <3>1 DEF Port
    <3>3. ports' = [ports EXCEPT ![e] = p]
      BY <1>10, <2>2
    <3> HIDE DEF p
    <3> QED
      BY <1>1, <1>8, <2>2, <3>2, <3>3
  <2> QED
    BY <1>9, <2>1, <2>2
<1>18. fate' \in [Messages -> {"none", "dropped", "queued", "direct"}]
  BY <1>1, <1>10
<1>19. PortsTypeOK'
  BY <1>1, <1>10, <1>14, <1>15, <1>17, <1>18 DEF PortsTypeOK, Stacks
<1>20. Keeps({m})
  BY <1>1, <1>5, <1>10, <1>12, <1>15 DEF Keeps
<1>21. PortsGrow
  BY <1>17 DEF PortsGrow
<1>22. \A x \in Ends : ports'[x].queue # <<>> => ~ports[x].started /\ ~ports[x].closed
  <2> TAKE x \in Ends
  <2>1. CASE x = e /\ ~closed /\ ~started
    BY <2>1
  <2>2. CASE ~(x = e /\ ~closed /\ ~started)
    <3>1. ports'[x].queue = ports[x].queue
      BY <1>17, <2>2
    <3> QED
      BY <3>1 DEF PInv, PortsOK
  <2> QED
    BY <2>1, <2>2
<1>23. PortsOK'
  BY <1>17, <1>22 DEF PInv, PortsOK
<1>24. \A h \in Goroutines : \A i \in DOMAIN stack[h] : h # g \/ i # k =>
         m \notin Carried(stack[h][i])
  BY <1>3, <1>5 DEF PInv, OnePlace
<1>25. ~over => FrameOK(f, sent', fate', handled') /\ Carried(f) = {m}
  BY <1>9, <1>10, <1>11, <1>13 DEF over
<1>26. FramesOK' /\ OnePlace'
  BY <1>1, <1>3, <1>14, <1>19, <1>20, <1>24, <1>25, FramesStep DEF PInv
<1>27. ASSUME NEW n \in sent[m].before
       PROVE  /\ n \in Messages /\ n # m
              /\ sent[n].state = "returned" /\ sent[n].to = e
              /\ sent'[n] = sent[n] /\ fate'[n] = fate[n]
              /\ ~closed => fate[n] \in {"queued", "direct"}
              /\ ~closed /\ ~started => \E i \in DOMAIN q : q[i] = n
              /\ ~closed /\ started =>
                   \A l \in sent[n].saw : Reached(n, l, stack, handled)
  <2>1. n \in Messages /\ sent[n].saw \subseteq Listeners
    BY <1>1, <1>8 DEF Posting
  <2>2. /\ sent[n].state = "returned" /\ sent[n].to = e
        /\ fate[n] = "dropped" => sent[m].late
        /\ sent[m].late => closed
    BY <1>5, <1>6 DEF MessageOK
  <2>3. /\ fate[n] # "none"
        /\ fate[n] = "direct" => started
        /\ Queued(n, ports, sent, fate, stack, handled)
        /\ Direct(n, sent, fate, stack, handled)
    BY <2>1, <2>2 DEF PInv, MessagesOK, MessageOK, DeliveriesOK, DeliveryOK
  <2>4. n # m /\ sent'[n] = sent[n] /\ fate'[n] = fate[n]
    BY <1>5, <1>12, <1>15, <2>1, <2>2
  <2>5. ~closed => fate[n] \in {"queued", "direct"}
    BY <1>1, <2>1, <2>2, <2>3
  <2>6. ~closed /\ fate[n] = "queued" =>
          \/ \E i \in DOMAIN q : q[i] = n
          \/ started /\ \A l \in sent[n].saw : Reached(n, l, stack, handled)
    BY <2>2, <2>3 DEF Queued
  <2>7. started => DOMAIN q = {}
    <3>1. started => q = <<>>
      BY <1>8 DEF PInv, PortsOK
    <3> QED
      BY <3>1
  <2>8. fate[n] = "direct" =>
          \A l \in sent[n].saw : Reached(n, l, stack, handled)
    BY <2>2, <2>3 DEF Direct, Reached
  <2> QED
    BY <2>1, <2>2, <2>3, <2>4, <2>5, <2>6, <2>7, <2>8
<1>28. ASSUME NEW x \in Ends, NEW n \in Messages,
              WaitingOK(n, x, sent, fate, stack, handled)
       PROVE  /\ WaitingOK(n, x, sent', fate', stack', handled')
              /\ n # m /\ sent'[n] = sent[n]
  <2>1. n # m
    BY <1>5, <1>28 DEF WaitingOK
  <2>2. k \in DOMAIN stack'[g] => n \notin Carried(stack'[g][k])
    BY <1>14, <1>25, <2>1
  <2>3. k \in Nat
    BY <1>3
  <2> QED
    BY <1>14, <1>15, <1>19, <1>20, <1>28, <2>1, <2>2, <2>3, WaitingStep
<1>29. QueuesOK'
  <2> SUFFICES ASSUME NEW x \in Ends, NEW j \in DOMAIN ports'[x].queue
               PROVE  LET r == ports'[x].queue IN
                      /\ WaitingOK(r[j], x, sent', fate', stack', handled')
                      /\ \A i \in DOMAIN r : r[i] = r[j] => i = j
                      /\ \A n \in sent'[r[j]].before : \E i \in 1 .. (j - 1) : r[i] = n
    BY DEF QueuesOK
  <2> DEFINE r == ports[x].queue
  <2>1. \A i \in DOMAIN r :
          /\ r[i] \in Messages
          /\ WaitingOK(r[i], x, sent', fate', stack', handled')
          /\ r[i] # m /\ sent'[r[i]] = sent[r[i]]
          /\ \A a \in DOMAIN r : r[a] = r[i] => a = i
          /\ \A n \in sent[r[i]].before : \E a \in 1 .. (i - 1) : r[a] = n
    BY <1>28, InQueue DEF PInv, QueuesOK
  <2>2. CASE ~(x = e /\ ~closed /\ ~started)
    <3>1. ports'[x].queue = r
      BY <1>17, <2>2
    <3>2. j \in DOMAIN r
      BY <3>1
    <3>3. sent'[r[j]].before = sent[r[j]].before
      BY <2>1, <3>2
    <3> HIDE DEF r
    <3> QED
      BY <2>1, <3>1, <3>2, <3>3
  <2>3. CASE x = e /\ ~closed /\ ~started
    <3>1. ports'[x].queue = Append(q, m) /\ r = q
      BY <1>17, <2>3
    <3>2. \A n \in sent[m].before : \E i \in DOMAIN q : q[i] = n
      BY <1>27, <2>3
    <3>3. WaitingOK(m, x, sent', fate', stack', handled')
      <4>1. over
        BY <2>3 DEF over
      <4>2. /\ sent'[m].to = x /\ sent'[m].state = "returned"
            /\ fate'[m] = "queued"
            /\ \A l \in Listeners : handled'[<<m, l>>] = 0
        BY <1>7, <1>10, <1>12, <1>15, <2>3, <4>1
      <4>3. ASSUME NEW h \in Goroutines, NEW i \in DOMAIN stack'[h]
            PROVE  m \notin Carried(stack'[h][i])
        <5>1. h # g \/ i # k
          BY <1>14, <4>1
        <5>2. i \in Nat
          BY <1>14, Levels
        <5>3. i \in DOMAIN stack[h] /\ stack'[h][i] = stack[h][i]
          BY <1>14, <5>1, <5>2 DEF SameBut
        <5> QED
          BY <1>24, <5>1, <5>3
      <4> QED
        BY <4>2, <4>3 DEF WaitingOK
    <3> HIDE DEF q, r
    <3>4. CASE j \in 1 .. Len(q)
      <4>1. /\ j \in DOMAIN r /\ Append(q, m)[j] = q[j] /\ q = r
            /\ j \in DOMAIN q /\ q[j] # m
            /\ WaitingOK(q[j], x, sent', fate', stack', handled')
            /\ sent'[q[j]] = sent[q[j]]
        BY <1>16, <2>1, <3>1, <3>4
      <4>2. ASSUME NEW i \in DOMAIN Append(q, m), Append(q, m)[i] = Append(q, m)[j]
            PROVE  i = j
        <5>1. CASE i \in 1 .. Len(q)
          BY <1>16, <2>1, <4>1, <4>2, <5>1
        <5>2. CASE i = Len(q) + 1
          BY <1>16, <4>1, <4>2, <5>2
        <5>3. i \in 1 .. Len(q) \/ i = Len(q) + 1
          BY <1>16
        <5> QED
          BY <5>1, <5>2, <5>3
      <4>3. ASSUME NEW n \in sent[q[j]].before
            PROVE  \E i \in 1 .. (j - 1) : Append(q, m)[i] = n
        <5>1. PICK i \in 1 .. (j - 1) : q[i] = n
          BY <2>1, <4>1
        <5>2. i \in 1 .. Len(q)
          BY <1>16, <3>4
        <5> QED
          BY <1>16, <5>1, <5>2
      <4> QED
        BY <3>1, <4>1, <4>2, <4>3
    <3>5. CASE j = Len(q) + 1
      <4>1. Append(q, m)[j] = m /\ j - 1 = Len(q)
        BY <1>16, <3>5
      <4>2. ASSUME NEW i \in DOMAIN Append(q, m), Append(q, m)[i] = m
            PROVE  i = j
        <5>1. CASE i \in 1 .. Len(q)
          BY <1>16, <2>1, <3>1, <4>2, <5>1
        <5>2. i \in 1 .. Len(q) \/ i = Len(q) + 1
          BY <1>16
        <5> QED
          BY <3>5, <5>1, <5>2
      <4>3. ASSUME NEW n \in sent'[m].before
            PROVE  \E i \in 1 .. (j - 1) : Append(q, m)[i] = n
        <5>1. PICK i \in 1 .. Len(q) : q[i] = n
          BY <1>15, <1>16, <3>2
        <5> QED
          BY <1>16, <4>1, <5>1
      <4> QED
        BY <3>1, <3>3, <4>1, <4>2, <4>3
    <3>6. j \in 1 .. Len(q) \/ j = Len(q) + 1
      BY <1>16, <3>1
    <3> QED
      BY <3>4, <3>5, <3>6
  <2> QED
    BY <2>2, <2>3
<1>30. MessageOK(m, ports', sent', fate', handled')
  <2>1. /\ ports'[e].started = started /\ ports'[e].closed = closed
        /\ ports'[e].listeners = ports[e].listeners
    BY <1>8, <1>17
  <2>2. /\ sent[m].late => closed
        /\ ~closed => sent[m].saw \subseteq Range(ports[e].listeners)
    BY <1>5, <1>6 DEF MessageOK
  <2>3. \A n \in sent[m].before :
          /\ sent'[n].state = "returned" /\ sent'[n].to = e
          /\ fate'[n] = "dropped" => sent[m].late
    BY <1>6, <1>27 DEF MessageOK
  <2>4. sent'[m].state \in {"posting", "returned"}
    BY <1>15
  <2>5. \A l \in Listeners : handled'[<<m, l>>] = 0
    BY <1>7, <1>10
  <2>6. /\ became = "direct" => started
        /\ became = "dropped" => closed
        /\ closed => became = "dropped"
        /\ became # "none"
    BY <1>9
  <2> HIDE DEF e, became, closed, started
  <2> QED
    BY <1>12, <1>15, <2>1, <2>2, <2>3, <2>4, <2>5, <2>6 DEF MessageOK
<1>31. MessagesOK'
  BY <1>1, <1>19, <1>20, <1>21, <1>30, MessagesStep DEF PInv
<1>32. \A n \in Messages, l \in Listeners :
         Reached(n, l, stack, handled) => Reached(n, l, stack', handled')
  BY <1>1, <1>2, <1>3, <1>14, <1>19, <1>20, ReachedStep DEF Taken
<1>33. DeliveryOK(m, ports', sent', fate', stack', handled')
  <2>1. Queued(m, ports', sent', fate', stack', handled')
    <3> SUFFICES ASSUME fate'[m] = "queued"
                 PROVE  \E i \in DOMAIN ports'[e].queue : ports'[e].queue[i] = m
      BY <1>15 DEF Queued
    <3>1. ports'[e].queue = Append(q, m)
      BY <1>9, <1>12, <1>17
    <3>2. Len(q) + 1 \in DOMAIN Append(q, m)
      BY <1>16
    <3> QED
      BY <1>16, <3>1, <3>2
  <2>2. Direct(m, sent', fate', stack', handled')
    <3> SUFFICES ASSUME fate'[m] = "direct"
                 PROVE  /\ over => sent[m].saw = {}
                        /\ \A n \in sent[m].before : \A l \in sent'[n].saw :
                             Reached(n, l, stack', handled')
      BY <1>15 DEF Direct
    <3>1. ~closed /\ started
      BY <1>9, <1>12
    <3>2. over => sent[m].saw = {}
      BY <1>13, <3>1 DEF over
    <3>3. ASSUME NEW n \in sent[m].before, NEW l \in sent'[n].saw
          PROVE  Reached(n, l, stack', handled')
      <4>1. n \in Messages /\ l \in sent[n].saw /\ Reached(n, l, stack, handled)
        BY <1>27, <3>1
      <4>2. l \in Listeners
        BY <1>1, <4>1 DEF Posting
      <4> QED
        BY <1>32, <4>1, <4>2
    <3> QED
      BY <3>2, <3>3
  <2>3. Ordered(m, sent', fate', handled')
    BY <1>7, <1>10 DEF Ordered
  <2> QED
    BY <2>1, <2>2, <2>3 DEF DeliveryOK
<1>34. DeliveriesOK'
  <2>1. ASSUME NEW x \in Ends, NEW i \in DOMAIN ports[x].queue
        PROVE  \E j \in DOMAIN ports'[x].queue :
                 ports'[x].queue[j] = ports[x].queue[i]
    <3>1. CASE ~(x = e /\ ~closed /\ ~started)
      BY <1>17, <3>1
    <3>2. CASE x = e /\ ~closed /\ ~started
      <4>1. ports'[x].queue = Append(q, m) /\ i \in 1 .. Len(q)
        BY <1>16, <1>17, <3>2
      <4>2. i \in DOMAIN Append(q, m)
        BY <1>16, <4>1
      <4> QED
        BY <1>16, <3>2, <4>1, <4>2
    <3> QED
      BY <3>1, <3>2
  <2> QED
    BY <1>1, <1>19, <1>20, <1>21, <1>32, <1>33, <2>1, DeliveriesStep DEF PInv
<1> QED
  BY <1>19, <1>23, <1>26, <1>29, <1>31, <1>34 DEF PInv

\* The frame of a goroutine that calls listeners.
LEMMA CallingFrame ==
  ASSUME PInv, NEW g \in Goroutines, Calling(g)
  PROVE  LET k == Len(stack[g])
             f == stack[g][k]
         IN  /\ stack[g] # <<>> /\ k \in DOMAIN stack[g] /\ k \in Nat
             /\ Top(g) = f /\ f \in CallFrames /\ f \in Frames
             /\ f.op \in {"deliver", "start"}
             /\ FrameOK(f, sent, fate, handled) /\ CallOK(f, handled)
             /\ f.calls \in Seq(Pairs) /\ f.calls # <<>>
             /\ DOMAIN f.calls = 1 .. Len(f.calls) /\ 1 \in DOMAIN f.calls
             /\ Len(f.calls) \in Nat \ {0}
             /\ \A h \in Goroutines : \A i \in DOMAIN stack[h] : h # g \/ i # k =>
                  Carried(stack[h][i]) \cap Carried(f) = {}
<1> DEFINE k == Len(stack[g])
           f == stack[g][k]
<1>1. stack[g] # <<>> /\ Top(g) = f /\ f.op \in {"deliver", "start"}
  BY DEF Calling, Doing, Top
<1>2. k \in DOMAIN stack[g] /\ k \in Nat
  <2>1. stack \in Stacks
    BY DEF PInv, PortsTypeOK, Stacks
  <2>2. stack[g] \in Seq(Frames) /\ DOMAIN stack[g] = 1 .. k
    BY <2>1, Levels
  <2>3. k \in Nat \ {0}
    BY <1>1, <2>2, EmptySeq
  <2> QED
    BY <2>2, <2>3
<1>3. f \in Frames /\ FrameOK(f, sent, fate, handled)
  BY <1>2, InFrame
<1>4. \A h \in Goroutines : \A i \in DOMAIN stack[h] : h # g \/ i # k =>
        Carried(stack[h][i]) \cap Carried(f) = {}
  <2>1. OnePlace
    BY DEF PInv
  <2> HIDE DEF k
  <2> SUFFICES ASSUME NEW h \in Goroutines, NEW i \in DOMAIN stack[h],
                      Carried(stack[h][i]) \cap Carried(stack[g][k]) # {}
               PROVE  h = g /\ i = k
    OBVIOUS
  <2> QED
    BY <1>2, <2>1 DEF OnePlace
<1> HIDE DEF k, f
<1>5. CallOK(f, handled) /\ f.calls # <<>>
  BY <1>1, <1>3 DEF FrameOK, CallOK
<1>6. /\ f \in CallFrames /\ f.calls \in Seq(Pairs)
      /\ DOMAIN f.calls = 1 .. Len(f.calls)
  BY <1>1, <1>3, FrameFacts
<1>7. Len(f.calls) \in Nat \ {0}
  BY <1>5, <1>6, EmptySeq
<1>8. 1 \in DOMAIN f.calls
  BY <1>6, <1>7
<1> QED
  BY <1>1, <1>2, <1>3, <1>4, <1>5, <1>6, <1>7, <1>8 DEF f, k

LEMMA PInvCallListener ==
  ASSUME PInv, NEW g \in Goroutines, CallListener(g)
  PROVE  PInv'
<1> DEFINE k == Len(stack[g])
           f == stack[g][k]
           cs == f.calls
           c == cs[1]
           m == c[1]
           l == c[2]
           f2 == [f EXCEPT !.inside = TRUE]
<1>1. /\ stack \in Stacks /\ handled \in [Pairs -> Nat]
      /\ sent \in [Messages -> Posting] /\ PortsTypeOK
  BY DEF PInv, PortsTypeOK, Stacks
<1>2. Calling(g)
  BY DEF CallListener
<1>3. /\ stack[g] # <<>> /\ k \in DOMAIN stack[g] /\ k \in Nat
      /\ Top(g) = f /\ f \in CallFrames /\ f \in Frames
      /\ f.op \in {"deliver", "start"}
      /\ FrameOK(f, sent, fate, handled) /\ CallOK(f, handled)
      /\ cs \in Seq(Pairs) /\ cs # <<>>
      /\ DOMAIN cs = 1 .. Len(cs) /\ 1 \in DOMAIN cs
      /\ \A h \in Goroutines : \A i \in DOMAIN stack[h] : h # g \/ i # k =>
           Carried(stack[h][i]) \cap Carried(f) = {}
  BY <1>2, CallingFrame
<1>4. /\ ~f.inside /\ handled' = [handled EXCEPT ![Head(cs)] = @ + 1]
      /\ UNCHANGED <<ports, sent, fate>>
  BY <1>3 DEF CallListener
<1>5. /\ m \in Messages /\ l \in Listeners /\ c = <<m, l>> /\ c \in Pairs
      /\ m \in Carried(f) /\ Head(cs) = c
  BY <1>3, FrameFacts
<1>6. /\ handled' \in [Pairs -> Nat] /\ handled[c] = 0 /\ handled'[c] = 1
      /\ \A d \in Pairs : d # c => handled'[d] = handled[d]
  <2>1. handled[c] = 0
    BY <1>3, <1>4 DEF CallOK
  <2> HIDE DEF c
  <2> QED
    BY <1>1, <1>4, <1>5, <2>1
<1>7. /\ stack' \in Stacks /\ SameBut(stack, stack', g, k)
      /\ k \in DOMAIN stack'[g] /\ f2 \in CallFrames /\ stack'[g][k] = f2
  <2>1. Becomes(stack, stack', g, [stack[g] EXCEPT ![k] = [@ EXCEPT !.inside = TRUE]])
    BY <1>1 DEF CallListener, Becomes, Stacks
  <2>2. stack \in Stacks
    BY <1>1
  <2>3. stack[g] # <<>> /\ stack[g][k] \in CallFrames
    BY <1>3
  <2> QED
    BY <2>1, <2>2, <2>3, Entered
<1>8. /\ f2.op = f.op /\ f2.calls = cs /\ f2.inside = TRUE /\ f2 \in Frames
      /\ Carried(f2) = Carried(f)
  <2> HIDE DEF f, cs, k
  <2>1. f2.op = f.op /\ f2.calls = f.calls /\ f2.inside = TRUE
    BY <1>3 DEF CallFrames
  <2> HIDE DEF f2
  <2>2. f2 \in Frames
    BY <1>7 DEF Frames
  <2>3. Carried(f2) = Carried(f)
    BY <1>3, <2>1 DEF Carried
  <2> QED
    BY <2>1, <2>2, <2>3 DEF cs
<1> HIDE DEF f2, k, c, l, m
<1>9. PortsTypeOK'
  BY <1>1, <1>4, <1>6, <1>7 DEF PortsTypeOK, Stacks
<1>10. \A d \in Pairs : handled'[d] >= handled[d] /\ (handled[d] > 0 => handled'[d] > 0)
  <2> TAKE d \in Pairs
  <2>1. handled[d] \in Nat
    BY <1>1
  <2>2. CASE d = c
    BY <1>6, <2>2
  <2>3. CASE d # c
    BY <1>6, <2>1, <2>3
  <2> QED
    BY <2>2, <2>3
<1>11. Keeps({m})
  <2>1. \A n \in Messages \ {m} : \A x \in Listeners :
          handled'[<<n, x>>] = handled[<<n, x>>]
    BY <1>5, <1>6 DEF Pairs
  <2> QED
    BY <1>4, <1>10, <2>1 DEF Keeps
<1>12. PortsGrow /\ PortsOK'
  BY <1>4 DEF PInv, PortsGrow, PortsOK
<1>13. \A n \in Messages, x \in Listeners : <<n, x>> \in Pairs
  BY DEF Pairs
<1>14. FrameOK(f2, sent', fate', handled')
  <2>1. CallOK(f2, handled')
    <3>1. \A q \in DOMAIN cs : q > 1 => cs[q] # c /\ cs[q] \in Pairs /\ handled[cs[q]] = 0
      BY <1>3, FrameFacts DEF CallOK, c
    <3>2. \A q \in DOMAIN cs : q > 1 => handled'[cs[q]] = 0
      BY <1>6, <3>1
    <3>3. handled'[cs[1]] > 0
      BY <1>6 DEF c
    <3> HIDE DEF cs, f
    <3> QED
      BY <1>3, <1>8, <3>2, <3>3 DEF CallOK, cs
  <2>2. ASSUME f.op = "deliver" PROVE DeliverOK(f2, sent', fate', handled')
    <3>1. DeliverOK(f, sent, fate, handled)
      BY <1>3, <2>2 DEF FrameOK
    <3>2. \A x \in sent[m].saw : <<m, x>> \in Pairs
      BY <1>1, <1>5, <1>13 DEF Posting
    <3> HIDE DEF f, cs
    <3> QED
      BY <1>4, <1>8, <1>10, <3>1, <3>2 DEF DeliverOK, cs, c, m
  <2>3. ASSUME f.op = "start" PROVE StartOK(f2, sent', fate', handled')
    <3>1. StartOK(f, sent, fate, handled)
      BY <1>3, <2>3 DEF FrameOK
    <3>2. \A q \in DOMAIN cs : \A n \in sent[cs[q][1]].before : <<n, cs[q][2]>> \in Pairs
      BY <1>1, <1>3, <1>13, FrameFacts DEF Posting
    <3> HIDE DEF f
    <3>3. ASSUME NEW q \in DOMAIN cs, NEW n \in sent[cs[q][1]].before
          PROVE  \/ handled'[<<n, cs[q][2]>>] > 0
                 \/ \E p \in 1 .. (q - 1) : cs[p] = <<n, cs[q][2]>>
      <4>1. \/ handled[<<n, cs[q][2]>>] > 0
            \/ \E p \in 1 .. (q - 1) : cs[p] = <<n, cs[q][2]>>
        BY <3>1 DEF StartOK
      <4> QED
        BY <1>10, <3>2, <4>1
    <3>4. \A q \in DOMAIN cs :
            sent[cs[q][1]].state = "returned" /\ fate[cs[q][1]] = "queued"
      BY <3>1 DEF StartOK
    <3> HIDE DEF cs
    <3> QED
      BY <1>4, <1>8, <3>3, <3>4 DEF StartOK
  <2> QED
    BY <1>3, <1>8, <2>1, <2>2, <2>3 DEF FrameOK
<1> HIDE DEF f
<1>15. FramesOK' /\ OnePlace'
  <2>1. \A h \in Goroutines : \A i \in DOMAIN stack[h] : h # g \/ i # k =>
          Carried(stack[h][i]) \cap {m} = {}
    BY <1>3, <1>5
  <2> QED
    BY <1>1, <1>3, <1>7, <1>8, <1>9, <1>11, <1>14, <2>1, FramesStep DEF PInv
<1>16. QueuesOK'
  <2>1. \A x \in Ends : \A j \in DOMAIN ports'[x].queue :
          /\ ports'[x].queue[j] \notin {m}
          /\ k \in DOMAIN stack'[g] =>
               ports'[x].queue[j] \notin Carried(stack'[g][k])
    <3>1. \A x \in Ends : \A j \in DOMAIN ports[x].queue :
            ports[x].queue[j] \notin Carried(f)
      BY <1>3, InQueue DEF WaitingOK, f
    <3> QED
      BY <1>4, <1>5, <1>7, <1>8, <3>1
  <2>2. QueuesOK /\ \A x \in Ends : ports'[x].queue = ports[x].queue
    BY <1>4 DEF PInv
  <2> QED
    BY <1>1, <1>3, <1>7, <1>9, <1>11, <2>1, <2>2, QueuesStep
<1>17. /\ f.op = "deliver" => fate[m] = "direct"
       /\ f.op = "start" => fate[m] = "queued"
  BY <1>3, <1>5, CarriedFacts
<1>18. \A x \in Listeners :
         handled'[<<m, x>>] = IF x = l THEN 1 ELSE handled[<<m, x>>]
  BY <1>5, <1>6, <1>13
<1>19. MessageOK(m, ports', sent', fate', handled')
  <2>1. MessageOK(m, ports, sent, fate, handled)
    BY <1>5 DEF PInv, MessagesOK
  <2>2. fate[m] \notin {"none", "dropped"}
    BY <1>3, <1>17
  <2>3. \A x \in Listeners : handled'[<<m, x>>] <= 1
    BY <1>18, <2>1 DEF MessageOK
  <2> QED
    BY <1>4, <2>1, <2>2, <2>3 DEF MessageOK
<1>20. MessagesOK'
  BY <1>1, <1>9, <1>11, <1>12, <1>19, MessagesStep DEF PInv
<1>21. \A n \in Messages, x \in Listeners :
         Reached(n, x, stack, handled) => Reached(n, x, stack', handled')
  <2> TAKE n \in Messages, x \in Listeners
  <2>1. Taken(f, n, x) => Taken(f2, n, x)
    BY <1>8 DEF Taken
  <2> QED
    BY <1>1, <1>3, <1>7, <1>9, <1>11, <2>1, ReachedStep DEF f
<1>22. DeliveryOK(m, ports', sent', fate', stack', handled')
  <2>1. /\ Queued(m, ports, sent, fate, stack, handled)
        /\ Direct(m, sent, fate, stack, handled)
        /\ Ordered(m, sent, fate, handled)
    BY <1>5 DEF PInv, DeliveriesOK, DeliveryOK
  <2>2. \A n \in Messages : sent[n].saw \subseteq Listeners /\ sent[n].before \subseteq Messages
    BY <1>1 DEF Posting
  <2>3. Queued(m, ports', sent', fate', stack', handled')
    BY <1>4, <1>5, <1>21, <2>1, <2>2 DEF Queued
  <2>4. Direct(m, sent', fate', stack', handled')
    <3>1. \A x \in sent[m].saw : handled[<<m, x>>] > 0 => handled'[<<m, x>>] > 0
      BY <1>5, <1>10, <1>13, <2>2
    <3>2. \A n \in sent[m].before : \A x \in sent[n].saw :
            Reached(n, x, stack, handled) => Reached(n, x, stack', handled')
      BY <1>5, <1>21, <2>2
    <3> QED
      BY <1>4, <2>1, <3>1, <3>2 DEF Direct
  <2>5. Ordered(m, sent', fate', handled')
    <3> SUFFICES ASSUME fate[m] = "queued", NEW n \in sent[m].before,
                        NEW x \in Listeners, handled'[<<m, x>>] > 0
                 PROVE  handled'[<<n, x>>] > 0
      BY <1>4 DEF Ordered
    <3>1. <<n, x>> \in Pairs
      BY <1>5, <1>13, <2>2
    <3>2. CASE x # l
      BY <1>10, <1>18, <2>1, <3>1, <3>2 DEF Ordered
    <3>3. CASE x = l
      <4>1. f.op = "start"
        BY <1>3, <1>17
      <4>2. StartOK(f, sent, fate, handled)
        BY <1>3, <4>1 DEF FrameOK
      <4>3. 1 .. (1 - 1) = {}
        OBVIOUS
      <4>4. handled[<<n, l>>] > 0
        BY <1>3, <4>2, <4>3 DEF StartOK, c, m, l
      <4> QED
        BY <1>10, <3>1, <3>3, <4>4
    <3> QED
      BY <3>2, <3>3
  <2> QED
    BY <2>3, <2>4, <2>5 DEF DeliveryOK
<1>23. DeliveriesOK'
  BY <1>1, <1>4, <1>9, <1>11, <1>12, <1>21, <1>22, DeliveriesStep DEF PInv
<1> QED
  BY <1>9, <1>12, <1>15, <1>16, <1>20, <1>23 DEF PInv

\* A listener returns and others are left to call.
LEMMA PInvNextListener ==
  ASSUME PInv, NEW g \in Goroutines, ListenerReturns(g), Len(Top(g).calls) > 1
  PROVE  PInv'
<1> DEFINE k == Len(stack[g])
           f == stack[g][k]
           cs == f.calls
           ts == Tail(cs)
           f2 == CallFrame(f.op, ts)
<1>1. /\ stack \in Stacks /\ handled \in [Pairs -> Nat]
      /\ sent \in [Messages -> Posting] /\ PortsTypeOK
  BY DEF PInv, PortsTypeOK, Stacks
<1>2. Calling(g)
  BY DEF ListenerReturns
<1>3. /\ stack[g] # <<>> /\ k \in DOMAIN stack[g] /\ k \in Nat
      /\ Top(g) = f /\ f \in CallFrames /\ f \in Frames
      /\ f.op \in {"deliver", "start"}
      /\ FrameOK(f, sent, fate, handled) /\ CallOK(f, handled)
      /\ cs \in Seq(Pairs) /\ cs # <<>>
      /\ DOMAIN cs = 1 .. Len(cs) /\ 1 \in DOMAIN cs /\ Len(cs) \in Nat \ {0}
      /\ \A h \in Goroutines : \A i \in DOMAIN stack[h] : h # g \/ i # k =>
           Carried(stack[h][i]) \cap Carried(f) = {}
  BY <1>2, CallingFrame
<1>4. /\ f.inside /\ Len(cs) > 1
      /\ stack' = [stack EXCEPT ![g] = Push(Pop(@), f2)]
      /\ UNCHANGED portVars
  BY <1>3 DEF ListenerReturns, portVars
<1>5. /\ ts \in Seq(Pairs) /\ Len(ts) = Len(cs) - 1
      /\ \A i \in 1 .. Len(ts) : ts[i] = cs[i + 1]
  <2> HIDE DEF cs
  <2> QED
    BY <1>3, HeadTailProperties
<1>6. DOMAIN ts = 1 .. Len(ts) /\ DOMAIN <<>> = {}
  BY <1>5, LenProperties, EmptySeq
<1> HIDE DEF ts
<1>7. /\ f2.op = f.op /\ f2.calls = ts /\ f2.inside = FALSE
      /\ f2 \in CallFrames /\ f2 \in Frames
  <2> HIDE DEF f
  <2> QED
    BY <1>3, <1>5 DEF CallFrame, CallFrames, Frames
<1> HIDE DEF f2
<1>8. /\ stack' \in Stacks /\ SameBut(stack, stack', g, k)
      /\ k \in DOMAIN stack'[g] /\ stack'[g][k] = f2
  <2>1. Becomes(stack, stack', g, Push(Pop(stack[g]), f2))
    BY <1>1, <1>4 DEF Becomes, Stacks
  <2> QED
    BY <1>1, <1>3, <1>7, <2>1, Replaced DEF Push, Pop, DropTop
<1>9. \A i \in DOMAIN cs : i = 1 \/ (i - 1 \in DOMAIN ts /\ ts[i - 1] = cs[i])
  <2> HIDE DEF cs
  <2> QED
    BY <1>3, <1>5, <1>6
<1>10. \A i \in DOMAIN ts :
         i \in Nat \ {0} /\ i + 1 \in DOMAIN cs /\ ts[i] = cs[i + 1]
  <2> HIDE DEF cs
  <2> QED
    BY <1>3, <1>5, <1>6
<1>11. 1 \in DOMAIN ts /\ ts # <<>>
  <2> HIDE DEF cs
  <2> QED
    BY <1>3, <1>4, <1>5, <1>6
<1>12. handled[cs[1]] > 0
  BY <1>3, <1>4 DEF CallOK
<1> HIDE DEF cs, k
<1>13. CallOK(f2, handled)
  <2>1. /\ \A p, q \in DOMAIN cs : cs[p] = cs[q] => p = q
        /\ \A q \in DOMAIN cs : q > 1 => handled[cs[q]] = 0
    BY <1>3 DEF CallOK, cs
  <2>2. ASSUME NEW p \in DOMAIN ts, NEW q \in DOMAIN ts, ts[p] = ts[q]
        PROVE  p = q
    <3>1. cs[p + 1] = cs[q + 1]
      BY <1>10, <2>2
    <3>2. p + 1 = q + 1
      BY <1>10, <2>1, <3>1
    <3> QED
      BY <1>10, <3>2
  <2>3. \A q \in DOMAIN ts : handled[ts[q]] = 0
    BY <1>10, <2>1
  <2> QED
    BY <1>7, <1>11, <2>2, <2>3 DEF CallOK
<1>14. ASSUME f.op = "deliver" PROVE DeliverOK(f2, sent, fate, handled)
  <2>1. DeliverOK(f, sent, fate, handled)
    BY <1>3, <1>14 DEF FrameOK
  <2> DEFINE m == cs[1][1]
  <2>2. /\ \A q \in DOMAIN cs : cs[q][1] = m
        /\ sent[m].state = "posting" /\ fate[m] = "direct"
        /\ \A l \in sent[m].saw :
             handled[<<m, l>>] > 0 \/ \E q \in DOMAIN cs : cs[q] = <<m, l>>
    BY <2>1 DEF DeliverOK, cs
  <2> HIDE DEF m
  <2>3. \A q \in DOMAIN ts : ts[q][1] = m
    BY <1>10, <2>2
  <2>4. ASSUME NEW l \in sent[m].saw
        PROVE  handled[<<m, l>>] > 0 \/ \E q \in DOMAIN ts : ts[q] = <<m, l>>
    <3>1. CASE handled[<<m, l>>] > 0
      BY <3>1
    <3>2. ASSUME NEW q \in DOMAIN cs, cs[q] = <<m, l>>
          PROVE  handled[<<m, l>>] > 0 \/ \E p \in DOMAIN ts : ts[p] = <<m, l>>
      BY <1>9, <1>12, <3>2
    <3> QED
      BY <2>2, <3>1, <3>2
  <2>5. ts[1][1] = m
    BY <1>11, <2>3
  <2> QED
    BY <1>7, <2>2, <2>3, <2>4, <2>5 DEF DeliverOK
<1>15. ASSUME f.op = "start" PROVE StartOK(f2, sent, fate, handled)
  <2>1. StartOK(f, sent, fate, handled)
    BY <1>3, <1>15 DEF FrameOK
  <2>2. \A q \in DOMAIN cs :
          /\ sent[cs[q][1]].state = "returned" /\ fate[cs[q][1]] = "queued"
          /\ \A m \in sent[cs[q][1]].before :
               \/ handled[<<m, cs[q][2]>>] > 0
               \/ \E p \in 1 .. (q - 1) : cs[p] = <<m, cs[q][2]>>
    BY <2>1 DEF StartOK, cs
  <2>3. ASSUME NEW q \in DOMAIN ts, NEW m \in sent[ts[q][1]].before
        PROVE  \/ handled[<<m, ts[q][2]>>] > 0
               \/ \E p \in 1 .. (q - 1) : ts[p] = <<m, ts[q][2]>>
    <3> DEFINE l == ts[q][2]
    <3>1. q \in Nat \ {0} /\ q + 1 \in DOMAIN cs /\ ts[q] = cs[q + 1]
      BY <1>10
    <3>2. /\ m \in sent[cs[q + 1][1]].before /\ l = cs[q + 1][2]
      BY <3>1
    <3>3. handled[<<m, l>>] > 0 \/ \E p \in 1 .. ((q + 1) - 1) : cs[p] = <<m, l>>
      BY <2>2, <3>1, <3>2
    <3> HIDE DEF l
    <3>4. ASSUME NEW p \in 1 .. ((q + 1) - 1), cs[p] = <<m, l>>
          PROVE  \/ handled[<<m, l>>] > 0
                 \/ \E i \in 1 .. (q - 1) : ts[i] = <<m, l>>
      <4>1. CASE p = 1
        BY <1>12, <3>4, <4>1
      <4>2. CASE p # 1
        <5>1. p \in DOMAIN cs
          BY <1>3, <3>1
        <5>2. p - 1 \in 1 .. (q - 1)
          BY <3>1, <4>2
        <5>3. ts[p - 1] = <<m, l>>
          BY <1>9, <3>4, <4>2, <5>1
        <5> QED
          BY <5>2, <5>3
      <4> QED
        BY <4>1, <4>2
    <3>5. handled[<<m, l>>] > 0 \/ \E i \in 1 .. (q - 1) : ts[i] = <<m, l>>
      BY <3>3, <3>4
    <3> QED
      BY <3>5 DEF l
  <2>4. \A q \in DOMAIN ts :
          sent[ts[q][1]].state = "returned" /\ fate[ts[q][1]] = "queued"
    BY <1>10, <2>2
  <2> QED
    BY <1>7, <2>3, <2>4 DEF StartOK
<1>16. FrameOK(f2, sent', fate', handled')
  BY <1>3, <1>4, <1>7, <1>13, <1>14, <1>15 DEF FrameOK, portVars
<1>17. Carried(f2) \subseteq Carried(f)
  <2>1. \A q \in DOMAIN ts : ts[q][1] \in {cs[p][1] : p \in DOMAIN cs}
    BY <1>10
  <2>2. /\ Carried(f) = {cs[p][1] : p \in DOMAIN cs}
        /\ Carried(f2) = {ts[q][1] : q \in DOMAIN ts}
    <3> HIDE DEF f
    <3> QED
      BY <1>3, <1>7 DEF Carried, cs
  <2> QED
    BY <2>1, <2>2
<1>18. PortsTypeOK' /\ Keeps({}) /\ PortsGrow /\ PortsOK'
  BY <1>1, <1>4, <1>8, NothingKept
  DEF PInv, PortsTypeOK, Stacks, PortsGrow, PortsOK, portVars
<1>19. FramesOK' /\ OnePlace'
  BY <1>1, <1>3, <1>8, <1>16, <1>17, <1>18, FramesStep DEF PInv
<1>20. QueuesOK'
  <2>1. \A x \in Ends : \A j \in DOMAIN ports[x].queue :
          ports[x].queue[j] \notin Carried(f)
    BY <1>3, InQueue DEF WaitingOK
  <2>2. \A x \in Ends : \A j \in DOMAIN ports'[x].queue :
          /\ ports'[x].queue[j] \notin {}
          /\ k \in DOMAIN stack'[g] =>
               ports'[x].queue[j] \notin Carried(stack'[g][k])
    BY <1>4, <1>8, <1>17, <2>1 DEF portVars
  <2>3. QueuesOK /\ \A x \in Ends : ports'[x].queue = ports[x].queue
    BY <1>4 DEF PInv, portVars
  <2> QED
    BY <1>1, <1>3, <1>8, <1>18, <2>2, <2>3, QueuesStep
<1>21. MessagesOK'
  BY <1>1, <1>18, MessagesStep DEF PInv
<1>22. \A n \in Messages, x \in Listeners :
         Reached(n, x, stack, handled) => Reached(n, x, stack', handled')
  <2> TAKE n \in Messages, x \in Listeners
  <2>1. Taken(f, n, x) => handled'[<<n, x>>] > 0 \/ Taken(f2, n, x)
    <3> SUFFICES ASSUME Taken(f, n, x)
                 PROVE  handled'[<<n, x>>] > 0 \/ Taken(f2, n, x)
      OBVIOUS
    <3>1. PICK q \in DOMAIN cs : cs[q] = <<n, x>>
      BY DEF Taken, cs
    <3>2. f.op = "start"
      BY DEF Taken
    <3>3. CASE q = 1
      BY <1>4, <1>12, <3>1, <3>3 DEF portVars
    <3>4. CASE q # 1
      BY <1>7, <1>9, <3>1, <3>2, <3>4 DEF Taken
    <3> QED
      BY <3>3, <3>4
  <2> QED
    BY <1>1, <1>3, <1>8, <1>18, <2>1, ReachedStep
<1>23. DeliveriesOK'
  BY <1>1, <1>4, <1>18, <1>22, DeliveriesStep DEF PInv, portVars
<1> QED
  BY <1>18, <1>19, <1>20, <1>21, <1>23 DEF PInv

\* The last listener returns, and with it the posting of a direct delivery.
LEMMA PInvLastListener ==
  ASSUME PInv, NEW g \in Goroutines, ListenerReturns(g), ~(Len(Top(g).calls) > 1)
  PROVE  PInv'
<1> DEFINE k == Len(stack[g])
           f == stack[g][k]
           cs == f.calls
           m == cs[1][1]
           C == IF f.op = "deliver" THEN {m} ELSE {}
<1>1. /\ stack \in Stacks /\ ports \in [Ends -> Port]
      /\ sent \in [Messages -> Posting] /\ PortsTypeOK
  BY DEF PInv, PortsTypeOK, Stacks
<1>2. Calling(g)
  BY DEF ListenerReturns
<1>3. /\ stack[g] # <<>> /\ k \in DOMAIN stack[g] /\ k \in Nat
      /\ Top(g) = f /\ f \in Frames
      /\ f.op \in {"deliver", "start"}
      /\ FrameOK(f, sent, fate, handled) /\ CallOK(f, handled)
      /\ DOMAIN cs = 1 .. Len(cs) /\ 1 \in DOMAIN cs /\ Len(cs) \in Nat \ {0}
      /\ \A h \in Goroutines : \A i \in DOMAIN stack[h] : h # g \/ i # k =>
           Carried(stack[h][i]) \cap Carried(f) = {}
  BY <1>2, CallingFrame
<1>4. /\ f.inside /\ stack' = [stack EXCEPT ![g] = Pop(@)]
      /\ sent' = IF f.op = "deliver"
                 THEN [sent EXCEPT ![m].state = "returned"] ELSE sent
      /\ UNCHANGED <<ports, fate, handled>>
  BY <1>3 DEF ListenerReturns, Finish
<1>5. \A i \in DOMAIN cs : i = 1
  <2>1. ~(Len(cs) > 1)
    BY <1>3
  <2> HIDE DEF cs
  <2> QED
    BY <1>3, <2>1
<1>6. handled[cs[1]] > 0
  BY <1>3, <1>4 DEF CallOK
<1>7. /\ m \in Messages /\ m \in Carried(f) /\ cs[1] = <<m, cs[1][2]>>
  BY <1>3, FrameFacts
<1>8. /\ stack' \in Stacks /\ SameBut(stack, stack', g, k)
      /\ k \notin DOMAIN stack'[g]
  <2>1. Becomes(stack, stack', g, Pop(stack[g]))
    BY <1>1, <1>4 DEF Becomes, Stacks
  <2> QED
    BY <1>1, <1>3, <2>1, Popped DEF Pop, DropTop
<1>9. f.op = "deliver" =>
        /\ sent[m].state = "posting" /\ fate[m] = "direct"
        /\ \A l \in sent[m].saw : handled[<<m, l>>] > 0
  <2> SUFFICES ASSUME f.op = "deliver"
               PROVE  /\ sent[m].state = "posting" /\ fate[m] = "direct"
                      /\ \A l \in sent[m].saw : handled[<<m, l>>] > 0
    OBVIOUS
  <2>1. /\ sent[m].state = "posting" /\ fate[m] = "direct"
        /\ \A l \in sent[m].saw :
             handled[<<m, l>>] > 0 \/ \E q \in DOMAIN cs : cs[q] = <<m, l>>
    BY <1>3 DEF FrameOK, DeliverOK
  <2> HIDE DEF m, cs
  <2>2. \A l \in sent[m].saw : handled[<<m, l>>] > 0
    BY <1>5, <1>6, <2>1
  <2> QED
    BY <2>1, <2>2
<1> HIDE DEF k, f, m, cs
<1>10. /\ sent' \in [Messages -> Posting]
       /\ \A n \in Messages : n \notin C => sent'[n] = sent[n]
       /\ f.op = "deliver" =>
            /\ sent'[m].to = sent[m].to /\ sent'[m].late = sent[m].late
            /\ sent'[m].saw = sent[m].saw /\ sent'[m].before = sent[m].before
            /\ sent'[m].state = "returned"
  <2>1. CASE f.op = "deliver"
    <3>1. sent' = [sent EXCEPT ![m].state = "returned"] /\ sent[m] \in Posting
      BY <1>1, <1>4, <1>7, <2>1
    <3> QED
      BY <1>1, <1>7, <2>1, <3>1 DEF Posting
  <2>2. CASE f.op # "deliver"
    BY <1>1, <1>4, <2>2
  <2> QED
    BY <2>1, <2>2
<1>11. PortsTypeOK'
  BY <1>1, <1>4, <1>8, <1>10 DEF PortsTypeOK, Stacks
<1>12. Keeps(C)
  <2>1. \A n \in Messages : sent[n].state = "returned" => n \notin C
    BY <1>9
  <2> QED
    BY <1>1, <1>4, <1>10, <2>1 DEF Keeps, PortsTypeOK
<1>13. PortsGrow /\ PortsOK'
  BY <1>4 DEF PInv, PortsGrow, PortsOK
<1>14. C \subseteq Carried(f)
  BY <1>7
<1>15. FramesOK' /\ OnePlace'
  <2>1. \A h \in Goroutines : \A i \in DOMAIN stack[h] : h # g \/ i # k =>
          Carried(stack[h][i]) \cap C = {}
    BY <1>3, <1>14
  <2> HIDE DEF C
  <2> QED
    BY <1>1, <1>3, <1>8, <1>11, <1>12, <2>1, FramesStep DEF PInv
<1>16. QueuesOK'
  <2>1. \A x \in Ends : \A j \in DOMAIN ports'[x].queue :
          /\ ports'[x].queue[j] \notin C
          /\ k \in DOMAIN stack'[g] =>
               ports'[x].queue[j] \notin Carried(stack'[g][k])
    <3>1. \A x \in Ends : \A j \in DOMAIN ports[x].queue :
            ports[x].queue[j] \notin Carried(f)
      BY <1>3, InQueue DEF WaitingOK, f
    <3> QED
      BY <1>4, <1>8, <1>14, <3>1
  <2>2. QueuesOK /\ \A x \in Ends : ports'[x].queue = ports[x].queue
    BY <1>4 DEF PInv
  <2> HIDE DEF C
  <2> QED
    BY <1>1, <1>3, <1>8, <1>11, <1>12, <2>1, <2>2, QueuesStep
<1>17. ASSUME f.op = "deliver"
       PROVE  MessageOK(m, ports', sent', fate', handled')
  <2>1. MessageOK(m, ports, sent, fate, handled)
    BY <1>7 DEF PInv, MessagesOK
  <2>2. \A n \in sent[m].before : n \in Messages /\ sent'[n] = sent[n]
    <3>1. \A n \in sent[m].before : sent[n].state = "returned"
      BY <2>1 DEF MessageOK
    <3>2. sent[m].before \subseteq Messages
      BY <1>1, <1>7 DEF Posting
    <3> QED
      BY <1>12, <3>1, <3>2 DEF Keeps
  <2> QED
    BY <1>4, <1>9, <1>10, <1>17, <2>1, <2>2 DEF MessageOK
<1>18. MessagesOK'
  <2>1. \A n \in Messages \cap C : MessageOK(n, ports', sent', fate', handled')
    BY <1>17
  <2> HIDE DEF C
  <2> QED
    BY <1>1, <1>11, <1>12, <1>13, <2>1, MessagesStep DEF PInv
<1>19. \A n \in Messages, x \in Listeners :
         Reached(n, x, stack, handled) => Reached(n, x, stack', handled')
  <2> TAKE n \in Messages, x \in Listeners
  <2>1. Taken(f, n, x) => handled'[<<n, x>>] > 0
    BY <1>4, <1>5, <1>6 DEF Taken, cs
  <2> HIDE DEF C
  <2> QED
    BY <1>1, <1>3, <1>8, <1>11, <1>12, <2>1, ReachedStep DEF f
<1>20. ASSUME f.op = "deliver"
       PROVE  DeliveryOK(m, ports', sent', fate', stack', handled')
  <2>1. fate'[m] = "direct" /\ Direct(m, sent, fate, stack, handled)
    BY <1>4, <1>7, <1>9, <1>20 DEF PInv, DeliveriesOK, DeliveryOK
  <2>2. ASSUME NEW n \in sent[m].before, NEW l \in sent'[n].saw
        PROVE  Reached(n, l, stack', handled')
    <3>1. sent[n].state = "returned" /\ n \in Messages
      BY <1>1, <1>7 DEF PInv, MessagesOK, MessageOK, Posting
    <3>2. l \in sent[n].saw /\ l \in Listeners
      BY <1>1, <1>12, <3>1 DEF Keeps, Posting
    <3>3. Reached(n, l, stack, handled)
      BY <1>4, <2>1, <3>2 DEF Direct
    <3> QED
      BY <1>19, <3>1, <3>2, <3>3
  <2>3. Direct(m, sent', fate', stack', handled')
    BY <1>4, <1>9, <1>10, <1>20, <2>2 DEF Direct
  <2> QED
    BY <2>1, <2>3 DEF DeliveryOK, Queued, Ordered
<1>21. DeliveriesOK'
  <2>1. \A n \in Messages \cap C :
          DeliveryOK(n, ports', sent', fate', stack', handled')
    BY <1>20
  <2> HIDE DEF C
  <2> QED
    BY <1>1, <1>4, <1>11, <1>12, <1>13, <1>19, <2>1, DeliveriesStep DEF PInv
<1> QED
  BY <1>11, <1>13, <1>15, <1>16, <1>18, <1>21 DEF PInv

-----------------------------------------------------------------------------
(* The router. *)

\* A step of the ports leaves the router alone.
LEMMA SameRouter ==
  ASSUME RInv, UNCHANGED routerVars
  PROVE  RInv'
BY DEF RInv, RouterTypeOK, TakenOnce, routerVars

LEMMA RInvHandle ==
  ASSUME RInv, NEW g \in Goroutines, NEW c \in Channels,
         NEW r \in Registrations, NEW o \in BOOLEAN, Handle(g, c, r, o)
  PROVE  RInv'
<1>1. /\ handlers[c] = NoRegistration /\ invoked[r] = 0 /\ r \notin once
      /\ \A d \in Channels : handlers[d] # r
      /\ handlers' = [handlers EXCEPT ![c] = r]
      /\ once' \in {once, once \cup {r}} /\ invoked' = invoked
  BY DEF Handle, Range, RInv, RouterTypeOK
<1>2. RouterTypeOK'
  BY <1>1 DEF RInv, RouterTypeOK
<1>3. TakenOnce'
  BY <1>1 DEF RInv, RouterTypeOK, TakenOnce
<1> QED
  BY <1>2, <1>3 DEF RInv

LEMMA RInvRemoveHandler ==
  ASSUME RInv, NEW g \in Goroutines, NEW c \in Channels, RemoveHandler(g, c)
  PROVE  RInv'
<1>1. /\ handlers' = [handlers EXCEPT ![c] = NoRegistration]
      /\ once' = once /\ invoked' = invoked
  BY DEF RemoveHandler
<1>2. RouterTypeOK'
  BY <1>1 DEF RInv, RouterTypeOK
<1>3. TakenOnce'
  BY <1>1, RegistrationAssumption DEF RInv, RouterTypeOK, TakenOnce
<1> QED
  BY <1>2, <1>3 DEF RInv

LEMMA RInvInvoke ==
  ASSUME RInv, NEW g \in Goroutines, NEW c \in Channels, Invoke(g, c)
  PROVE  RInv'
<1> DEFINE r == handlers[c]
<1>1. /\ r \in Registrations /\ r # NoRegistration
      /\ invoked \in [Registrations -> Nat] /\ once' = once
      /\ handlers \in [Channels -> Registrations \cup {NoRegistration}]
      /\ once \subseteq Registrations
  BY DEF Invoke, RInv, RouterTypeOK
<1>2. /\ invoked' \in [Registrations -> Nat]
      /\ \A x \in Registrations : x # r => invoked'[x] = invoked[x]
      /\ invoked[r] = 0 => invoked'[r] = 1
  BY <1>1 DEF Invoke
<1>3. handlers' = IF r \in once THEN [handlers EXCEPT ![c] = NoRegistration]
                  ELSE handlers
  BY DEF Invoke, AfterTake
<1>4. RouterTypeOK'
  BY <1>1, <1>2, <1>3 DEF RouterTypeOK
<1>5. \A x \in Channels :
        handlers'[x] = IF x = c /\ r \in once THEN NoRegistration ELSE handlers[x]
  BY <1>1, <1>3
<1>6. \A a, b \in Channels :
        handlers'[a] = handlers'[b] /\ handlers'[a] # NoRegistration => a = b
  BY <1>5 DEF RInv, TakenOnce
<1>7. ASSUME NEW x \in once
      PROVE  /\ invoked'[x] <= 1
             /\ invoked'[x] > 0 => \A d \in Channels : handlers'[d] # x
  <2>1. CASE x = r
    <3>1. invoked[r] = 0 /\ invoked'[r] = 1
      BY <1>1, <1>2, <2>1 DEF RInv, TakenOnce
    <3>2. \A d \in Channels : handlers'[d] # r
      BY <1>1, <1>5, <2>1 DEF RInv, TakenOnce
    <3> QED
      BY <2>1, <3>1, <3>2
  <2>2. CASE x # r
    <3>1. x \in Registrations /\ x # NoRegistration
      BY <1>1, RegistrationAssumption
    <3> QED
      BY <1>2, <1>5, <2>2, <3>1 DEF RInv, TakenOnce
  <2> QED
    BY <2>1, <2>2
<1> QED
  BY <1>1, <1>4, <1>6, <1>7 DEF RInv, TakenOnce

-----------------------------------------------------------------------------
(* Theorems. *)

LEMMA InitIInv == Init => IInv
<1> SUFFICES ASSUME Init PROVE IInv
  OBVIOUS
<1> USE DEF Init
<1>1. /\ \A S : <<>> \in Seq(S)
      /\ DOMAIN <<>> = {}
  BY EmptySeq
<1>2. NewPort \in Port /\ Unsent \in Posting
  BY <1>1 DEF NewPort, Port, Unsent, Posting, Ends
<1>3. /\ ports \in [Ends -> Port] /\ sent \in [Messages -> Posting]
      /\ fate \in [Messages -> {"none", "dropped", "queued", "direct"}]
      /\ handled \in [Pairs -> Nat] /\ stack \in [Goroutines -> Seq(Frames)]
  BY <1>1, <1>2 DEF Pairs
<1>4. \A m \in Messages, l \in Listeners : handled[<<m, l>>] = 0
  OBVIOUS
<1>5. RInv
  BY DEF RInv, RouterTypeOK, TakenOnce
<1>6. FramesOK /\ OnePlace
  BY <1>1 DEF FramesOK, OnePlace
<1>7. PortsOK /\ QueuesOK
  BY <1>1 DEF PortsOK, QueuesOK, NewPort
<1>8. MessagesOK
  BY <1>4 DEF MessagesOK, MessageOK, Unsent
<1>9. DeliveriesOK
  BY DEF DeliveriesOK, DeliveryOK, Queued, Direct, Ordered
<1> QED
  BY <1>3, <1>5, <1>6, <1>7, <1>8, <1>9 DEF IInv, PInv, PortsTypeOK

LEMMA NextIInv == IInv /\ [Next]_vars => IInv'
<1> SUFFICES ASSUME IInv, [Next]_vars PROVE IInv'
  OBVIOUS
<1>1. PInv /\ RInv
  BY DEF IInv
<1>2. ASSUME UNCHANGED vars PROVE IInv'
  BY <1>1, <1>2, SamePorts, SameRouter DEF IInv, vars
<1>3. ASSUME NEW g \in Goroutines, NEW e \in Ends, NEW m \in Messages,
             PostMessage(g, e, m)
      PROVE  IInv'
  BY <1>1, <1>3, PInvPostMessage, SameRouter DEF IInv, PostMessage
<1>4. ASSUME NEW g \in Goroutines, Deliver(g) PROVE IInv'
  BY <1>1, <1>4, PInvDeliver, SameRouter DEF IInv, Deliver
<1>5. ASSUME NEW g \in Goroutines, NEW e \in Ends, Start(g, e) PROVE IInv'
  BY <1>1, <1>5, PInvStart, SameRouter DEF IInv, Start
<1>6. ASSUME NEW g \in Goroutines, NEW e \in Ends, NEW l \in Listeners,
             OnMessage(g, e, l)
      PROVE  IInv'
  BY <1>1, <1>6, PInvOnMessage, SameRouter DEF IInv, OnMessage
<1>7. ASSUME NEW g \in Goroutines, NEW e \in Ends, Close(g, e) PROVE IInv'
  BY <1>1, <1>7, PInvClose, SameRouter DEF IInv, Close
<1>8. ASSUME NEW g \in Goroutines, CallListener(g) PROVE IInv'
  BY <1>1, <1>8, PInvCallListener, SameRouter DEF IInv, CallListener
<1>9. ASSUME NEW g \in Goroutines, ListenerReturns(g) PROVE IInv'
  <2>1. UNCHANGED routerVars
    BY <1>9 DEF ListenerReturns
  <2>2. PInv'
    BY <1>1, <1>9, PInvNextListener, PInvLastListener
  <2> QED
    BY <1>1, <2>1, <2>2, SameRouter DEF IInv
<1>10. ASSUME NEW g \in Goroutines, NEW c \in Channels, NEW r \in Registrations,
              NEW o \in BOOLEAN, Handle(g, c, r, o)
       PROVE  IInv'
  BY <1>1, <1>10, SamePorts, RInvHandle DEF IInv, Handle
<1>11. ASSUME NEW g \in Goroutines, NEW c \in Channels, RemoveHandler(g, c)
       PROVE  IInv'
  BY <1>1, <1>11, SamePorts, RInvRemoveHandler DEF IInv, RemoveHandler
<1>12. ASSUME NEW g \in Goroutines, NEW c \in Channels, Invoke(g, c)
       PROVE  IInv'
  BY <1>1, <1>12, PInvInvoke, RInvInvoke DEF IInv
<1>13. ASSUME NEW g \in Goroutines, InvokeReturns(g) PROVE IInv'
  BY <1>1, <1>13, PInvInvokeReturns, SameRouter DEF IInv, InvokeReturns
<1> QED
  BY <1>2, <1>3, <1>4, <1>5, <1>6, <1>7, <1>8, <1>9, <1>10, <1>11, <1>12, <1>13
  DEF Next

\* The inductive invariant holds in every state the ports and the router reach.
THEOREM IpcInvariant == Spec => []IInv
BY InitIInv, NextIInv, PTL DEF Spec

\* A HandleOnce handler is called at most once, whoever invokes its channel and
\* whatever the handlers do: takeHandler takes it where it finds it.
THEOREM OnceAlwaysRunsOnce == Spec => []OnceRunsOnce
<1>1. IInv => OnceRunsOnce
  BY DEF IInv, RInv, TakenOnce, OnceRunsOnce
<1> QED
  BY <1>1, IpcInvariant, PTL

\* What is posted to or from a closed port is handled by nobody.
THEOREM ClosedAlwaysStaysQuiet == Spec => []ClosedStaysQuiet
<1>1. IInv => ClosedStaysQuiet
  BY DEF IInv, PInv, MessagesOK, MessageOK, ClosedStaysQuiet
<1> QED
  BY <1>1, IpcInvariant, PTL

\* A message that the invariant calls reached is handled or pending in a Start.
LEMMA ReachedIsPending ==
  ASSUME NEW m \in Messages, NEW l \in Listeners,
         Reached(m, l, stack, handled), handled[<<m, l>>] = 0
  PROVE  Pending("start", m, l)
<1>1. PICK g \in Goroutines : \E i \in DOMAIN stack[g] : Taken(stack[g][i], m, l)
  BY DEF Reached
<1>2. PICK i \in DOMAIN stack[g] : Taken(stack[g][i], m, l)
  BY <1>1
<1> QED
  BY <1>2 DEF Taken, Pending, Range

\* No message is lost, and no listener is called twice with one, whatever
\* PostMessage, Start, Close and OnMessage do meanwhile.
THEOREM EachAlwaysHandledOnce == Spec => []EachHandledOnce
<1>1. ASSUME IInv PROVE EachHandledOnce
  <2>1. \A m \in Messages, l \in Listeners : handled[<<m, l>>] <= 1
    BY <1>1 DEF IInv, PInv, MessagesOK, MessageOK
  <2>2. ASSUME NEW m \in Messages, sent[m].state = "returned"
        PROVE  LET p == ports[sent[m].to] IN
               \/ p.closed
               \/ ~p.started /\ m \in Range(p.queue)
               \/ \A l \in sent[m].saw : handled[<<m, l>>] > 0 \/ Pending("start", m, l)
    <3> DEFINE e == sent[m].to
    <3>1. e \in Ends /\ sent[m].saw \subseteq Listeners
      BY <1>1 DEF IInv, PInv, PortsTypeOK, Posting
    <3>2. \A l \in Listeners : handled[<<m, l>>] \in Nat
      BY <1>1 DEF IInv, PInv, PortsTypeOK, Pairs
    <3>3. MessageOK(m, ports, sent, fate, handled)
      BY <1>1 DEF IInv, PInv, MessagesOK
    <3>4. /\ Queued(m, ports, sent, fate, stack, handled)
          /\ Direct(m, sent, fate, stack, handled)
      BY <1>1 DEF IInv, PInv, DeliveriesOK, DeliveryOK
    <3>5. fate[m] \in {"dropped", "queued", "direct"}
      BY <1>1, <2>2, <3>3 DEF IInv, PInv, PortsTypeOK, MessageOK
    <3>6. CASE fate[m] = "dropped"
      BY <3>3, <3>6 DEF MessageOK
    <3>7. CASE fate[m] = "direct"
      BY <2>2, <3>4, <3>7 DEF Direct
    <3>8. CASE fate[m] = "queued"
      <4>1. CASE ports[e].closed
        BY <4>1
      <4>2. CASE \E i \in DOMAIN ports[e].queue : ports[e].queue[i] = m
        <5>1. ports[e].queue # <<>>
          BY <4>2
        <5>2. ~ports[e].started
          BY <1>1, <3>1, <5>1 DEF IInv, PInv, PortsOK
        <5> QED
          BY <4>2, <5>2 DEF Range
      <4>3. CASE \A l \in sent[m].saw : Reached(m, l, stack, handled)
        <5>1. ASSUME NEW l \in sent[m].saw
              PROVE  handled[<<m, l>>] > 0 \/ Pending("start", m, l)
          <6>1. l \in Listeners /\ (handled[<<m, l>>] > 0 \/ handled[<<m, l>>] = 0)
            BY <3>1, <3>2
          <6> QED
            BY <4>3, <6>1, ReachedIsPending
        <5> QED
          BY <5>1
      <4> QED
        BY <3>4, <3>8, <4>1, <4>2, <4>3 DEF Queued
    <3> QED
      BY <3>5, <3>6, <3>7, <3>8
  <2> QED
    BY <2>1, <2>2 DEF EachHandledOnce
<1> QED
  BY <1>1, IpcInvariant, PTL

\* Messages posted one after the other reach a listener in that order, but for
\* those that a Start in progress has yet to deliver.
THEOREM AlwaysInOrder == Spec => []InOrder
<1>1. ASSUME IInv PROVE InOrder
  <2> SUFFICES ASSUME NEW m \in Messages, NEW n \in Messages,
                      NEW l \in Listeners, m \in sent[n].before,
                      l \in sent[m].saw, handled[<<n, l>>] > 0
               PROVE  \/ handled[<<m, l>>] > 0
                      \/ fate[n] = "direct" /\ Pending("start", m, l)
    BY DEF InOrder
  <2>1. handled[<<m, l>>] \in Nat /\ handled[<<n, l>>] \in Nat
    BY <1>1 DEF IInv, PInv, PortsTypeOK, Pairs
  <2>2. /\ Direct(n, sent, fate, stack, handled)
        /\ Ordered(n, sent, fate, handled)
    BY <1>1 DEF IInv, PInv, DeliveriesOK, DeliveryOK
  <2>3. fate[n] \in {"queued", "direct"}
    <3>1. fate[n] \in {"none", "dropped"} => handled[<<n, l>>] = 0
      BY <1>1 DEF IInv, PInv, MessagesOK, MessageOK
    <3>2. fate[n] \in {"none", "dropped", "queued", "direct"}
      BY <1>1 DEF IInv, PInv, PortsTypeOK
    <3> QED
      BY <3>1, <3>2
  <2>4. CASE fate[n] = "queued"
    BY <2>2, <2>4 DEF Ordered
  <2>5. CASE fate[n] = "direct"
    <3>1. Reached(m, l, stack, handled)
      BY <2>2, <2>5 DEF Direct
    <3>2. handled[<<m, l>>] > 0 \/ handled[<<m, l>>] = 0
      BY <2>1
    <3> QED
      BY <2>5, <3>1, <3>2, ReachedIsPending
  <2> QED
    BY <2>3, <2>4, <2>5
<1> QED
  BY <1>1, IpcInvariant, PTL

================================================================================
