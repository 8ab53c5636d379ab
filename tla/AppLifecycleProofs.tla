-------------------------- MODULE AppLifecycleProofs --------------------------
(***************************************************************************)
(* Theorems about the App, for any number of goroutines, handlers, waiters *)
(* and operations and stacks of any depth.                                 *)
(***************************************************************************)
EXTENDS AppLifecycle, FiniteSets, FiniteSetTheorems, SequenceTheorems, TLAPS

-----------------------------------------------------------------------------
(* Types. *)

Starting == {"will-finish-launching", "ready", "waiters"}

Steps ==
  Events \cup {"waiters", "subscribed", "commit", "return"}

Callbacks == Handlers \cup Waiters

Frames ==
  [at : Steps, calls : Seq(Callbacks), inside : BOOLEAN, prevented : BOOLEAN,
   told : BOOLEAN, waiting : Seq(Waiters)]

INSTANCE StackLemmas

TypeOK ==
  /\ ready \in BOOLEAN
  /\ quitting \in BOOLEAN
  /\ waiters \in Seq(Waiters)
  /\ handlers \in [Events -> Seq(Handlers)]
  /\ emitted \in [Events -> Nat]
  /\ stack \in Stacks
  /\ called \in [Callbacks -> Nat]
  /\ given \in SUBSET Waiters
  /\ vetoed \in [{"before-quit", "will-quit"} -> Nat]
  /\ exits \in Nat

-----------------------------------------------------------------------------
(* The books of quitting: who is on the way between two events. *)

\* Frames about to emit the first and the second event of a start.
Launching == {f \in Frames : f.at = "will-finish-launching"}
Readying == {f \in Frames : f.at = "ready"}

\* Quits that asked and were not prevented, and those that will emit quit.
Asking == {f \in Frames : f.at = "will-quit" /\ ~f.prevented}
Leaving == {f \in Frames : (f.at = "commit" /\ ~f.prevented) \/ f.at = "quit"}

\* The frames of a kind and the events are one start or quit each.
Books ==
  /\ Counted(stack, Launching) /\ Counted(stack, Readying)
  /\ Counted(stack, Asking) /\ Counted(stack, Leaving)
  /\ emitted["will-finish-launching"] + Count(stack, Launching) = Bit(ready)
  /\ emitted["ready"] + Count(stack, Readying)
       = emitted["will-finish-launching"]
  /\ emitted["will-quit"] + vetoed["before-quit"] + Count(stack, Asking)
       = emitted["before-quit"]
  /\ emitted["quit"] + vetoed["will-quit"] + Count(stack, Leaving)
       = emitted["will-quit"] + exits

\* The app is quitting if it has emitted quit or somebody is about to.
QuitAnnounced ==
  /\ emitted["quit"] > 0 => quitting
  /\ \A g \in Goroutines : \A i \in DOMAIN stack[g] :
       stack[g][i].at = "quit" => quitting
  /\ quitting =>
       \/ emitted["quit"] > 0
       \/ \E g \in Goroutines : \E i \in DOMAIN stack[g] :
            stack[g][i].at = "quit"

-----------------------------------------------------------------------------
(* The waiters: where each is until it is called. *)

\* A frame keeps waiters while the app starts and calls them at the end.
ShapeOK(f) ==
  /\ f.at \notin Starting => f.waiting = <<>>
  /\ f.at # "return" => f.calls \in Seq(Handlers)
  /\ f.inside => f.calls # <<>>

\* The waiters a frame has not called or is calling.
Held(f) == Waiters \cap (Range(f.waiting) \cup Range(f.calls))

\* What a frame knows of its waiters: each is there once, and has not been
\* called unless it is the one the frame is inside.
WaitersOK(f, c) ==
  /\ \A i, j \in DOMAIN f.waiting : f.waiting[i] = f.waiting[j] => i = j
  /\ \A i \in DOMAIN f.waiting : c[f.waiting[i]] = 0
  /\ \A i, j \in DOMAIN f.calls :
       f.calls[i] \in Waiters /\ f.calls[i] = f.calls[j] => i = j
  /\ \A i \in DOMAIN f.calls : f.calls[i] \in Waiters =>
       c[f.calls[i]] = IF f.inside /\ i = 1 THEN 1 ELSE 0

\* Waiters are held once the app is ready, r, and only those that were given.
FrameOK(f, r, c, gs) ==
  /\ ShapeOK(f) /\ WaitersOK(f, c)
  /\ Held(f) # {} => r
  /\ Held(f) \subseteq gs

FramesOK ==
  \A g \in Goroutines : \A i \in DOMAIN stack[g] :
    FrameOK(stack[g][i], ready, called, given)

\* One frame at most holds a waiter.
OneHolder ==
  \A g, h \in Goroutines :
    \A i \in DOMAIN stack[g], j \in DOMAIN stack[h] :
      Held(stack[g][i]) \cap Held(stack[h][j]) # {} => g = h /\ i = j

\* Waiters wait until the app is ready.
WaitingOK ==
  /\ ready => waiters = <<>>
  /\ Range(waiters) \subseteq given
  /\ \A i, j \in DOMAIN waiters : waiters[i] = waiters[j] => i = j
  /\ \A i \in DOMAIN waiters : called[waiters[i]] = 0

\* A waiter that was given waits, is held or was called, and no other was.
HeldIn(st, w) ==
  \E g \in Goroutines : \E i \in DOMAIN st[g] : w \in Held(st[g][i])

Accounted(w) == w \in Range(waiters) \/ HeldIn(stack, w) \/ called[w] = 1

WaiterOK(w) ==
  /\ called[w] <= 1
  /\ called[w] > 0 => ready /\ w \in given
  /\ w \in given => Accounted(w)

BInv == TypeOK /\ Books /\ QuitAnnounced

WInv ==
  /\ TypeOK /\ FramesOK /\ OneHolder /\ WaitingOK
  /\ \A w \in Waiters : WaiterOK(w)

IInv == BInv /\ WInv

-----------------------------------------------------------------------------
(* What the operations do to the stacks. *)

LEMMA TopFrame ==
  ASSUME TypeOK, NEW g \in Goroutines, stack[g] # <<>>
  PROVE  /\ Top(g) = stack[g][Len(stack[g])] /\ Top(g) \in Frames
         /\ Len(stack[g]) \in DOMAIN stack[g]
<1>1. stack[g] \in Seq(Frames)
  BY Levels DEF TypeOK
<1>2. Len(stack[g]) \in 1 .. Len(stack[g])
  <2>1. Len(stack[g]) \in Nat \ {0}
    BY <1>1, EmptySeq
  <2> QED
    BY <2>1
<1> QED
  BY <1>1, <1>2, ElementOfSeq, LenProperties DEF Top

LEMMA Operations ==
  ASSUME NEW at \in Steps, NEW calls \in Seq(Callbacks)
  PROVE  Operation(at, calls) \in Frames
<1>1. <<>> \in Seq(Waiters)
  OBVIOUS
<1> QED
  BY <1>1 DEF Operation, Frames

LEMMA Beginnings ==
  ASSUME NEW e \in Events
  PROVE  LET f == Operation(e, <<>>)
         IN  /\ f \in Frames /\ f.at = e /\ f.calls = <<>> /\ f.waiting = <<>>
             /\ ~f.inside /\ ~f.prevented
<1>1. <<>> \in Seq(Callbacks) /\ e \in Steps
  BY DEF Steps
<1>2. Operation(e, <<>>) \in Frames
  BY <1>1, Operations
<1> QED
  BY <1>2 DEF Operation

LEMMA Pushing ==
  ASSUME TypeOK, NEW g \in Goroutines, NEW f \in Frames, Push(g, f)
  PROVE  Moves(stack, stack', g, {}, {f})
<1>1. stack \in Stacks
  BY DEF TypeOK
<1>2. Becomes(stack, stack', g, Append(stack[g], f))
  BY <1>1 DEF Push, Becomes, Stacks
<1> QED
  BY <1>1, <1>2, PushMoves

LEMMA Popping ==
  ASSUME TypeOK, NEW g \in Goroutines, stack[g] # <<>>, Pop(g)
  PROVE  Moves(stack, stack', g, {Top(g)}, {})
<1>1. stack \in Stacks
  BY DEF TypeOK
<1>2. Becomes(stack, stack', g, DropTop(stack[g]))
  BY <1>1 DEF Pop, Becomes, Stacks, DropTop
<1> QED
  BY <1>1, <1>2, PopMoves DEF Top

LEMMA Setting ==
  ASSUME TypeOK, NEW g \in Goroutines, stack[g] # <<>>,
         NEW f \in Frames, SetTop(g, f)
  PROVE  Moves(stack, stack', g, {Top(g)}, {f})
<1>1. stack \in Stacks
  BY DEF TypeOK
<1>2. Becomes(stack, stack', g, WithTop(stack[g], f))
  BY <1>1 DEF SetTop, Becomes, Stacks, WithTop
<1> QED
  BY <1>1, <1>2, AssignMoves DEF Top

LEMMA Staying ==
  ASSUME TypeOK, NEW g \in Goroutines, UNCHANGED stack
  PROVE  Moves(stack, stack', g, {}, {})
BY NothingMoves DEF TypeOK

LEMMA HandlersAreCallbacks ==
  ASSUME NEW s \in Seq(Handlers) \cup Seq(Waiters)
  PROVE  s \in Seq(Callbacks)
<1>1. \A i \in 1 .. Len(s) : s[i] \in Callbacks
  BY ElementOfSeq DEF Callbacks
<1>2. Len(s) \in Nat /\ s = [i \in 1 .. Len(s) |-> s[i]]
  BY LenProperties
<1> QED
  BY <1>1, <1>2, SeqDef

-----------------------------------------------------------------------------
(* The frames the operations leave. *)

Emitted(f, e) ==
  [f EXCEPT !.at = After(e), !.calls = handlers[e],
            !.told = handlers[e] # <<>>]

LEMMA EmitMoves ==
  ASSUME TypeOK, NEW g \in Goroutines, NEW e \in Events, Emit(g, e)
  PROVE  LET f == Top(g)
             y == Emitted(f, e)
         IN  /\ Moves(stack, stack', g, {f}, {y}) /\ f \in Frames /\ y \in Frames
             /\ f.at = e /\ f.calls = <<>> /\ ~f.prevented
             /\ y.at = After(e) /\ y.calls = handlers[e] /\ ~y.prevented
             /\ y.inside = f.inside /\ y.waiting = f.waiting
<1> DEFINE f == Top(g)
           y == Emitted(f, e)
<1>1. /\ stack[g] # <<>> /\ f.at = e /\ f.calls = <<>> /\ ~f.prevented
      /\ SetTop(g, y)
  BY DEF Emit, At, Prevented, Emitted
<1>2. f \in Frames
  BY <1>1, TopFrame
<1>3. handlers[e] \in Seq(Callbacks)
  BY HandlersAreCallbacks DEF TypeOK
<1>4. After(e) \in Steps
  BY DEF After, Steps, Events
<1> HIDE DEF f
<1>5. /\ y \in Frames /\ y.at = After(e) /\ y.calls = handlers[e]
      /\ y.prevented = f.prevented /\ y.inside = f.inside
      /\ y.waiting = f.waiting
  BY <1>2, <1>3, <1>4 DEF Emitted, Frames
<1> HIDE DEF y
<1>6. Moves(stack, stack', g, {f}, {y})
  BY <1>1, <1>5, Setting DEF f
<1> QED
  BY <1>1, <1>2, <1>5, <1>6 DEF f, y
LEMMA PopsEmpty ==
  ASSUME TypeOK, NEW g \in Goroutines, NEW step, At(g, step), Pop(g)
  PROVE  LET f == Top(g)
         IN  /\ Moves(stack, stack', g, {f}, {}) /\ f \in Frames
             /\ f.at = step /\ f.calls = <<>>
BY Popping, TopFrame DEF At

LEMMA CommitMoves ==
  ASSUME TypeOK, NEW g \in Goroutines, Commit(g)
  PROVE  LET f == Top(g)
             y == [f EXCEPT !.at = "quit", !.prevented = FALSE]
         IN  /\ Moves(stack, stack', g, {f}, {y}) /\ f \in Frames /\ y \in Frames
             /\ f.at = "commit" /\ f.calls = <<>> /\ ~f.prevented
             /\ y.at = "quit" /\ y.calls = <<>> /\ ~y.prevented
             /\ y.inside = f.inside /\ y.waiting = f.waiting
<1> DEFINE f == Top(g)
           y == [f EXCEPT !.at = "quit", !.prevented = FALSE]
<1>1. /\ stack[g] # <<>> /\ f.at = "commit" /\ f.calls = <<>> /\ ~f.prevented
      /\ SetTop(g, y)
  BY DEF Commit, At, Prevented
<1>2. f \in Frames
  BY <1>1, TopFrame
<1> HIDE DEF f
<1>3. /\ y \in Frames /\ y.at = "quit" /\ y.calls = f.calls
      /\ ~y.prevented /\ y.inside = f.inside /\ y.waiting = f.waiting
  BY <1>2 DEF Frames, Steps, Events
<1> HIDE DEF y
<1>4. Moves(stack, stack', g, {f}, {y})
  BY <1>1, <1>3, Setting DEF f
<1> QED
  BY <1>1, <1>2, <1>3, <1>4 DEF f, y

\* WindowAllClosed goes on as Quit does.
LEMMA GoOnMoves ==
  ASSUME TypeOK, NEW g \in Goroutines, At(g, "subscribed"),
         GoOn(g, "before-quit")
  PROVE  LET f == Top(g)
             y == [f EXCEPT !.at = "before-quit"]
         IN  /\ Moves(stack, stack', g, {f}, {y}) /\ f \in Frames /\ y \in Frames
             /\ f.at = "subscribed" /\ f.calls = <<>>
             /\ y.at = "before-quit" /\ y.calls = <<>>
             /\ y.inside = f.inside /\ y.waiting = f.waiting
<1> DEFINE f == Top(g)
           y == [f EXCEPT !.at = "before-quit"]
<1>1. /\ stack[g] # <<>> /\ f.at = "subscribed" /\ f.calls = <<>>
      /\ SetTop(g, y)
  BY DEF At, GoOn
<1>2. f \in Frames
  BY <1>1, TopFrame
<1> HIDE DEF f
<1>3. /\ y \in Frames /\ y.at = "before-quit" /\ y.calls = f.calls
      /\ y.inside = f.inside /\ y.waiting = f.waiting
  BY <1>2 DEF Frames, Steps, Events
<1> HIDE DEF y
<1>4. Moves(stack, stack', g, {f}, {y})
  BY <1>1, <1>3, Setting DEF f
<1> QED
  BY <1>1, <1>2, <1>3, <1>4 DEF f, y

LEMMA CallWaitersMoves ==
  ASSUME TypeOK, NEW g \in Goroutines, CallWaiters(g)
  PROVE  LET f == Top(g)
             y == Operation("return", f.waiting)
         IN  /\ Moves(stack, stack', g, {f}, {y}) /\ f \in Frames /\ y \in Frames
             /\ f.at = "waiters" /\ f.calls = <<>>
<1> DEFINE f == Top(g)
           y == Operation("return", f.waiting)
<1>1. stack[g] # <<>> /\ f.at = "waiters" /\ f.calls = <<>> /\ SetTop(g, y)
  BY DEF CallWaiters, At
<1>2. f \in Frames
  BY <1>1, TopFrame
<1>3. y \in Frames
  <2>1. f.waiting \in Seq(Waiters)
    BY <1>2 DEF Frames
  <2> QED
    BY <2>1, HandlersAreCallbacks, Operations DEF Steps
<1>4. Moves(stack, stack', g, {f}, {y})
  BY <1>1, <1>3, Setting
<1> QED
  BY <1>1, <1>2, <1>3, <1>4

LEMMA CallBackMoves ==
  ASSUME TypeOK, NEW g \in Goroutines, CallBack(g)
  PROVE  LET f == Top(g)
             y == [f EXCEPT !.inside = TRUE]
         IN  /\ Moves(stack, stack', g, {f}, {y}) /\ f \in Frames /\ y \in Frames
             /\ f.calls # <<>> /\ ~f.inside
             /\ y.at = f.at /\ y.calls = f.calls /\ y.prevented = f.prevented
             /\ y.inside /\ y.waiting = f.waiting
<1> DEFINE f == Top(g)
           y == [f EXCEPT !.inside = TRUE]
<1>1. stack[g] # <<>> /\ f.calls # <<>> /\ ~f.inside /\ SetTop(g, y)
  BY DEF CallBack
<1>2. f \in Frames
  BY <1>1, TopFrame
<1> HIDE DEF f
<1>3. /\ y \in Frames /\ y.at = f.at /\ y.calls = f.calls
      /\ y.prevented = f.prevented /\ y.inside /\ y.waiting = f.waiting
  BY <1>2 DEF Frames
<1> HIDE DEF y
<1>4. Moves(stack, stack', g, {f}, {y})
  BY <1>1, <1>3, Setting DEF f
<1> QED
  BY <1>1, <1>2, <1>3, <1>4 DEF f, y

Returned(f, p) ==
  [f EXCEPT !.calls = Tail(@), !.inside = FALSE, !.prevented = p]

\* A callback that returns leaves the rest of the calls, prevented or not.
LEMMA ReturnMoves ==
  ASSUME TypeOK, NEW g \in Goroutines, Inside(g), Top(g).calls # <<>>,
         NEW p \in BOOLEAN, SetTop(g, Returned(Top(g), p))
  PROVE  LET f == Top(g)
             y == Returned(f, p)
         IN  /\ Moves(stack, stack', g, {f}, {y}) /\ f \in Frames /\ y \in Frames
             /\ y.at = f.at /\ y.calls = Tail(f.calls) /\ y.prevented = p
             /\ ~y.inside /\ y.waiting = f.waiting
<1> DEFINE f == Top(g)
           y == Returned(f, p)
<1>1. stack[g] # <<>>
  BY DEF Inside
<1>2. f \in Frames /\ f.calls # <<>>
  BY <1>1, TopFrame
<1> HIDE DEF f
<1>3. Tail(f.calls) \in Seq(Callbacks)
  BY <1>2, HeadTailProperties DEF Frames
<1>4. /\ y \in Frames /\ y.at = f.at /\ y.calls = Tail(f.calls)
      /\ y.prevented = p /\ ~y.inside /\ y.waiting = f.waiting
  BY <1>2, <1>3 DEF Frames, Returned
<1> HIDE DEF y
<1>5. Moves(stack, stack', g, {f}, {y})
  BY <1>1, <1>4, Setting DEF f, y
<1> QED
  BY <1>2, <1>4, <1>5 DEF f, y
-----------------------------------------------------------------------------
(* The books of quitting. *)

\* What a step that gives up the frames X for Y adds to each side.
Balanced(X, Y) ==
  /\ emitted'["will-finish-launching"] + Kind(Y, Launching) + Bit(ready)
       = emitted["will-finish-launching"] + Kind(X, Launching) + Bit(ready')
  /\ emitted'["ready"] + Kind(Y, Readying) + emitted["will-finish-launching"]
       = emitted["ready"] + Kind(X, Readying) + emitted'["will-finish-launching"]
  /\ emitted'["will-quit"] + vetoed'["before-quit"] + Kind(Y, Asking)
         + emitted["before-quit"]
       = emitted["will-quit"] + vetoed["before-quit"] + Kind(X, Asking)
         + emitted'["before-quit"]
  /\ emitted'["quit"] + vetoed'["will-quit"] + Kind(Y, Leaving)
         + emitted["will-quit"] + exits
       = emitted["quit"] + vetoed["will-quit"] + Kind(X, Leaving)
         + emitted'["will-quit"] + exits'

LEMMA BooksStep ==
  ASSUME TypeOK, TypeOK', Books, NEW g \in Goroutines, NEW X, NEW Y,
         Moves(stack, stack', g, X, Y), Balanced(X, Y)
  PROVE  Books'
<1>1. stack \in Stacks
  BY DEF TypeOK
<1>2. \A A : Counted(stack, A) =>
        /\ Counted(stack', A)
        /\ Count(stack', A) + Kind(X, A) = Count(stack, A) + Kind(Y, A)
  BY <1>1, CountMoves
<1>3. /\ Counted(stack, Launching) /\ Counted(stack, Readying)
      /\ Counted(stack, Asking) /\ Counted(stack, Leaving)
  BY DEF Books
<1>4. /\ Counted(stack', Launching) /\ Counted(stack', Readying)
      /\ Counted(stack', Asking) /\ Counted(stack', Leaving)
  BY <1>2, <1>3
<1>5. /\ Count(stack, Launching) \in Nat /\ Count(stack', Launching) \in Nat
      /\ Count(stack, Readying) \in Nat /\ Count(stack', Readying) \in Nat
      /\ Count(stack, Asking) \in Nat /\ Count(stack', Asking) \in Nat
      /\ Count(stack, Leaving) \in Nat /\ Count(stack', Leaving) \in Nat
  BY <1>3, <1>4 DEF Counted
<1>6. /\ \A e \in Events : emitted[e] \in Nat /\ emitted'[e] \in Nat
      /\ vetoed["before-quit"] \in Nat /\ vetoed'["before-quit"] \in Nat
      /\ vetoed["will-quit"] \in Nat /\ vetoed'["will-quit"] \in Nat
      /\ exits \in Nat /\ exits' \in Nat
  BY DEF TypeOK
<1>7. /\ \A A : Kind(X, A) \in Nat /\ Kind(Y, A) \in Nat
      /\ Bit(ready) \in Nat /\ Bit(ready') \in Nat
  BY DEF Kind, Bit
<1>8. /\ emitted["will-finish-launching"] \in Nat
      /\ emitted'["will-finish-launching"] \in Nat
      /\ emitted["ready"] \in Nat /\ emitted'["ready"] \in Nat
      /\ emitted["before-quit"] \in Nat /\ emitted'["before-quit"] \in Nat
      /\ emitted["will-quit"] \in Nat /\ emitted'["will-quit"] \in Nat
      /\ emitted["quit"] \in Nat /\ emitted'["quit"] \in Nat
  BY <1>6 DEF Events
<1>9. emitted'["will-finish-launching"] + Count(stack', Launching)
       = Bit(ready')
  <2> DEFINE c == Count(stack, Launching)
             d == Count(stack', Launching)
             x == Kind(X, Launching)
             y == Kind(Y, Launching)
             l == emitted["will-finish-launching"]
             m == emitted'["will-finish-launching"]
             q == Bit(ready)
             r == Bit(ready')
  <2>1. /\ c \in Nat /\ d \in Nat /\ x \in Nat /\ y \in Nat
        /\ l \in Nat /\ m \in Nat /\ q \in Nat /\ r \in Nat
    BY <1>5, <1>6, <1>7, <1>8
  <2>2. d + x = c + y /\ l + c = q
    BY <1>2, <1>3 DEF Books
  <2>3. m + y + q = l + x + r
    BY <1>6, <1>7, <1>8 DEF Balanced
  <2> HIDE DEF c, d, x, y, l, m, q, r
  <2>4. m + d = r
    BY <2>1, <2>2, <2>3
  <2> QED
    BY <2>4 DEF d, m, r
<1>10. emitted'["ready"] + Count(stack', Readying)
        = emitted'["will-finish-launching"]
  <2> DEFINE c == Count(stack, Readying)
             d == Count(stack', Readying)
             x == Kind(X, Readying)
             y == Kind(Y, Readying)
             l == emitted["ready"]
             m == emitted'["ready"]
             q == emitted["will-finish-launching"]
             r == emitted'["will-finish-launching"]
  <2>1. /\ c \in Nat /\ d \in Nat /\ x \in Nat /\ y \in Nat
        /\ l \in Nat /\ m \in Nat /\ q \in Nat /\ r \in Nat
    BY <1>5, <1>6, <1>7, <1>8
  <2>2. d + x = c + y /\ l + c = q
    BY <1>2, <1>3 DEF Books
  <2>3. m + y + q = l + x + r
    BY <1>6, <1>7, <1>8 DEF Balanced
  <2> HIDE DEF c, d, x, y, l, m, q, r
  <2>4. m + d = r
    BY <2>1, <2>2, <2>3
  <2> QED
    BY <2>4 DEF d, m, r
<1>11. emitted'["will-quit"] + vetoed'["before-quit"] + Count(stack', Asking)
        = emitted'["before-quit"]
  <2> DEFINE c == Count(stack, Asking)
             d == Count(stack', Asking)
             x == Kind(X, Asking)
             y == Kind(Y, Asking)
             l == emitted["will-quit"] + vetoed["before-quit"]
             m == emitted'["will-quit"] + vetoed'["before-quit"]
             q == emitted["before-quit"]
             r == emitted'["before-quit"]
  <2>1. /\ c \in Nat /\ d \in Nat /\ x \in Nat /\ y \in Nat
        /\ l \in Nat /\ m \in Nat /\ q \in Nat /\ r \in Nat
    BY <1>5, <1>6, <1>7, <1>8
  <2>2. d + x = c + y /\ l + c = q
    BY <1>2, <1>3 DEF Books
  <2>3. m + y + q = l + x + r
    BY <1>6, <1>7, <1>8 DEF Balanced
  <2> HIDE DEF c, d, x, y, l, m, q, r
  <2>4. m + d = r
    BY <2>1, <2>2, <2>3
  <2> QED
    BY <2>4 DEF d, m, r
<1>12. emitted'["quit"] + vetoed'["will-quit"] + Count(stack', Leaving)
        = emitted'["will-quit"] + exits'
  <2> DEFINE c == Count(stack, Leaving)
             d == Count(stack', Leaving)
             x == Kind(X, Leaving)
             y == Kind(Y, Leaving)
             l == emitted["quit"] + vetoed["will-quit"]
             m == emitted'["quit"] + vetoed'["will-quit"]
             q == emitted["will-quit"] + exits
             r == emitted'["will-quit"] + exits'
  <2>1. /\ c \in Nat /\ d \in Nat /\ x \in Nat /\ y \in Nat
        /\ l \in Nat /\ m \in Nat /\ q \in Nat /\ r \in Nat
    BY <1>5, <1>6, <1>7, <1>8
  <2>2. d + x = c + y /\ l + c = q
    BY <1>2, <1>3 DEF Books
  <2>3. m + y + q = l + x + r
    BY <1>6, <1>7, <1>8 DEF Balanced
  <2> HIDE DEF c, d, x, y, l, m, q, r
  <2>4. m + d = r
    BY <2>1, <2>2, <2>3
  <2> QED
    BY <2>4 DEF d, m, r
<1> QED
  BY <1>4, <1>9, <1>10, <1>11, <1>12 DEF Books

\* Such a step announces a quit it starts, and does not lose one.
Announces(X, Y) ==
  /\ quitting => quitting'
  /\ emitted'["quit"] >= emitted["quit"]
  /\ emitted'["quit"] > 0 => quitting'
  /\ \A f \in Y : f.at = "quit" => quitting'
  /\ \A f \in X : f.at = "quit" =>
       emitted'["quit"] > 0 \/ \E y \in Y : y.at = "quit"
  /\ quitting' => quitting \/ \E y \in Y : y.at = "quit"

LEMMA AnnouncedStep ==
  ASSUME TypeOK, TypeOK', QuitAnnounced, NEW g \in Goroutines, NEW X, NEW Y,
         Moves(stack, stack', g, X, Y), Announces(X, Y)
  PROVE  QuitAnnounced'
<1>1. PICK k \in Nat :
        /\ StaysBut(stack, stack', g, k, X) /\ StaysBut(stack', stack, g, k, Y)
        /\ \A f \in Y : k \in DOMAIN stack'[g] /\ stack'[g][k] = f
  BY MovedFrames DEF TypeOK
<1>2. emitted["quit"] \in Nat /\ emitted'["quit"] \in Nat
  BY DEF TypeOK, Events
<1>3. ASSUME NEW h \in Goroutines, NEW i \in DOMAIN stack'[h],
             stack'[h][i].at = "quit"
      PROVE  quitting'
  BY <1>1, <1>3 DEF StaysBut, QuitAnnounced, Announces
<1>4. ASSUME NEW y \in Y, y.at = "quit"
      PROVE  \E h \in Goroutines : \E i \in DOMAIN stack'[h] :
               stack'[h][i].at = "quit"
  BY <1>1, <1>4
<1>5. ASSUME quitting'
      PROVE  \/ emitted'["quit"] > 0
             \/ \E h \in Goroutines : \E i \in DOMAIN stack'[h] :
                  stack'[h][i].at = "quit"
  <2>1. CASE \E y \in Y : y.at = "quit"
    BY <1>4, <2>1
  <2>2. CASE emitted["quit"] > 0
    BY <1>2, <2>2 DEF Announces
  <2>3. ASSUME NEW h \in Goroutines, NEW i \in DOMAIN stack[h],
               stack[h][i].at = "quit"
        PROVE  \/ emitted'["quit"] > 0
               \/ \E d \in Goroutines : \E j \in DOMAIN stack'[d] :
                    stack'[d][j].at = "quit"
    <3>1. CASE stack[h][i] \in X
      BY <1>4, <2>3, <3>1 DEF Announces
    <3>2. CASE i \in DOMAIN stack'[h] /\ stack'[h][i] = stack[h][i]
      BY <2>3, <3>2
    <3> QED
      BY <1>1, <3>1, <3>2 DEF StaysBut
  <2> QED
    BY <1>5, <2>1, <2>2, <2>3 DEF QuitAnnounced, Announces
<1> QED
  BY <1>3, <1>5 DEF QuitAnnounced, Announces
LEMMA BInvStep ==
  ASSUME BInv, TypeOK', NEW g \in Goroutines, NEW X, NEW Y,
         Moves(stack, stack', g, X, Y), Balanced(X, Y), Announces(X, Y)
  PROVE  BInv'
BY BooksStep, AnnouncedStep DEF BInv

\* The values the books add up.
LEMMA Amounts ==
  ASSUME TypeOK
  PROVE  /\ emitted["will-finish-launching"] \in Nat
         /\ emitted["ready"] \in Nat /\ emitted["before-quit"] \in Nat
         /\ emitted["will-quit"] \in Nat /\ emitted["quit"] \in Nat
         /\ vetoed["before-quit"] \in Nat /\ vetoed["will-quit"] \in Nat
         /\ exits \in Nat /\ ready \in BOOLEAN /\ quitting \in BOOLEAN
BY DEF TypeOK, Events

\* A step that replaces frames by others of their kind and emits nothing.
LEMMA SameBooks ==
  ASSUME BInv, TypeOK', NEW g \in Goroutines, NEW X, NEW Y,
         Moves(stack, stack', g, X, Y),
         UNCHANGED <<emitted, vetoed, exits, ready, quitting>>,
         /\ Kind(X, Launching) = Kind(Y, Launching)
         /\ Kind(X, Readying) = Kind(Y, Readying)
         /\ Kind(X, Asking) = Kind(Y, Asking)
         /\ Kind(X, Leaving) = Kind(Y, Leaving),
         \A f \in X : f.at = "quit" => \E y \in Y : y.at = "quit",
         \A y \in Y : y.at = "quit" => \E f \in X : f.at = "quit"
  PROVE  BInv'
<1>1. Balanced(X, Y)
  BY DEF Balanced
<1>2. PICK k \in Nat : \A f \in X : k \in DOMAIN stack[g] /\ stack[g][k] = f
  BY MovedFrames DEF BInv, TypeOK
<1>3. \A f \in X : f.at = "quit" => quitting
  BY <1>2 DEF BInv, QuitAnnounced
<1>4. emitted["quit"] >= emitted["quit"]
  BY Amounts DEF BInv
<1>5. Announces(X, Y)
  BY <1>3, <1>4 DEF Announces, BInv, QuitAnnounced
<1> QED
  BY <1>1, <1>5, BInvStep

\* How a frame counts.
LEMMA Kinds ==
  ASSUME NEW f \in Frames
  PROVE  /\ Kind({f}, Launching) = Bit(f.at = "will-finish-launching")
         /\ Kind({f}, Readying) = Bit(f.at = "ready")
         /\ Kind({f}, Asking) = Bit(f.at = "will-quit" /\ ~f.prevented)
         /\ Kind({f}, Leaving)
              = Bit((f.at = "commit" /\ ~f.prevented) \/ f.at = "quit")
         /\ Kind({}, Launching) = 0 /\ Kind({}, Readying) = 0
         /\ Kind({}, Asking) = 0 /\ Kind({}, Leaving) = 0
BY KindOf DEF Launching, Readying, Asking, Leaving, Bit

\* A frame at a step that does not count.
Idle(f) ==
  /\ f.at \notin {"will-finish-launching", "ready", "quit"}
  /\ f.prevented \/ f.at \notin {"will-quit", "commit"}

LEMMA IdleKinds ==
  ASSUME NEW f \in Frames, Idle(f)
  PROVE  /\ Kind({f}, Launching) = 0 /\ Kind({f}, Readying) = 0
         /\ Kind({f}, Asking) = 0 /\ Kind({f}, Leaving) = 0
BY Kinds DEF Idle, Bit

LEMMA BooksEmit ==
  ASSUME BInv, NEW g \in Goroutines, NEW e \in Events, Emit(g, e)
  PROVE  BInv'
<1> DEFINE f == Top(g)
           y == Emitted(f, e)
<1>1. TypeOK /\ QuitAnnounced
  BY DEF BInv
<1>2. /\ Moves(stack, stack', g, {f}, {y}) /\ f \in Frames /\ y \in Frames
      /\ f.at = e /\ ~f.prevented /\ y.at = After(e) /\ ~y.prevented
  BY <1>1, EmitMoves
<1>3. /\ emitted' = [emitted EXCEPT ![e] = @ + 1]
      /\ UNCHANGED <<ready, quitting, waiters, handlers, history>>
  BY DEF Emit
<1>4. PICK k \in DOMAIN stack[g] : stack[g][k] = f
  BY <1>1, TopFrame DEF Emit, At
<1>5. e = "quit" => quitting
  BY <1>1, <1>2, <1>4 DEF QuitAnnounced
<1> HIDE DEF f, y
<1>6. TypeOK'
  BY <1>1, <1>2, <1>3 DEF TypeOK, Moves, history
<1>7. /\ Kind({f}, Launching) = Bit(e = "will-finish-launching")
      /\ Kind({f}, Readying) = Bit(e = "ready")
      /\ Kind({f}, Asking) = Bit(e = "will-quit")
      /\ Kind({f}, Leaving) = Bit(e = "quit")
  BY <1>2, Kinds DEF Bit, Events
<1>8. /\ Kind({y}, Launching) = 0
      /\ Kind({y}, Readying) = Bit(e = "will-finish-launching")
      /\ Kind({y}, Asking) = Bit(e = "before-quit")
      /\ Kind({y}, Leaving) = Bit(e = "will-quit")
  BY <1>2, Kinds DEF Bit, Events, After
<1>9. \A d \in Events : emitted'[d] = emitted[d] + Bit(d = e)
  BY <1>1, <1>3 DEF TypeOK, Bit
<1>10. Balanced({f}, {y})
  <2>1. /\ emitted'["will-finish-launching"]
             = emitted["will-finish-launching"] + Bit(e = "will-finish-launching")
        /\ emitted'["ready"] = emitted["ready"] + Bit(e = "ready")
        /\ emitted'["before-quit"] = emitted["before-quit"] + Bit(e = "before-quit")
        /\ emitted'["will-quit"] = emitted["will-quit"] + Bit(e = "will-quit")
        /\ emitted'["quit"] = emitted["quit"] + Bit(e = "quit")
    BY <1>9 DEF Events, Bit
  <2>2. UNCHANGED <<ready, vetoed, exits>>
    BY <1>3 DEF history
  <2> QED
    BY <1>1, <1>7, <1>8, <2>1, <2>2, Amounts DEF Balanced, Bit
<1>11. Announces({f}, {y})
  <2>1. y.at # "quit"
    BY <1>2 DEF After, Events
  <2>2. emitted'["quit"] = emitted["quit"] + Bit("quit" = e)
    BY <1>9 DEF Events
  <2> QED
    BY <1>1, <1>2, <1>3, <1>5, <2>1, <2>2, Amounts DEF Announces, Bit, QuitAnnounced
<1> QED
  BY <1>2, <1>6, <1>10, <1>11, BInvStep
\* A goroutine begins an operation that emits e first.
LEMMA BooksBegin ==
  ASSUME BInv, NEW g \in Goroutines,
         NEW e \in {"window-all-closed", "before-quit"},
         Push(g, Operation(e, <<>>)), UNCHANGED <<state, history>>
  PROVE  BInv'
<1> DEFINE y == Operation(e, <<>>)
<1>1. TypeOK
  BY DEF BInv
<1>2. y \in Frames
  BY Beginnings DEF Events
<1>3. y.at = e
  BY DEF Operation
<1> HIDE DEF y
<1>4. Moves(stack, stack', g, {}, {y})
  BY <1>1, <1>2, Pushing DEF y
<1>5. TypeOK'
  BY <1>1, <1>4 DEF TypeOK, Moves, state, history
<1>6. /\ Kind({y}, Launching) = 0 /\ Kind({y}, Readying) = 0
      /\ Kind({y}, Asking) = 0 /\ Kind({y}, Leaving) = 0
  BY <1>2, <1>3, IdleKinds DEF Idle
<1>7. /\ Kind({}, Launching) = 0 /\ Kind({}, Readying) = 0
      /\ Kind({}, Asking) = 0 /\ Kind({}, Leaving) = 0
  BY KindOf
<1>8. UNCHANGED <<emitted, vetoed, exits, ready, quitting>>
  BY DEF state, history
<1> QED
  BY <1>3, <1>4, <1>5, <1>6, <1>7, <1>8, SameBooks

LEMMA BooksExit ==
  ASSUME BInv, NEW g \in Goroutines, Exit(g)
  PROVE  BInv'
<1> DEFINE y == Operation("quit", <<>>)
<1>1. TypeOK
  BY DEF BInv
<1>2. y \in Frames
  BY Beginnings DEF Events
<1>3. y.at = "quit"
  BY DEF Operation
<1>4. Push(g, y)
  BY DEF Exit
<1> HIDE DEF y
<1>5. Moves(stack, stack', g, {}, {y})
  BY <1>1, <1>2, <1>4, Pushing
<1>6. /\ quitting' = TRUE /\ exits' = exits + 1
      /\ UNCHANGED <<ready, waiters, handlers, emitted, called, given, vetoed>>
  BY DEF Exit
<1>7. TypeOK'
  BY <1>1, <1>5, <1>6 DEF TypeOK, Moves
<1>8. /\ Kind({y}, Launching) = 0 /\ Kind({y}, Readying) = 0
      /\ Kind({y}, Asking) = 0 /\ Kind({y}, Leaving) = 1
  BY <1>2, <1>3, Kinds DEF Bit
<1>9. /\ Kind({}, Launching) = 0 /\ Kind({}, Readying) = 0
      /\ Kind({}, Asking) = 0 /\ Kind({}, Leaving) = 0
  BY KindOf
<1>10. Balanced({}, {y})
  BY <1>1, <1>6, <1>8, <1>9, Amounts DEF Balanced, Bit
<1>11. Announces({}, {y})
  BY <1>1, <1>3, <1>6, Amounts DEF Announces
<1> QED
  BY <1>5, <1>7, <1>10, <1>11, BInvStep

LEMMA BooksMarkReady ==
  ASSUME BInv, NEW g \in Goroutines, MarkReady(g)
  PROVE  BInv'
<1> DEFINE o == Operation("will-finish-launching", <<>>)
           y == [o EXCEPT !.waiting = waiters]
<1>1. TypeOK
  BY DEF BInv
<1>2. o \in Frames
  BY Beginnings DEF Events
<1>3. o.at = "will-finish-launching"
  BY DEF Operation
<1>4. Push(g, y)
  BY DEF MarkReady
<1> HIDE DEF o
<1>5. y \in Frames /\ y.at = "will-finish-launching"
  BY <1>1, <1>2, <1>3 DEF Frames, TypeOK
<1> HIDE DEF y
<1>6. Moves(stack, stack', g, {}, {y})
  BY <1>1, <1>4, <1>5, Pushing
<1>7. /\ ready = FALSE /\ ready' = TRUE /\ waiters' = <<>>
      /\ UNCHANGED <<quitting, handlers, emitted, called, given, vetoed, exits>>
  BY <1>1 DEF MarkReady, history, TypeOK
<1>8. TypeOK'
  BY <1>1, <1>6, <1>7 DEF TypeOK, Moves
<1>9. /\ Kind({y}, Launching) = 1 /\ Kind({y}, Readying) = 0
      /\ Kind({y}, Asking) = 0 /\ Kind({y}, Leaving) = 0
  BY <1>5, Kinds DEF Bit
<1>10. /\ Kind({}, Launching) = 0 /\ Kind({}, Readying) = 0
       /\ Kind({}, Asking) = 0 /\ Kind({}, Leaving) = 0
  BY KindOf
<1>11. Balanced({}, {y})
  BY <1>1, <1>7, <1>9, <1>10, Amounts DEF Balanced, Bit
<1>12. Announces({}, {y})
  BY <1>1, <1>5, <1>7, Amounts DEF Announces, BInv, QuitAnnounced
<1> QED
  BY <1>6, <1>8, <1>11, <1>12, BInvStep

LEMMA BooksWhenReady ==
  ASSUME BInv, NEW g \in Goroutines, NEW w \in Waiters, WhenReady(g, w)
  PROVE  BInv'
<1> DEFINE y == Operation("return", <<w>>)
<1>1. TypeOK
  BY DEF BInv
<1>2. y \in Frames
  <2>1. <<w>> \in Seq(Callbacks)
    BY DEF Callbacks
  <2> QED
    BY <2>1, Operations DEF Steps
<1>3. y.at = "return"
  BY DEF Operation
<1>4. /\ given' = given \cup {w}
      /\ UNCHANGED <<ready, quitting, handlers, emitted, called, vetoed, exits>>
  BY DEF WhenReady
<1>5. /\ Kind({}, Launching) = 0 /\ Kind({}, Readying) = 0
      /\ Kind({}, Asking) = 0 /\ Kind({}, Leaving) = 0
  BY KindOf
<1>6. CASE MustWait
  <2>1. waiters' = Append(waiters, w) /\ UNCHANGED stack
    BY <1>6 DEF WhenReady
  <2>2. Moves(stack, stack', g, {}, {})
    BY <1>1, <2>1, Staying
  <2>3. waiters' \in Seq(Waiters)
    BY <1>1, <2>1, AppendProperties DEF TypeOK
  <2>4. TypeOK'
    BY <1>1, <1>4, <2>1, <2>3 DEF TypeOK
  <2> QED
    BY <1>4, <1>5, <2>2, <2>4, SameBooks
<1>7. CASE ~MustWait
  <2>1. Push(g, y) /\ UNCHANGED waiters
    BY <1>7 DEF WhenReady
  <2> HIDE DEF y
  <2>2. Moves(stack, stack', g, {}, {y})
    BY <1>1, <1>2, <2>1, Pushing
  <2>3. TypeOK'
    BY <1>1, <1>4, <2>1, <2>2 DEF TypeOK, Moves
  <2>4. /\ Kind({y}, Launching) = 0 /\ Kind({y}, Readying) = 0
        /\ Kind({y}, Asking) = 0 /\ Kind({y}, Leaving) = 0
    BY <1>2, <1>3, IdleKinds DEF Idle
  <2> QED
    BY <1>3, <1>4, <1>5, <2>2, <2>3, <2>4, SameBooks
<1> QED
  BY <1>6, <1>7
LEMMA BooksCommit ==
  ASSUME BInv, NEW g \in Goroutines, Commit(g)
  PROVE  BInv'
<1> DEFINE f == Top(g)
           y == [f EXCEPT !.at = "quit", !.prevented = FALSE]
<1>1. TypeOK
  BY DEF BInv
<1>2. /\ Moves(stack, stack', g, {f}, {y}) /\ f \in Frames /\ y \in Frames
      /\ f.at = "commit" /\ ~f.prevented /\ y.at = "quit" /\ ~y.prevented
  BY <1>1, CommitMoves
<1> HIDE DEF f, y
<1>3. quitting' = TRUE /\ UNCHANGED <<ready, waiters, handlers, emitted, history>>
  BY DEF Commit
<1>4. TypeOK'
  BY <1>1, <1>2, <1>3 DEF TypeOK, Moves, history
<1>5. /\ Kind({f}, Launching) = Kind({y}, Launching)
      /\ Kind({f}, Readying) = Kind({y}, Readying)
      /\ Kind({f}, Asking) = Kind({y}, Asking)
      /\ Kind({f}, Leaving) = Kind({y}, Leaving)
  BY <1>2, Kinds DEF Bit
<1>6. Balanced({f}, {y})
  BY <1>3, <1>5 DEF Balanced, history
<1>7. Announces({f}, {y})
  BY <1>1, <1>2, <1>3, Amounts DEF Announces
<1> QED
  BY <1>2, <1>4, <1>6, <1>7, BInvStep

\* An operation ends: nobody prevented it, or it was and gives up.
LEMMA BooksEnd ==
  ASSUME BInv, NEW g \in Goroutines, NEW step, At(g, step), Pop(g),
         Idle(Top(g)), UNCHANGED <<state, called, given, vetoed, exits>>
  PROVE  BInv'
<1> DEFINE f == Top(g)
<1>1. TypeOK
  BY DEF BInv
<1>2. Moves(stack, stack', g, {f}, {}) /\ f \in Frames
  BY <1>1, PopsEmpty
<1>3. f.at # "quit"
  BY DEF Idle
<1> HIDE DEF f
<1>4. TypeOK'
  BY <1>1, <1>2 DEF TypeOK, Moves, state
<1>5. /\ Kind({f}, Launching) = 0 /\ Kind({f}, Readying) = 0
      /\ Kind({f}, Asking) = 0 /\ Kind({f}, Leaving) = 0
  BY <1>2, IdleKinds DEF f
<1>6. /\ Kind({}, Launching) = 0 /\ Kind({}, Readying) = 0
      /\ Kind({}, Asking) = 0 /\ Kind({}, Leaving) = 0
  BY KindOf
<1> QED
  BY <1>2, <1>3, <1>4, <1>5, <1>6, SameBooks DEF state

\* An operation goes on to a step that does not count either.
LEMMA BooksIdle ==
  ASSUME BInv, NEW g \in Goroutines, NEW f \in Frames, NEW y \in Frames,
         Moves(stack, stack', g, {f}, {y}), Idle(f), Idle(y),
         UNCHANGED <<state, called, given, vetoed, exits>>
  PROVE  BInv'
<1>1. f.at # "quit" /\ y.at # "quit"
  BY DEF Idle
<1>2. TypeOK'
  BY DEF BInv, TypeOK, Moves, state
<1>3. /\ Kind({f}, Launching) = 0 /\ Kind({f}, Readying) = 0
      /\ Kind({f}, Asking) = 0 /\ Kind({f}, Leaving) = 0
  BY IdleKinds
<1>4. /\ Kind({y}, Launching) = 0 /\ Kind({y}, Readying) = 0
      /\ Kind({y}, Asking) = 0 /\ Kind({y}, Leaving) = 0
  BY IdleKinds
<1> QED
  BY <1>1, <1>2, <1>3, <1>4, SameBooks DEF state

LEMMA BooksSubscribed ==
  ASSUME BInv, NEW g \in Goroutines, Subscribed(g)
  PROVE  BInv'
<1>1. At(g, "subscribed") /\ UNCHANGED <<state, called, given, vetoed, exits>>
  BY DEF Subscribed
<1>2. CASE Pop(g)
  <2>1. Idle(Top(g))
    BY <1>1 DEF At, Idle
  <2> QED
    BY <1>1, <1>2, <2>1, BooksEnd
<1>3. CASE GoOn(g, "before-quit")
  <2> DEFINE f == Top(g)
             y == [f EXCEPT !.at = "before-quit"]
  <2>1. /\ Moves(stack, stack', g, {f}, {y}) /\ f \in Frames /\ y \in Frames
        /\ f.at = "subscribed" /\ y.at = "before-quit"
    BY <1>1, <1>3, GoOnMoves DEF BInv
  <2> HIDE DEF f, y
  <2>2. Idle(f) /\ Idle(y)
    BY <2>1 DEF Idle
  <2> QED
    BY <1>1, <2>1, <2>2, BooksIdle
<1> QED
  BY <1>2, <1>3 DEF Subscribed

LEMMA BooksCallWaiters ==
  ASSUME BInv, NEW g \in Goroutines, CallWaiters(g)
  PROVE  BInv'
<1> DEFINE f == Top(g)
           y == Operation("return", f.waiting)
<1>1. /\ Moves(stack, stack', g, {f}, {y}) /\ f \in Frames /\ y \in Frames
      /\ f.at = "waiters"
  BY CallWaitersMoves DEF BInv
<1>2. y.at = "return"
  BY DEF Operation
<1> HIDE DEF f, y
<1>3. Idle(f) /\ Idle(y)
  BY <1>1, <1>2 DEF Idle
<1>4. UNCHANGED <<state, called, given, vetoed, exits>>
  BY DEF CallWaiters, history
<1> QED
  BY <1>1, <1>3, <1>4, BooksIdle

LEMMA BooksCallBack ==
  ASSUME BInv, NEW g \in Goroutines, CallBack(g)
  PROVE  BInv'
<1> DEFINE f == Top(g)
           y == [f EXCEPT !.inside = TRUE]
<1>1. TypeOK
  BY DEF BInv
<1>2. /\ Moves(stack, stack', g, {f}, {y}) /\ f \in Frames /\ y \in Frames
      /\ f.calls # <<>> /\ y.at = f.at /\ y.prevented = f.prevented
  BY <1>1, CallBackMoves
<1>3. /\ called' = [called EXCEPT ![Head(f.calls)] = IF @ < 2 THEN @ + 1 ELSE @]
      /\ UNCHANGED <<state, given, vetoed, exits>>
  BY DEF CallBack
<1> HIDE DEF f, y
<1>4. called' \in [Callbacks -> Nat]
  <2> DEFINE h == Head(f.calls)
  <2>1. called \in [Callbacks -> Nat]
    BY <1>1 DEF TypeOK, Callbacks
  <2>2. h \in Callbacks
    BY <1>2, HeadTailProperties DEF Frames
  <2> HIDE DEF h
  <2>3. (IF called[h] < 2 THEN called[h] + 1 ELSE called[h]) \in Nat
    BY <2>1, <2>2
  <2> QED
    BY <1>3, <2>1, <2>2, <2>3 DEF h
<1>5. TypeOK'
  BY <1>1, <1>2, <1>3, <1>4 DEF TypeOK, Moves, state
<1>6. /\ Kind({f}, Launching) = Kind({y}, Launching)
      /\ Kind({f}, Readying) = Kind({y}, Readying)
      /\ Kind({f}, Asking) = Kind({y}, Asking)
      /\ Kind({f}, Leaving) = Kind({y}, Leaving)
  BY <1>2, Kinds DEF Bit
<1> QED
  BY <1>2, <1>3, <1>5, <1>6, SameBooks DEF state

LEMMA BooksCallReturns ==
  ASSUME BInv, NEW g \in Goroutines, CallReturns(g), Top(g).calls # <<>>
  PROVE  BInv'
<1> DEFINE f == Top(g)
<1>1. TypeOK /\ Inside(g) /\ UNCHANGED <<state, called, given, exits>>
  BY DEF BInv, CallReturns
<1>2. f \in Frames
  BY <1>1, TopFrame DEF Inside
<1>3. CASE SetTop(g, [f EXCEPT !.calls = Tail(@), !.inside = FALSE])
           /\ UNCHANGED vetoed
  <2> DEFINE y == Returned(f, f.prevented)
  <2>1. f.prevented \in BOOLEAN
    BY <1>2 DEF Frames
  <2>2. y = [f EXCEPT !.calls = Tail(@), !.inside = FALSE]
    BY <1>2 DEF Returned, Frames
  <2>3. SetTop(g, y)
    BY <1>3, <2>2
  <2>4. /\ Moves(stack, stack', g, {f}, {y}) /\ y \in Frames
        /\ y.at = f.at /\ y.prevented = f.prevented
    BY <1>1, <2>1, <2>3, ReturnMoves
  <2> HIDE DEF f, y
  <2>5. TypeOK'
    BY <1>1, <1>3, <2>4 DEF TypeOK, Moves, state
  <2>6. /\ Kind({f}, Launching) = Kind({y}, Launching)
        /\ Kind({f}, Readying) = Kind({y}, Readying)
        /\ Kind({f}, Asking) = Kind({y}, Asking)
        /\ Kind({f}, Leaving) = Kind({y}, Leaving)
    <3>1. f \in Frames /\ y \in Frames /\ y.at = f.at /\ y.prevented = f.prevented
      BY <1>2, <2>4
    <3> QED
      BY <3>1, Kinds
  <2>7. UNCHANGED <<emitted, vetoed, exits, ready, quitting>>
    BY <1>1, <1>3 DEF state
  <2>8. f.at = "quit" <=> y.at = "quit"
    BY <2>4
  <2> QED
    BY <2>4, <2>5, <2>6, <2>7, <2>8, SameBooks
<1>4. ASSUME NEW e \in {"before-quit", "will-quit"},
             f.at = After(e), ~f.prevented,
             SetTop(g, [f EXCEPT !.calls = Tail(@), !.inside = FALSE,
                                 !.prevented = TRUE]),
             vetoed' = [vetoed EXCEPT ![e] = @ + 1]
      PROVE  BInv'
  <2> DEFINE y == Returned(f, TRUE)
  <2>1. SetTop(g, y)
    BY <1>4 DEF Returned
  <2>2. /\ Moves(stack, stack', g, {f}, {y}) /\ y \in Frames
        /\ y.at = f.at /\ y.prevented
    BY <1>1, <2>1, ReturnMoves
  <2>3. f.at = After(e) /\ ~f.prevented
    BY <1>4
  <2> HIDE DEF f, y
  <2>4. TypeOK'
    BY <1>1, <1>4, <2>2 DEF TypeOK, Moves, state
  <2>5. /\ f.at = IF e = "before-quit" THEN "will-quit" ELSE "commit"
        /\ Idle(y)
    BY <2>2, <2>3 DEF After, Idle
  <2>6. /\ Kind({f}, Launching) = 0 /\ Kind({f}, Readying) = 0
        /\ Kind({f}, Asking) = Bit(e = "before-quit")
        /\ Kind({f}, Leaving) = Bit(e = "will-quit")
    BY <1>2, <2>3, <2>5, Kinds DEF Bit
  <2>7. /\ Kind({y}, Launching) = 0 /\ Kind({y}, Readying) = 0
        /\ Kind({y}, Asking) = 0 /\ Kind({y}, Leaving) = 0
    BY <2>2, <2>5, IdleKinds
  <2>8. /\ vetoed'["before-quit"] = vetoed["before-quit"] + Bit(e = "before-quit")
        /\ vetoed'["will-quit"] = vetoed["will-quit"] + Bit(e = "will-quit")
    BY <1>1, <1>4 DEF TypeOK, Bit
  <2>9. Balanced({f}, {y})
    <3>1. emitted' = emitted /\ ready' = ready /\ exits' = exits
      BY <1>1 DEF state
    <3>2. /\ emitted["before-quit"] \in Nat /\ emitted["will-quit"] \in Nat
          /\ vetoed["before-quit"] \in Nat
      BY <1>1, Amounts
    <3>3. emitted["will-quit"] + vetoed'["before-quit"] + Kind({y}, Asking)
              + emitted["before-quit"]
            = emitted["will-quit"] + vetoed["before-quit"] + Kind({f}, Asking)
              + emitted["before-quit"]
      BY <2>6, <2>7, <2>8, <3>2 DEF Bit
    <3>4. /\ emitted["quit"] \in Nat /\ emitted["will-quit"] \in Nat
          /\ vetoed["will-quit"] \in Nat /\ exits \in Nat
      BY <1>1, Amounts
    <3>5. emitted["quit"] + vetoed'["will-quit"] + Kind({y}, Leaving)
              + emitted["will-quit"] + exits
            = emitted["quit"] + vetoed["will-quit"] + Kind({f}, Leaving)
              + emitted["will-quit"] + exits
      BY <2>6, <2>7, <2>8, <3>4 DEF Bit
    <3> QED
      BY <2>6, <2>7, <3>1, <3>3, <3>5 DEF Balanced
  <2>10. Announces({f}, {y})
    BY <1>1, <2>2, <2>5, Amounts DEF Announces, state, BInv, QuitAnnounced
  <2> QED
    BY <2>2, <2>4, <2>9, <2>10, BInvStep
<1> QED
  BY <1>3, <1>4 DEF CallReturns
-----------------------------------------------------------------------------
(* The waiters. *)

LEMMA HeldFacts ==
  ASSUME NEW f \in Frames
  PROVE  /\ DOMAIN f.waiting = 1 .. Len(f.waiting)
         /\ DOMAIN f.calls = 1 .. Len(f.calls)
         /\ Len(f.waiting) \in Nat /\ Len(f.calls) \in Nat
         /\ \A i \in DOMAIN f.waiting :
              f.waiting[i] \in Waiters /\ f.waiting[i] \in Held(f)
         /\ \A i \in DOMAIN f.calls :
              /\ f.calls[i] \in Callbacks
              /\ f.calls[i] \in Waiters => f.calls[i] \in Held(f)
<1>1. f.waiting \in Seq(Waiters) /\ f.calls \in Seq(Callbacks)
  BY DEF Frames
<1>2. /\ DOMAIN f.waiting = 1 .. Len(f.waiting) /\ Len(f.waiting) \in Nat
      /\ DOMAIN f.calls = 1 .. Len(f.calls) /\ Len(f.calls) \in Nat
  BY <1>1, LenProperties
<1>3. /\ \A i \in 1 .. Len(f.waiting) : f.waiting[i] \in Waiters
      /\ \A i \in 1 .. Len(f.calls) : f.calls[i] \in Callbacks
  BY <1>1, ElementOfSeq
<1> QED
  BY <1>2, <1>3 DEF Held, Range

LEMMA FrameKept ==
  ASSUME NEW f \in Frames, NEW r, NEW c, NEW gs, NEW r2, NEW c2, NEW gs2,
         FrameOK(f, r, c, gs), r => r2, gs \subseteq gs2,
         \A w \in Held(f) : c2[w] = c[w]
  PROVE  FrameOK(f, r2, c2, gs2)
<1>1. WaitersOK(f, c2)
  BY HeldFacts DEF FrameOK, WaitersOK
<1> QED
  BY <1>1 DEF FrameOK

LEMMA FramesStep ==
  ASSUME TypeOK, FramesOK, OneHolder, NEW g \in Goroutines, NEW X, NEW Y,
         Moves(stack, stack', g, X, Y),
         ready => ready', given \subseteq given',
         \A w \in Waiters :
           called'[w] = called[w] \/ \E x \in X : w \in Held(x),
         \A y \in Y : FrameOK(y, ready', called', given')
  PROVE  FramesOK'
<1>1. PICK k \in Nat :
        /\ StaysBut(stack', stack, g, k, Y)
        /\ \A f \in X : k \in DOMAIN stack[g] /\ stack[g][k] = f
  BY MovedFrames DEF TypeOK
<1> SUFFICES ASSUME NEW h \in Goroutines, NEW i \in DOMAIN stack'[h]
             PROVE  FrameOK(stack'[h][i], ready', called', given')
  BY DEF FramesOK
<1>2. CASE stack'[h][i] \in Y
  BY <1>2
<1>3. CASE /\ h # g \/ i # k
           /\ i \in DOMAIN stack[h] /\ stack[h][i] = stack'[h][i]
  <2> DEFINE f == stack[h][i]
  <2>1. f \in Frames /\ FrameOK(f, ready, called, given)
    BY <1>3, Levels DEF TypeOK, FramesOK
  <2>2. \A w \in Held(f) : called'[w] = called[w]
    <3> SUFFICES ASSUME NEW w \in Held(f), NEW x \in X, w \in Held(x)
                 PROVE  FALSE
      BY DEF Held
    <3>1. k \in DOMAIN stack[g] /\ w \in Held(stack[g][k])
      BY <1>1
    <3>2. Held(stack[g][k]) \cap Held(stack[h][i]) # {}
      BY <3>1
    <3> QED
      BY <1>3, <3>1, <3>2 DEF OneHolder
  <2> HIDE DEF f
  <2>3. FrameOK(f, ready', called', given')
    BY <2>1, <2>2, FrameKept
  <2> QED
    BY <1>3, <2>3 DEF f
<1> QED
  BY <1>1, <1>2, <1>3 DEF StaysBut

LEMMA HolderStep ==
  ASSUME TypeOK, OneHolder, NEW g \in Goroutines, NEW X, NEW Y,
         Moves(stack, stack', g, X, Y),
         \A y \in Y : \A w \in Held(y) :
           ~HeldIn(stack, w) \/ \E x \in X : w \in Held(x)
  PROVE  OneHolder'
<1>1. PICK k \in Nat :
        /\ StaysBut(stack', stack, g, k, Y)
        /\ \A f \in X : k \in DOMAIN stack[g] /\ stack[g][k] = f
  BY MovedFrames DEF TypeOK
<1>2. ASSUME NEW h \in Goroutines, NEW i \in DOMAIN stack'[h], NEW w,
             w \in Held(stack'[h][i]), h # g \/ i # k
      PROVE  /\ i \in DOMAIN stack[h] /\ w \in Held(stack[h][i])
             /\ \A y \in Y : w \notin Held(y)
  <2>1. i \in DOMAIN stack[h] /\ stack[h][i] = stack'[h][i]
    BY <1>1, <1>2 DEF StaysBut
  <2>2. HeldIn(stack, w)
    BY <1>2, <2>1 DEF HeldIn
  <2>3. \A x \in X : w \notin Held(x)
    <3> SUFFICES ASSUME NEW x \in X, w \in Held(x)
                 PROVE  FALSE
      OBVIOUS
    <3>1. k \in DOMAIN stack[g] /\ w \in Held(stack[g][k])
      BY <1>1
    <3>2. Held(stack[g][k]) \cap Held(stack[h][i]) # {}
      BY <1>2, <2>1, <3>1
    <3> QED
      BY <1>2, <2>1, <3>1, <3>2 DEF OneHolder
  <2> QED
    BY <1>2, <2>1, <2>2, <2>3
<1>3. ASSUME NEW h \in Goroutines, NEW i \in DOMAIN stack'[h],
             NEW d \in Goroutines, NEW j \in DOMAIN stack'[d],
             NEW w, w \in Held(stack'[h][i]), w \in Held(stack'[d][j])
      PROVE  h = d /\ i = j
  <2>1. CASE h = g /\ i = k /\ d = g /\ j = k
    BY <2>1
  <2>2. CASE h = g /\ i = k /\ (d # g \/ j # k)
    <3>1. stack'[h][i] \in Y
      BY <1>1, <2>2 DEF StaysBut
    <3> QED
      BY <1>2, <1>3, <2>2, <3>1
  <2>3. CASE (h # g \/ i # k) /\ d = g /\ j = k
    <3>1. stack'[d][j] \in Y
      BY <1>1, <2>3 DEF StaysBut
    <3> QED
      BY <1>2, <1>3, <2>3, <3>1
  <2>4. CASE (h # g \/ i # k) /\ (d # g \/ j # k)
    <3>1. /\ i \in DOMAIN stack[h] /\ w \in Held(stack[h][i])
          /\ j \in DOMAIN stack[d] /\ w \in Held(stack[d][j])
      BY <1>2, <1>3, <2>4
    <3>2. Held(stack[h][i]) \cap Held(stack[d][j]) # {}
      BY <3>1
    <3> QED
      BY <3>1, <3>2 DEF OneHolder
  <2> QED
    BY <2>1, <2>2, <2>3, <2>4
<1> QED
  BY <1>3 DEF OneHolder

\* Who holds a waiter after the step.
LEMMA HeldStep ==
  ASSUME TypeOK, NEW g \in Goroutines, NEW X, NEW Y,
         Moves(stack, stack', g, X, Y), NEW w
  PROVE  /\ HeldIn(stack, w) =>
              HeldIn(stack', w) \/ \E x \in X : w \in Held(x)
         /\ \A y \in Y : w \in Held(y) => HeldIn(stack', w)
         /\ \A x \in X : w \in Held(x) => HeldIn(stack, w)
<1>1. PICK k \in Nat :
        /\ StaysBut(stack, stack', g, k, X)
        /\ \A f \in X : k \in DOMAIN stack[g] /\ stack[g][k] = f
        /\ \A f \in Y : k \in DOMAIN stack'[g] /\ stack'[g][k] = f
  BY MovedFrames DEF TypeOK
<1>2. ASSUME NEW h \in Goroutines, NEW i \in DOMAIN stack[h],
             w \in Held(stack[h][i])
      PROVE  HeldIn(stack', w) \/ \E x \in X : w \in Held(x)
  BY <1>1, <1>2 DEF StaysBut, HeldIn
<1>3. \A y \in Y : w \in Held(y) => HeldIn(stack', w)
  BY <1>1 DEF HeldIn
<1>4. \A x \in X : w \in Held(x) => HeldIn(stack, w)
  BY <1>1 DEF HeldIn
<1> QED
  BY <1>2, <1>3, <1>4 DEF HeldIn
\* A waiter that is held was given to an app that is ready.
LEMMA HeldIsGiven ==
  ASSUME FramesOK, NEW w, HeldIn(stack, w)
  PROVE  ready /\ w \in given
BY DEF FramesOK, FrameOK, HeldIn

\* A step that calls a waiter the frames it gives up hold, or lets go of one
\* that was called, and takes no other.
Hands(X, Y) ==
  /\ \A w \in Waiters :
       \/ called'[w] = called[w]
       \/ (\E x \in X : w \in Held(x)) /\ called[w] = 0 /\ called'[w] = 1
  /\ \A y \in Y : FrameOK(y, ready, called', given)
  /\ \A y \in Y : \A w \in Held(y) : \E x \in X : w \in Held(x)
  /\ \A x \in X : \A w \in Held(x) :
       called'[w] = 1 \/ \E y \in Y : w \in Held(y)

LEMMA WInvStep ==
  ASSUME WInv, TypeOK', NEW g \in Goroutines, NEW X, NEW Y,
         Moves(stack, stack', g, X, Y), Hands(X, Y),
         UNCHANGED <<ready, waiters, given>>
  PROVE  WInv'
<1>1. /\ TypeOK /\ FramesOK /\ OneHolder /\ WaitingOK
      /\ \A w \in Waiters : WaiterOK(w)
  BY DEF WInv
<1>2. \A w : \A x \in X : w \in Held(x) => HeldIn(stack, w)
  BY <1>1, HeldStep
<1>3. FramesOK'
  BY <1>1, FramesStep DEF Hands
<1>4. OneHolder'
  BY <1>1, HolderStep DEF Hands
<1>5. \A w \in Waiters : called'[w] = called[w] \/ HeldIn(stack, w)
  BY <1>2 DEF Hands
<1>6. WaitingOK'
  <2>1. \A i \in DOMAIN waiters : waiters[i] \in Waiters
    BY <1>1, ElementOfSeq, LenProperties DEF TypeOK
  <2>2. \A i \in DOMAIN waiters : called'[waiters[i]] = 0
    <3> SUFFICES ASSUME NEW i \in DOMAIN waiters
                 PROVE  called'[waiters[i]] = 0
      OBVIOUS
    <3>1. called[waiters[i]] = 0
      BY <1>1 DEF WaitingOK
    <3>2. ~HeldIn(stack, waiters[i])
      <4>1. waiters # <<>>
        OBVIOUS
      <4> QED
        BY <1>1, <4>1, HeldIsGiven DEF WaitingOK
    <3> QED
      BY <1>5, <2>1, <3>1, <3>2
  <2> QED
    BY <1>1, <2>2 DEF WaitingOK
<1>7. ASSUME NEW w \in Waiters
      PROVE  WaiterOK(w)'
  <2>1. /\ called[w] <= 1 /\ called[w] \in Nat /\ called'[w] \in Nat
        /\ called[w] > 0 => ready /\ w \in given
        /\ w \in given => Accounted(w)
    BY <1>1 DEF WaiterOK, TypeOK, Callbacks
  <2>2. \/ called'[w] = called[w]
        \/ called[w] = 0 /\ called'[w] = 1 /\ HeldIn(stack, w)
    BY <1>2 DEF Hands
  <2>3. called'[w] <= 1 /\ (called'[w] > 0 => ready' /\ w \in given')
    <3>1. CASE called'[w] = called[w]
      BY <2>1, <3>1
    <3>2. CASE called'[w] = 1 /\ HeldIn(stack, w)
      BY <1>1, <3>2, HeldIsGiven
    <3> QED
      BY <2>2, <3>1, <3>2
  <2>4. HeldIn(stack, w) => HeldIn(stack', w) \/ called'[w] = 1
    <3>1. /\ HeldIn(stack, w) =>
               HeldIn(stack', w) \/ \E x \in X : w \in Held(x)
          /\ \A y \in Y : w \in Held(y) => HeldIn(stack', w)
      BY <1>1, HeldStep
    <3> QED
      BY <3>1 DEF Hands
  <2>5. called[w] = 1 => called'[w] = 1
    BY <2>2
  <2>6. w \in given' => Accounted(w)'
    BY <2>1, <2>4, <2>5 DEF Accounted
  <2> QED
    BY <2>3, <2>6 DEF WaiterOK
<1> QED
  BY <1>3, <1>4, <1>6, <1>7 DEF WInv
LEMMA TopOK ==
  ASSUME WInv, NEW g \in Goroutines, stack[g] # <<>>
  PROVE  Top(g) \in Frames /\ FrameOK(Top(g), ready, called, given)
BY TopFrame DEF WInv, FramesOK

LEMMA HandlersAreNoWaiters ==
  ASSUME NEW s \in Seq(Handlers)
  PROVE  \A i \in DOMAIN s : s[i] \in Handlers /\ s[i] \notin Waiters
BY ElementOfSeq, LenProperties, CallbackAssumption

\* A frame that has no calls, or calls of handlers only, holds what waits.
LEMMA HoldsWaiting ==
  ASSUME NEW f \in Frames, f.calls \in Seq(Handlers)
  PROVE  Held(f) = Range(f.waiting)
<1>1. \A i \in DOMAIN f.waiting : f.waiting[i] \in Waiters
  BY HeldFacts
<1>2. \A i \in DOMAIN f.calls : f.calls[i] \notin Waiters
  BY HandlersAreNoWaiters
<1> QED
  BY <1>1, <1>2 DEF Held, Range

LEMMA HoldsNothing ==
  ASSUME NEW f \in Frames, f.calls \in Seq(Handlers), f.waiting = <<>>
  PROVE  Held(f) = {}
<1>1. DOMAIN f.waiting = {}
  OBVIOUS
<1> QED
  BY <1>1, HoldsWaiting DEF Range

\* A frame goes on to another step, perhaps with handlers to call.
LEMMA GoesOn ==
  ASSUME WInv, NEW f \in Frames, NEW y \in Frames,
         FrameOK(f, ready, called, given),
         f.calls = <<>>, y.calls \in Seq(Handlers), y.waiting = f.waiting,
         y.inside = f.inside,
         y.at \notin Starting => f.at \notin Starting
  PROVE  FrameOK(y, ready, called, given) /\ Held(y) = Held(f)
<1>1. f.calls \in Seq(Handlers)
  OBVIOUS
<1>2. Held(y) = Held(f)
  BY <1>1, HoldsWaiting
<1>3. ShapeOK(f) /\ WaitersOK(f, called)
  BY DEF FrameOK
<1>4. ShapeOK(y)
  BY <1>3 DEF ShapeOK
<1>5. WaitersOK(y, called)
  BY <1>3, HandlersAreNoWaiters DEF WaitersOK
<1> QED
  BY <1>2, <1>4, <1>5 DEF FrameOK

\* Nobody is called and no waiter changes hands.
LEMMA KeepsHands ==
  ASSUME NEW f, NEW y,
         FrameOK(y, ready, called, given), Held(y) = Held(f),
         UNCHANGED called
  PROVE  Hands({f}, {y})
BY DEF Hands

LEMMA EmptyHands ==
  ASSUME NEW X, NEW Y, UNCHANGED called,
         \A x \in X : Held(x) = {},
         \A y \in Y : Held(y) = {} /\ FrameOK(y, ready, called, given)
  PROVE  Hands(X, Y)
BY DEF Hands

LEMMA WaitersEmit ==
  ASSUME WInv, TypeOK', NEW g \in Goroutines, NEW e \in Events, Emit(g, e)
  PROVE  WInv'
<1> DEFINE f == Top(g)
           y == Emitted(f, e)
<1>1. /\ Moves(stack, stack', g, {f}, {y}) /\ f \in Frames /\ y \in Frames
      /\ f.at = e /\ f.calls = <<>> /\ y.at = After(e)
      /\ y.calls = handlers[e] /\ y.inside = f.inside
      /\ y.waiting = f.waiting
  BY EmitMoves DEF WInv
<1>2. FrameOK(f, ready, called, given)
  BY TopOK DEF Emit, At
<1>3. y.calls \in Seq(Handlers)
  BY <1>1 DEF WInv, TypeOK
<1> HIDE DEF f, y
<1>4. y.at \notin Starting => f.at \notin Starting
  BY <1>1 DEF After, Events, Starting
<1>5. FrameOK(y, ready, called, given) /\ Held(y) = Held(f)
  BY <1>1, <1>2, <1>3, <1>4, GoesOn
<1>6. UNCHANGED <<ready, waiters, given, called>>
  BY DEF Emit, history
<1>7. Hands({f}, {y})
  BY <1>5, <1>6, KeepsHands
<1> QED
  BY <1>1, <1>6, <1>7, WInvStep

LEMMA WaitersBegin ==
  ASSUME WInv, TypeOK', NEW g \in Goroutines, NEW e \in Events \ Starting,
         Push(g, Operation(e, <<>>)),
         UNCHANGED <<ready, waiters, given, called>>
  PROVE  WInv'
<1> DEFINE y == Operation(e, <<>>)
<1>1. /\ y \in Frames /\ y.at = e /\ y.calls = <<>> /\ y.waiting = <<>>
      /\ ~y.inside
  BY Beginnings
<1>2. Moves(stack, stack', g, {}, {y})
  BY <1>1, Pushing DEF WInv
<1> HIDE DEF y
<1>3. y.calls \in Seq(Handlers)
  BY <1>1
<1>4. Held(y) = {}
  BY <1>1, <1>3, HoldsNothing
<1>5. FrameOK(y, ready, called, given)
  BY <1>1, <1>3, <1>4 DEF FrameOK, ShapeOK, WaitersOK
<1>6. Hands({}, {y})
  BY <1>4, <1>5, EmptyHands
<1> QED
  BY <1>2, <1>6, WInvStep

LEMMA WaitersEnd ==
  ASSUME WInv, TypeOK', NEW g \in Goroutines, NEW step \in Steps \ Starting,
         At(g, step), Pop(g), UNCHANGED <<ready, waiters, given, called>>
  PROVE  WInv'
<1> DEFINE f == Top(g)
<1>1. /\ Moves(stack, stack', g, {f}, {}) /\ f \in Frames
      /\ f.at = step /\ f.calls = <<>>
  BY PopsEmpty DEF WInv
<1>2. f.waiting = <<>>
  BY <1>1, TopOK DEF At, FrameOK, ShapeOK
<1> HIDE DEF f
<1>3. f.calls \in Seq(Handlers)
  BY <1>1
<1>4. Held(f) = {}
  BY <1>1, <1>2, <1>3, HoldsNothing
<1>5. Hands({f}, {})
  BY <1>4, EmptyHands
<1> QED
  BY <1>1, <1>5, WInvStep

LEMMA WaitersCommit ==
  ASSUME WInv, TypeOK', NEW g \in Goroutines, Commit(g)
  PROVE  WInv'
<1> DEFINE f == Top(g)
           y == [f EXCEPT !.at = "quit", !.prevented = FALSE]
<1>1. /\ Moves(stack, stack', g, {f}, {y}) /\ f \in Frames /\ y \in Frames
      /\ f.at = "commit" /\ f.calls = <<>> /\ y.at = "quit" /\ y.calls = <<>>
      /\ y.inside = f.inside /\ y.waiting = f.waiting
  BY CommitMoves DEF WInv
<1>2. FrameOK(f, ready, called, given)
  BY TopOK DEF Commit, At
<1> HIDE DEF f, y
<1>3. y.calls \in Seq(Handlers)
  BY <1>1
<1>4. FrameOK(y, ready, called, given) /\ Held(y) = Held(f)
  BY <1>1, <1>2, <1>3, GoesOn DEF Starting
<1>5. UNCHANGED <<ready, waiters, given, called>>
  BY DEF Commit, history
<1>6. Hands({f}, {y})
  BY <1>4, <1>5, KeepsHands
<1> QED
  BY <1>1, <1>5, <1>6, WInvStep

LEMMA WaitersSubscribed ==
  ASSUME WInv, TypeOK', NEW g \in Goroutines, Subscribed(g)
  PROVE  WInv'
<1>1. At(g, "subscribed") /\ UNCHANGED <<ready, waiters, given, called>>
  BY DEF Subscribed, state
<1>2. CASE Pop(g)
  BY <1>1, <1>2, WaitersEnd DEF Steps, Starting
<1>3. CASE GoOn(g, "before-quit")
  <2> DEFINE f == Top(g)
             y == [f EXCEPT !.at = "before-quit"]
  <2>1. /\ Moves(stack, stack', g, {f}, {y}) /\ f \in Frames /\ y \in Frames
        /\ f.at = "subscribed" /\ f.calls = <<>>
        /\ y.at = "before-quit" /\ y.calls = <<>>
        /\ y.inside = f.inside /\ y.waiting = f.waiting
    BY <1>1, <1>3, GoOnMoves DEF WInv
  <2>2. FrameOK(f, ready, called, given)
    BY <1>1, TopOK DEF At
  <2> HIDE DEF f, y
  <2>3. y.calls \in Seq(Handlers)
    BY <2>1
  <2>4. FrameOK(y, ready, called, given) /\ Held(y) = Held(f)
    BY <2>1, <2>2, <2>3, GoesOn DEF Starting
  <2>5. Hands({f}, {y})
    BY <1>1, <2>4, KeepsHands
  <2> QED
    BY <1>1, <2>1, <2>5, WInvStep
<1> QED
  BY <1>2, <1>3 DEF Subscribed

LEMMA WaitersCallWaiters ==
  ASSUME WInv, TypeOK', NEW g \in Goroutines, CallWaiters(g)
  PROVE  WInv'
<1> DEFINE f == Top(g)
           y == Operation("return", f.waiting)
<1>1. /\ Moves(stack, stack', g, {f}, {y}) /\ f \in Frames /\ y \in Frames
      /\ f.calls = <<>>
  BY CallWaitersMoves DEF WInv
<1>2. FrameOK(f, ready, called, given)
  BY TopOK DEF CallWaiters, At
<1>3. /\ y.at = "return" /\ y.calls = f.waiting /\ y.waiting = <<>> /\ ~y.inside
  BY DEF Operation
<1> HIDE DEF f, y
<1>4. Held(y) = Held(f)
  <2>1. Range(f.calls) = {} /\ Range(y.waiting) = {}
    BY <1>1, <1>3 DEF Range
  <2> QED
    BY <1>3, <2>1 DEF Held
<1>5. FrameOK(y, ready, called, given)
  <2>1. \A i \in DOMAIN f.waiting : f.waiting[i] \in Waiters
    BY <1>1, HeldFacts
  <2>2. WaitersOK(y, called)
    BY <1>2, <1>3 DEF FrameOK, WaitersOK
  <2>3. ShapeOK(y)
    BY <1>3 DEF ShapeOK
  <2> QED
    BY <1>2, <1>4, <2>2, <2>3 DEF FrameOK
<1>6. UNCHANGED <<ready, waiters, given, called>>
  BY DEF CallWaiters, history, state
<1>7. Hands({f}, {y})
  BY <1>4, <1>5, <1>6, KeepsHands
<1> QED
  BY <1>1, <1>6, <1>7, WInvStep
LEMMA WaitersCallBack ==
  ASSUME WInv, TypeOK', NEW g \in Goroutines, CallBack(g)
  PROVE  WInv'
<1> DEFINE f == Top(g)
           y == [f EXCEPT !.inside = TRUE]
           h == f.calls[1]
<1>1. /\ Moves(stack, stack', g, {f}, {y}) /\ f \in Frames /\ y \in Frames
      /\ f.calls # <<>> /\ ~f.inside /\ y.at = f.at /\ y.calls = f.calls
      /\ y.inside /\ y.waiting = f.waiting
  BY CallBackMoves DEF WInv
<1>2. FrameOK(f, ready, called, given)
  BY TopOK DEF CallBack
<1>3. /\ called' = [called EXCEPT ![Head(f.calls)] = IF @ < 2 THEN @ + 1 ELSE @]
      /\ UNCHANGED <<ready, waiters, given>>
  BY DEF CallBack, state
<1> HIDE DEF f, y
<1>4. f.calls \in Seq(Callbacks) /\ called \in [Callbacks -> Nat]
  BY <1>1 DEF Frames, WInv, TypeOK, Callbacks
<1>5. Head(f.calls) = h /\ h \in Callbacks /\ 1 \in DOMAIN f.calls
  <2>1. Len(f.calls) \in Nat \ {0}
    BY <1>1, <1>4, EmptySeq
  <2>2. 1 \in DOMAIN f.calls
    BY <1>1, <2>1, HeldFacts
  <2> QED
    BY <1>1, <1>4, <2>2, HeadTailProperties, HeldFacts
<1>6. ShapeOK(f) /\ WaitersOK(f, called)
  BY <1>2 DEF FrameOK
<1>7. /\ \A c \in Callbacks : c # h => called'[c] = called[c]
      /\ h \in Waiters => called[h] = 0 /\ called'[h] = 1 /\ h \in Held(f)
  <2>1. \A c \in Callbacks : c # h => called'[c] = called[c]
    BY <1>3, <1>4, <1>5
  <2>2. h \in Waiters => called[h] = 0 /\ h \in Held(f)
    BY <1>1, <1>5, <1>6, HeldFacts DEF WaitersOK
  <2>3. called[h] = 0 => called'[h] = 1
    BY <1>3, <1>4, <1>5
  <2> QED
    BY <2>1, <2>2, <2>3
<1>8. Held(y) = Held(f)
  BY <1>1 DEF Held
<1>9. h \in Waiters => f.waiting = <<>>
  <2>1. ASSUME h \in Waiters
        PROVE  f.calls \notin Seq(Handlers)
    BY <1>5, <2>1, HandlersAreNoWaiters
  <2> QED
    BY <1>6, <2>1 DEF ShapeOK, Starting
<1>10. WaitersOK(y, called')
  <2>1. \A i \in DOMAIN f.waiting : called'[f.waiting[i]] = 0
    <3> SUFFICES ASSUME NEW i \in DOMAIN f.waiting
                 PROVE  called'[f.waiting[i]] = 0
      OBVIOUS
    <3>1. f.waiting[i] \in Waiters /\ called[f.waiting[i]] = 0
      BY <1>1, <1>6, HeldFacts DEF WaitersOK
    <3>2. f.waiting[i] # h
      BY <1>9, <3>1
    <3> QED
      BY <1>7, <3>1, <3>2 DEF Callbacks
  <2>2. \A i \in DOMAIN f.calls : f.calls[i] \in Waiters =>
          called'[f.calls[i]] = IF i = 1 THEN 1 ELSE 0
    <3> SUFFICES ASSUME NEW i \in DOMAIN f.calls, f.calls[i] \in Waiters
                 PROVE  called'[f.calls[i]] = IF i = 1 THEN 1 ELSE 0
      OBVIOUS
    <3>1. CASE i = 1
      BY <1>7, <3>1
    <3>2. CASE i # 1
      <4>1. f.calls[i] # h /\ called[f.calls[i]] = 0
        BY <1>5, <1>6, <3>2 DEF WaitersOK
      <4> QED
        BY <1>7, <3>2, <4>1 DEF Callbacks
    <3> QED
      BY <3>1, <3>2
  <2> QED
    BY <1>1, <1>6, <2>1, <2>2 DEF WaitersOK
<1>11. ShapeOK(y)
  BY <1>1, <1>6 DEF ShapeOK
<1>12. FrameOK(y, ready, called', given)
  BY <1>2, <1>8, <1>10, <1>11 DEF FrameOK
<1>13. \A w \in Waiters :
         \/ called'[w] = called[w]
         \/ w \in Held(f) /\ called[w] = 0 /\ called'[w] = 1
  BY <1>7 DEF Callbacks
<1>14. Hands({f}, {y})
  BY <1>8, <1>12, <1>13 DEF Hands
<1> QED
  BY <1>1, <1>3, <1>14, WInvStep

\* The callback a frame was inside is let go of.
LEMMA LetsGo ==
  ASSUME NEW f \in Frames, NEW y \in Frames,
         FrameOK(f, ready, called, given), f.inside,
         y.at = f.at, y.calls = Tail(f.calls), ~y.inside,
         y.waiting = f.waiting, UNCHANGED called
  PROVE  Hands({f}, {y})
<1>1. ShapeOK(f) /\ WaitersOK(f, called) /\ f.calls # <<>>
  BY DEF FrameOK, ShapeOK
<1>2. f.calls \in Seq(Callbacks)
  BY DEF Frames
<1> PICK n \in Nat \ {0} : n = Len(f.calls)
  BY <1>1, <1>2, EmptySeq
<1>3. /\ DOMAIN f.calls = 1 .. n /\ DOMAIN y.calls = 1 .. n - 1
      /\ \A i \in 1 .. n - 1 : y.calls[i] = f.calls[i + 1]
  <2>1. Len(y.calls) = n - 1 /\ \A i \in 1 .. n - 1 : y.calls[i] = f.calls[i + 1]
    BY <1>1, <1>2, HeadTailProperties
  <2> QED
    BY <2>1, HeldFacts
<1>4. \A i \in 1 .. n - 1 : i + 1 \in 1 .. n /\ i + 1 # 1
  OBVIOUS
<1>5. f.calls \in Seq(Handlers) => y.calls \in Seq(Handlers)
  BY <1>1, HeadTailProperties
<1>6. ShapeOK(y)
  BY <1>1, <1>5 DEF ShapeOK
<1>7. WaitersOK(y, called)
  <2>1. \A i, j \in 1 .. n - 1 :
          y.calls[i] \in Waiters /\ y.calls[i] = y.calls[j] => i = j
    <3> SUFFICES ASSUME NEW i \in 1 .. n - 1, NEW j \in 1 .. n - 1,
                        y.calls[i] \in Waiters, y.calls[i] = y.calls[j]
                 PROVE  i = j
      OBVIOUS
    <3>1. i + 1 = j + 1
      BY <1>1, <1>3, <1>4 DEF WaitersOK
    <3> QED
      BY <3>1
  <2>2. \A i \in 1 .. n - 1 : y.calls[i] \in Waiters => called[y.calls[i]] = 0
    BY <1>1, <1>3, <1>4 DEF WaitersOK
  <2>3. /\ \A i, j \in DOMAIN y.waiting : y.waiting[i] = y.waiting[j] => i = j
        /\ \A i \in DOMAIN y.waiting : called[y.waiting[i]] = 0
    BY <1>1 DEF WaitersOK
  <2> QED
    BY <1>3, <2>1, <2>2, <2>3 DEF WaitersOK
<1>8. Held(y) \subseteq Held(f)
  BY <1>3, <1>4 DEF Held, Range
<1>9. FrameOK(y, ready, called', given)
  BY <1>6, <1>7, <1>8 DEF FrameOK
<1>10. ASSUME NEW w \in Held(f)
       PROVE  called'[w] = 1 \/ w \in Held(y)
  <2>1. CASE w \in Range(f.waiting)
    BY <2>1 DEF Held
  <2>2. ASSUME NEW i \in 1 .. n, w = f.calls[i]
        PROVE  called'[w] = 1 \/ w \in Held(y)
    <3>1. CASE i = 1
      BY <1>1, <1>3, <2>2, <3>1 DEF WaitersOK, Held
    <3>2. CASE i # 1
      <4>1. i - 1 \in 1 .. n - 1 /\ (i - 1) + 1 = i
        BY <3>2
      <4>2. y.calls[i - 1] = w
        BY <1>3, <2>2, <4>1
      <4> QED
        BY <1>3, <4>1, <4>2 DEF Held, Range
    <3> QED
      BY <3>1, <3>2
  <2> QED
    BY <1>3, <2>1, <2>2 DEF Held, Range
<1> QED
  BY <1>8, <1>9, <1>10 DEF Hands

LEMMA WaitersCallReturns ==
  ASSUME WInv, TypeOK', NEW g \in Goroutines, CallReturns(g)
  PROVE  WInv'
<1> DEFINE f == Top(g)
<1>1. Inside(g) /\ UNCHANGED <<ready, waiters, given, called>>
  BY DEF CallReturns, state
<1>2. f \in Frames /\ FrameOK(f, ready, called, given) /\ f.inside
  BY <1>1, TopOK DEF Inside
<1>3. PICK p \in BOOLEAN : SetTop(g, Returned(f, p))
  <2>1. CASE SetTop(g, [f EXCEPT !.calls = Tail(@), !.inside = FALSE])
    <3>1. /\ f.prevented \in BOOLEAN
          /\ Returned(f, f.prevented)
               = [f EXCEPT !.calls = Tail(@), !.inside = FALSE]
      BY <1>2 DEF Returned, Frames
    <3> QED
      BY <2>1, <3>1
  <2>2. CASE SetTop(g, [f EXCEPT !.calls = Tail(@), !.inside = FALSE,
                                 !.prevented = TRUE])
    BY <2>2 DEF Returned
  <2> QED
    BY <2>1, <2>2 DEF CallReturns
<1> DEFINE y == Returned(f, p)
<1>4. f.calls # <<>>
  BY <1>2 DEF FrameOK, ShapeOK
<1>5. /\ Moves(stack, stack', g, {f}, {y}) /\ y \in Frames
      /\ y.at = f.at /\ y.calls = Tail(f.calls)
      /\ ~y.inside /\ y.waiting = f.waiting
  BY <1>1, <1>3, <1>4, ReturnMoves DEF WInv
<1> HIDE DEF f, y
<1>6. Hands({f}, {y})
  BY <1>1, <1>2, <1>5, LetsGo
<1> QED
  BY <1>1, <1>5, <1>6, WInvStep
LEMMA WaitersMarkReady ==
  ASSUME WInv, TypeOK', NEW g \in Goroutines, MarkReady(g)
  PROVE  WInv'
<1> DEFINE o == Operation("will-finish-launching", <<>>)
           y == [o EXCEPT !.waiting = waiters]
<1>1. /\ TypeOK /\ FramesOK /\ OneHolder /\ WaitingOK
      /\ \A w \in Waiters : WaiterOK(w)
  BY DEF WInv
<1>2. /\ o \in Frames /\ o.at = "will-finish-launching" /\ o.calls = <<>>
      /\ ~o.inside
  BY Beginnings DEF Events
<1>3. Push(g, y) /\ ready = FALSE /\ ready' = TRUE /\ waiters' = <<>>
      /\ UNCHANGED <<given, called>>
  BY <1>1 DEF MarkReady, history, TypeOK
<1> HIDE DEF o
<1>4. /\ y \in Frames /\ y.at = "will-finish-launching" /\ y.calls = <<>>
      /\ ~y.inside /\ y.waiting = waiters
  BY <1>1, <1>2 DEF Frames, TypeOK
<1> HIDE DEF y
<1>5. Moves(stack, stack', g, {}, {y})
  BY <1>1, <1>3, <1>4, Pushing
<1>6. Held(y) = Range(waiters)
  <2>1. y.calls \in Seq(Handlers)
    BY <1>4
  <2> QED
    BY <1>4, <2>1, HoldsWaiting
<1>7. FrameOK(y, TRUE, called, given)
  <2>1. ShapeOK(y)
    <3>1. y.calls \in Seq(Handlers)
      BY <1>4
    <3> QED
      BY <1>4, <3>1 DEF ShapeOK, Starting
  <2>2. WaitersOK(y, called)
    BY <1>1, <1>4 DEF WaitersOK, WaitingOK
  <2> QED
    BY <1>1, <1>6, <2>1, <2>2 DEF FrameOK, WaitingOK
<1>8. \A w : ~HeldIn(stack, w)
  BY <1>1, <1>3, HeldIsGiven
<1>9. FramesOK'
  BY <1>1, <1>3, <1>5, <1>7, FramesStep
<1>10. OneHolder'
  BY <1>1, <1>5, <1>8, HolderStep
<1>11. WaitingOK'
  BY <1>3 DEF WaitingOK, Range
<1>12. ASSUME NEW w \in Waiters
       PROVE  WaiterOK(w)'
  <2>1. w \in given => w \in Range(waiters) \/ called[w] = 1
    BY <1>1, <1>8 DEF WaiterOK, Accounted
  <2>2. w \in Range(waiters) => HeldIn(stack', w)
    BY <1>1, <1>5, <1>6, HeldStep
  <2>3. w \in given' => Accounted(w)'
    BY <1>3, <2>1, <2>2 DEF Accounted
  <2> QED
    BY <1>1, <1>3, <2>3 DEF WaiterOK
<1> QED
  BY <1>9, <1>10, <1>11, <1>12 DEF WInv

LEMMA WaitersWhenReady ==
  ASSUME WInv, TypeOK', NEW g \in Goroutines, NEW w \in Waiters,
         WhenReady(g, w)
  PROVE  WInv'
<1>1. /\ TypeOK /\ FramesOK /\ OneHolder /\ WaitingOK
      /\ \A v \in Waiters : WaiterOK(v)
  BY DEF WInv
<1>2. /\ w \notin given /\ given' = given \cup {w}
      /\ UNCHANGED <<ready, called>>
  BY DEF WhenReady
<1>3. called[w] = 0
  <2>1. called[w] \in Nat
    BY <1>1 DEF TypeOK, Callbacks
  <2> QED
    BY <1>1, <1>2, <2>1 DEF WaiterOK
<1>4. ~HeldIn(stack, w) /\ w \notin Range(waiters)
  BY <1>1, <1>2, HeldIsGiven DEF WaitingOK
<1>5. CASE MustWait
  <2>1. waiters' = Append(waiters, w) /\ stack' = stack /\ ~ready
    BY <1>5 DEF WhenReady, MustWait
  <2>2. Moves(stack, stack', g, {}, {})
    BY <1>1, <2>1, Staying
  <2>3. FramesOK'
    BY <1>1, <1>2, <2>2, FramesStep
  <2>4. OneHolder'
    BY <1>1, <2>2, HolderStep
  <2>5. waiters \in Seq(Waiters)
    BY <1>1 DEF TypeOK
  <2> PICK n \in Nat : n = Len(waiters)
    BY <2>5, LenProperties
  <2>6. /\ DOMAIN waiters = 1 .. n /\ DOMAIN waiters' = 1 .. n + 1
        /\ \A i \in 1 .. n : waiters'[i] = waiters[i]
        /\ waiters'[n + 1] = w
    BY <2>1, <2>5, AppendProperties, LenProperties
  <2>7. \A i \in 1 .. n + 1 : i \in 1 .. n \/ i = n + 1
    OBVIOUS
  <2>8. \A i \in 1 .. n : waiters[i] # w
    BY <1>4, <2>6 DEF Range
  <2>9. Range(waiters') = Range(waiters) \cup {w}
    <3>1. \A i \in 1 .. n : i \in 1 .. n + 1
      OBVIOUS
    <3>2. n + 1 \in 1 .. n + 1
      OBVIOUS
    <3> QED
      BY <2>6, <2>7, <3>1, <3>2 DEF Range
  <2>10. WaitingOK'
    <3>1. Range(waiters') \subseteq given'
      BY <1>1, <1>2, <2>9 DEF WaitingOK
    <3>2. \A i, j \in 1 .. n + 1 : waiters'[i] = waiters'[j] => i = j
      BY <1>1, <2>6, <2>7, <2>8 DEF WaitingOK
    <3>3. \A i \in 1 .. n + 1 : called'[waiters'[i]] = 0
      BY <1>1, <1>2, <1>3, <2>6, <2>7 DEF WaitingOK
    <3> QED
      BY <1>2, <2>1, <2>6, <3>1, <3>2, <3>3 DEF WaitingOK
  <2>11. ASSUME NEW v \in Waiters
         PROVE  WaiterOK(v)'
    BY <1>1, <1>2, <2>1, <2>9 DEF WaiterOK, Accounted
  <2> QED
    BY <2>3, <2>4, <2>10, <2>11 DEF WInv
<1>6. CASE ~MustWait
  <2> DEFINE y == Operation("return", <<w>>)
  <2>1. Push(g, y) /\ ready /\ waiters' = waiters
    BY <1>6 DEF WhenReady, MustWait
  <2>2. /\ y \in Frames /\ y.at = "return" /\ y.calls = <<w>>
        /\ y.waiting = <<>> /\ ~y.inside
    <3>1. <<w>> \in Seq(Callbacks)
      BY DEF Callbacks
    <3>2. y \in Frames
      BY <3>1, Operations DEF Steps
    <3> QED
      BY <3>2 DEF Operation
  <2> HIDE DEF y
  <2>3. Moves(stack, stack', g, {}, {y})
    BY <1>1, <2>1, <2>2, Pushing
  <2>4. Held(y) = {w}
    BY <2>2 DEF Held, Range
  <2>5. FrameOK(y, ready, called, given')
    <3>1. DOMAIN y.calls = {1} /\ y.calls[1] = w /\ y.calls # <<>>
      BY <2>2
    <3>2. ShapeOK(y)
      BY <2>2 DEF ShapeOK
    <3>3. WaitersOK(y, called)
      BY <1>3, <2>2, <3>1 DEF WaitersOK
    <3> QED
      BY <1>2, <2>1, <2>4, <3>2, <3>3 DEF FrameOK
  <2>6. FramesOK'
    BY <1>1, <1>2, <2>3, <2>5, FramesStep
  <2>7. OneHolder'
    BY <1>1, <1>4, <2>3, <2>4, HolderStep
  <2>8. WaitingOK'
    BY <1>1, <1>2, <2>1 DEF WaitingOK
  <2>9. ASSUME NEW v \in Waiters
        PROVE  WaiterOK(v)'
    <3>1. HeldIn(stack, v) => HeldIn(stack', v)
      BY <1>1, <2>3, HeldStep
    <3>2. v = w => HeldIn(stack', v)
      BY <1>1, <2>3, <2>4, HeldStep
    <3> QED
      BY <1>1, <1>2, <2>1, <3>1, <3>2 DEF WaiterOK, Accounted
  <2> QED
    BY <2>6, <2>7, <2>8, <2>9 DEF WInv
<1> QED
  BY <1>5, <1>6
-----------------------------------------------------------------------------
(* The theorems. *)

LEMMA InitIInv == Init => IInv
<1> SUFFICES ASSUME Init
             PROVE  IInv
  OBVIOUS
<1>1. \A g \in Goroutines : stack[g] = <<>>
  BY DEF Init
<1>2. TypeOK
  <2>1. stack \in Stacks
    BY DEF Init, Stacks
  <2> QED
    <3>1. waiters \in Seq(Waiters) /\ handlers \in [Events -> Seq(Handlers)]
      BY DEF Init
    <3>2. /\ emitted \in [Events -> Nat] /\ called \in [Callbacks -> Nat]
          /\ vetoed \in [{"before-quit", "will-quit"} -> Nat] /\ exits \in Nat
      BY DEF Init, Callbacks
    <3>3. ready \in BOOLEAN /\ quitting \in BOOLEAN /\ given \in SUBSET Waiters
      BY DEF Init
    <3> QED
      BY <2>1, <3>1, <3>2, <3>3 DEF TypeOK
<1>3. Books
  <2>1. \A A : Counted(stack, A) /\ Count(stack, A) = 0
    BY <1>1, NoneCounted
  <2>2. /\ \A e \in Events : emitted[e] = 0
        /\ vetoed["before-quit"] = 0 /\ vetoed["will-quit"] = 0
        /\ exits = 0 /\ ready = FALSE
    BY DEF Init
  <2> QED
    BY <2>1, <2>2 DEF Books, Events, Bit
<1>4. QuitAnnounced
  BY <1>1 DEF Init, QuitAnnounced, Events
<1>5. FramesOK /\ OneHolder
  BY <1>1 DEF FramesOK, OneHolder
<1>6. WaitingOK /\ \A w \in Waiters : WaiterOK(w)
  BY DEF Init, WaitingOK, WaiterOK, Range
<1> QED
  BY <1>2, <1>3, <1>4, <1>5, <1>6 DEF IInv, BInv, WInv

LEMMA NextIInv == IInv /\ [Next]_vars => IInv'
<1> SUFFICES ASSUME IInv, [Next]_vars
             PROVE  IInv'
  OBVIOUS
<1>1. BInv /\ WInv /\ TypeOK
  BY DEF IInv, BInv
<1>2. ASSUME NEW g \in Goroutines, NEW e \in Events, NEW h \in Handlers,
             On(g, e, h)
      PROVE  IInv'
  <2>1. UNCHANGED <<stack, called, given, vetoed, exits>>
    BY <1>2 DEF On, history
  <2>2. UNCHANGED <<ready, quitting, waiters, emitted>>
    BY <1>2 DEF On
  <2>3. handlers' \in [Events -> Seq(Handlers)]
    <3>1. Append(handlers[e], h) \in Seq(Handlers)
      BY <1>1, AppendProperties DEF TypeOK
    <3> QED
      BY <1>1, <1>2, <3>1 DEF On, TypeOK
  <2>4. TypeOK'
    BY <1>1, <2>1, <2>2, <2>3 DEF TypeOK
  <2>5. BInv'
    BY <1>1, <2>1, <2>2, <2>4 DEF BInv, Books, QuitAnnounced
  <2>6. FramesOK' /\ OneHolder' /\ WaitingOK'
    <3>1. /\ FramesOK /\ OneHolder /\ WaitingOK
          /\ ready' = ready /\ waiters' = waiters /\ stack' = stack
          /\ called' = called /\ given' = given
      BY <1>1, <2>1, <2>2 DEF WInv
    <3>2. FramesOK'
      BY <3>1, Zenon DEF FramesOK
    <3>3. OneHolder'
      BY <3>1 DEF OneHolder
    <3>4. WaitingOK'
      BY <3>1 DEF WaitingOK
    <3> QED
      BY <3>2, <3>3, <3>4
  <2>7. \A w \in Waiters : WaiterOK(w)'
    BY <1>1, <2>1, <2>2 DEF WInv, WaiterOK, Accounted
  <2> QED
    BY <2>4, <2>5, <2>6, <2>7 DEF IInv, WInv
<1>3. ASSUME NEW g \in Goroutines, NEW w \in Waiters, WhenReady(g, w)
      PROVE  IInv'
  BY <1>1, <1>3, BooksWhenReady, WaitersWhenReady DEF IInv, BInv
<1>4. ASSUME NEW g \in Goroutines, MarkReady(g)
      PROVE  IInv'
  BY <1>1, <1>4, BooksMarkReady, WaitersMarkReady DEF IInv, BInv
<1>5. ASSUME NEW g \in Goroutines, WindowAllClosed(g) \/ Quit(g)
      PROVE  IInv'
  <2>1. PICK e \in {"window-all-closed", "before-quit"} :
          Push(g, Operation(e, <<>>)) /\ UNCHANGED <<state, history>>
    BY <1>5 DEF WindowAllClosed, Quit
  <2>2. BInv'
    BY <1>1, <2>1, BooksBegin
  <2>3. e \in Events \ Starting
    BY DEF Events, Starting
  <2>4. UNCHANGED <<ready, waiters, given, called>>
    BY <2>1 DEF state, history
  <2>5. WInv'
    BY <1>1, <2>1, <2>2, <2>3, <2>4, WaitersBegin DEF BInv
  <2> QED
    BY <2>2, <2>5 DEF IInv
<1>6. ASSUME NEW g \in Goroutines, Exit(g)
      PROVE  IInv'
  <2>1. BInv'
    BY <1>1, <1>6, BooksExit
  <2>2. "quit" \in Events \ Starting
    BY DEF Events, Starting
  <2>3. /\ Push(g, Operation("quit", <<>>))
        /\ UNCHANGED <<ready, waiters, given, called>>
    BY <1>6 DEF Exit
  <2>4. WInv'
    BY <1>1, <2>1, <2>2, <2>3, WaitersBegin DEF BInv
  <2> QED
    BY <2>1, <2>4 DEF IInv
<1>7. ASSUME NEW g \in Goroutines, NEW e \in Events, Emit(g, e)
      PROVE  IInv'
  BY <1>1, <1>7, BooksEmit, WaitersEmit DEF IInv, BInv
<1>8. ASSUME NEW g \in Goroutines, CallBack(g)
      PROVE  IInv'
  BY <1>1, <1>8, BooksCallBack, WaitersCallBack DEF IInv, BInv
<1>9. ASSUME NEW g \in Goroutines, CallReturns(g)
      PROVE  IInv'
  <2>1. Top(g).calls # <<>>
    BY <1>1, <1>9, TopOK DEF CallReturns, Inside, FrameOK, ShapeOK
  <2> QED
    BY <1>1, <1>9, <2>1, BooksCallReturns, WaitersCallReturns DEF IInv, BInv
<1>10. ASSUME NEW g \in Goroutines, NEW step \in Steps \ Starting,
              At(g, step), Pop(g), Idle(Top(g)), UNCHANGED <<state, history>>
       PROVE  IInv'
  <2>1. UNCHANGED <<called, given, vetoed, exits>>
    BY <1>10 DEF history
  <2>2. BInv'
    BY <1>1, <1>10, <2>1, BooksEnd
  <2>3. UNCHANGED <<ready, waiters, given, called>>
    BY <1>10 DEF state, history
  <2>4. WInv'
    BY <1>1, <1>10, <2>2, <2>3, WaitersEnd DEF BInv
  <2> QED
    BY <2>2, <2>4 DEF IInv
<1>11. ASSUME NEW g \in Goroutines, NEW e \in {"before-quit", "will-quit"},
              GiveUp(g, e)
       PROVE  IInv'
  <2>1. After(e) \in Steps \ Starting
    BY DEF After, Steps, Events, Starting
  <2>2. Idle(Top(g))
    BY <1>11 DEF GiveUp, At, Prevented, After, Idle
  <2> QED
    BY <1>10, <1>11, <2>1, <2>2 DEF GiveUp
<1>12. ASSUME NEW g \in Goroutines, Return(g)
       PROVE  IInv'
  <2>1. "return" \in Steps \ Starting
    BY DEF Steps, Starting
  <2>2. Idle(Top(g))
    BY <1>12 DEF Return, At, Idle
  <2> QED
    BY <1>10, <1>12, <2>1, <2>2 DEF Return
<1>13. ASSUME NEW g \in Goroutines, Commit(g)
       PROVE  IInv'
  BY <1>1, <1>13, BooksCommit, WaitersCommit DEF IInv, BInv
<1>14. ASSUME NEW g \in Goroutines, Subscribed(g)
       PROVE  IInv'
  BY <1>1, <1>14, BooksSubscribed, WaitersSubscribed DEF IInv, BInv
<1>15. ASSUME NEW g \in Goroutines, CallWaiters(g)
       PROVE  IInv'
  BY <1>1, <1>15, BooksCallWaiters, WaitersCallWaiters DEF IInv, BInv
<1>16. CASE UNCHANGED vars
  <2>1. UNCHANGED <<ready, quitting, waiters, handlers, emitted, stack, called,
                    given, vetoed, exits>>
    BY <1>16 DEF vars, state, history
  <2>2. BInv'
    BY <1>1, <2>1 DEF BInv, TypeOK, Books, QuitAnnounced
  <2>3. FramesOK' /\ OneHolder' /\ WaitingOK'
    <3>1. /\ FramesOK /\ OneHolder /\ WaitingOK
          /\ ready' = ready /\ waiters' = waiters /\ stack' = stack
          /\ called' = called /\ given' = given
      BY <1>1, <2>1 DEF WInv
    <3>2. FramesOK'
      BY <3>1, Zenon DEF FramesOK
    <3>3. OneHolder'
      BY <3>1 DEF OneHolder
    <3>4. WaitingOK'
      BY <3>1 DEF WaitingOK
    <3> QED
      BY <3>2, <3>3, <3>4
  <2>4. \A w \in Waiters : WaiterOK(w)'
    BY <1>1, <2>1 DEF WInv, WaiterOK, Accounted
  <2> QED
    BY <2>2, <2>3, <2>4 DEF IInv, BInv, WInv
<1> QED
  BY <1>2, <1>3, <1>4, <1>5, <1>6, <1>7, <1>8, <1>9, <1>11, <1>12, <1>13,
     <1>14, <1>15, <1>16 DEF Next

\* The invariant of the App: whatever its goroutines and handlers do, the
\* frames of lifecycle.go's operations account for its events and its waiters.
THEOREM AppInvariant == Spec => []IInv
<1>1. Init => IInv
  BY InitIInv
<1>2. IInv /\ [Next]_vars => IInv'
  BY NextIInv
<1> QED
  BY <1>1, <1>2, PTL DEF Spec

\* Every callback of WhenReady is called once, not before the app is ready,
\* however MarkReady and WhenReady interleave.
THEOREM WaitersAlwaysRunOnce == Spec => []WaitersRunOnce
<1>1. IInv => WaitersRunOnce
  <2> SUFFICES ASSUME IInv, NEW w \in Waiters
               PROVE  /\ called[w] <= 1
                      /\ called[w] > 0 => ready
                      /\ Quiet /\ ready /\ w \in given => called[w] = 1
    BY DEF WaitersRunOnce
  <2>1. WaiterOK(w) /\ WaitingOK
    BY DEF IInv, WInv
  <2>2. Quiet => ~HeldIn(stack, w)
    BY DEF Quiet, HeldIn
  <2>3. ready => w \notin Range(waiters)
    BY <2>1 DEF WaitingOK, Range
  <2> QED
    BY <2>1, <2>2, <2>3 DEF WaiterOK, Accounted
<1> QED
  BY <1>1, AppInvariant, PTL

\* The events of quitting balance against vetoes and calls of Exit at every
\* moment, and to the last one when nobody is on the way.
THEOREM QuitsAlwaysBalance == Spec => []QuitBooks
<1>1. IInv => QuitBooks
  <2> SUFFICES ASSUME IInv
               PROVE  QuitBooks
    OBVIOUS
  <2>1. TypeOK /\ Books /\ QuitAnnounced
    BY DEF IInv, BInv
  <2>2. /\ Count(stack, Launching) \in Nat /\ Count(stack, Readying) \in Nat
        /\ Count(stack, Asking) \in Nat /\ Count(stack, Leaving) \in Nat
    BY <2>1 DEF Books, Counted
  <2>3. Bit(ready) <= 1
    BY DEF Bit
  <2>4. /\ emitted["ready"] <= emitted["will-finish-launching"]
        /\ emitted["will-finish-launching"] <= 1
    BY <2>1, <2>2, <2>3, Amounts DEF Books, Bit
  <2>5. /\ emitted["will-quit"] + vetoed["before-quit"] <= emitted["before-quit"]
        /\ emitted["quit"] + vetoed["will-quit"] <= emitted["will-quit"] + exits
    BY <2>1, <2>2, Amounts DEF Books
  <2>6. ASSUME Quiet
        PROVE  /\ emitted["will-quit"] + vetoed["before-quit"]
                    = emitted["before-quit"]
               /\ emitted["quit"] + vetoed["will-quit"]
                    = emitted["will-quit"] + exits
               /\ quitting <=> emitted["quit"] > 0
    <3>1. Count(stack, Asking) = 0 /\ Count(stack, Leaving) = 0
      BY <2>6, NoneCounted DEF Quiet
    <3>2. \A g \in Goroutines : DOMAIN stack[g] = {}
      BY <2>6 DEF Quiet
    <3>3. quitting <=> emitted["quit"] > 0
      BY <2>1, <3>2 DEF QuitAnnounced
    <3>4. /\ emitted["will-quit"] + vetoed["before-quit"]
               = emitted["before-quit"]
          /\ emitted["quit"] + vetoed["will-quit"]
               = emitted["will-quit"] + exits
      BY <2>1, <3>1, Amounts DEF Books
    <3> QED
      BY <3>3, <3>4
  <2> QED
    BY <2>1, <2>4, <2>5, <2>6 DEF QuitBooks, QuitAnnounced
<1> QED
  BY <1>1, AppInvariant, PTL
===============================================================================
