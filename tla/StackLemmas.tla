------------------------------ MODULE StackLemmas ------------------------------
(***************************************************************************)
(* Facts about goroutines whose state is a stack of frames, for the proofs *)
(* about modules that model calls that way: what a push, a pop or another  *)
(* uppermost frame leaves as it was, and how many frames of a kind there   *)
(* are.                                                                    *)
(***************************************************************************)
EXTENDS Naturals, Sequences, FiniteSets, SequenceTheorems, FiniteSetTheorems,
        TLAPS

CONSTANTS Goroutines, Frames

Stacks == [Goroutines -> Seq(Frames)]

\* Two stacks are the same but for what g has at level k.
SameBut(st, tt, g, k) ==
  \A h \in Goroutines : \A i \in Nat : h # g \/ i # k =>
    /\ i \in DOMAIN st[h] <=> i \in DOMAIN tt[h]
    /\ i \in DOMAIN st[h] => tt[h][i] = st[h][i]

LEMMA Levels ==
  ASSUME NEW st \in Stacks, NEW g \in Goroutines
  PROVE  /\ st[g] \in Seq(Frames) /\ Len(st[g]) \in Nat
         /\ DOMAIN st[g] = 1 .. Len(st[g])
         /\ \A i \in DOMAIN st[g] : i \in Nat /\ st[g][i] \in Frames
<1>1. st[g] \in Seq(Frames)
  BY DEF Stacks
<1> QED
  BY <1>1, LenProperties, ElementOfSeq

LEMMA Unchanged ==
  ASSUME NEW st \in Stacks, NEW g \in Goroutines
  PROVE  SameBut(st, st, g, 0) /\ 0 \notin DOMAIN st[g]
BY Levels DEF SameBut

\* Two sequences are the same but for what they have at k.
SameLevels(s, r, k) ==
  \A i \in Nat : i # k =>
    /\ i \in 1 .. Len(s) <=> i \in 1 .. Len(r)
    /\ i \in 1 .. Len(s) => r[i] = s[i]

\* The stack of g becomes r, those of the others stay.
Becomes(st, tt, g, r) == tt = [h \in Goroutines |-> IF h = g THEN r ELSE st[h]]

\* A stack of which one level is changed.
LEMMA LevelsDiffer ==
  ASSUME NEW st \in Stacks, NEW g \in Goroutines, NEW r \in Seq(Frames),
         NEW k \in Nat,
         SameLevels(st[g], r, k), NEW tt, Becomes(st, tt, g, r)
  PROVE  tt \in Stacks /\ SameBut(st, tt, g, k) /\ tt[g] = r
<1>1. /\ tt \in Stacks /\ tt[g] = r
      /\ \A h \in Goroutines : h # g => tt[h] = st[h]
  BY DEF Stacks, Becomes
<1>2. DOMAIN st[g] = 1 .. Len(st[g]) /\ DOMAIN tt[g] = 1 .. Len(r)
  BY <1>1, Levels, LenProperties
<1>3. \A h \in Goroutines : \A i \in Nat : h # g \/ i # k =>
        /\ i \in DOMAIN st[h] <=> i \in DOMAIN tt[h]
        /\ i \in DOMAIN st[h] => tt[h][i] = st[h][i]
  <2> TAKE h \in Goroutines
  <2> TAKE i \in Nat
  <2>1. CASE h # g
    BY <2>1, <1>1
  <2>2. CASE h = g
    BY <2>2, <1>1, <1>2 DEF SameLevels
  <2> QED
    BY <2>1, <2>2
<1>4. SameBut(st, tt, g, k)
  BY <1>3 DEF SameBut
<1> QED
  BY <1>1, <1>4

\* A stack without its uppermost level, and with another one there.
DropTop(s) == SubSeq(s, 1, Len(s) - 1)
WithTop(s, f) == [s EXCEPT ![Len(s)] = f]

LEMMA PoppedSeq ==
  ASSUME NEW S, NEW s \in Seq(S), s # <<>>
  PROVE  /\ DropTop(s) \in Seq(S) /\ Len(DropTop(s)) = Len(s) - 1
         /\ \A i \in 1 .. Len(s) - 1 : DropTop(s)[i] = s[i]
<1> PICK n \in Nat \ {0} : n = Len(s)
  BY EmptySeq
<1>1. 1 \in Int /\ n - 1 \in Int /\ Len(s) - 1 = n - 1
  OBVIOUS
<1>2. \A i \in 1 .. n - 1 : s[i] \in S
  BY ElementOfSeq
<1> DEFINE r == SubSeq(s, 1, n - 1)
<1>3. /\ r \in Seq(S)
      /\ Len(r) = (IF 1 <= n - 1 THEN (n - 1) - 1 + 1 ELSE 0)
      /\ \A i \in 1 .. (n - 1) - 1 + 1 : r[i] = s[1 + i - 1]
  BY <1>1, <1>2, SubSeqProperties
<1>4. DropTop(s) = r
  BY <1>1 DEF DropTop
<1> HIDE DEF r
<1>5. Len(r) = n - 1
  BY <1>3
<1>6. (n - 1) - 1 + 1 = n - 1
  OBVIOUS
<1>7. \A i \in 1 .. n - 1 : r[i] = s[i]
  <2> TAKE i \in 1 .. n - 1
  <2>1. r[i] = s[1 + i - 1]
    BY <1>3, <1>6
  <2>2. 1 + i - 1 = i
    OBVIOUS
  <2> QED
    BY <2>1, <2>2
<1> QED
  BY <1>1, <1>3, <1>4, <1>5, <1>7

LEMMA Pushed ==
  ASSUME NEW st \in Stacks, NEW g \in Goroutines, NEW f \in Frames,
         NEW tt, Becomes(st, tt, g, Append(st[g], f))
  PROVE  LET k == Len(st[g]) + 1
         IN  /\ tt \in Stacks /\ SameBut(st, tt, g, k) /\ k \in Nat
             /\ k \notin DOMAIN st[g] /\ k \in DOMAIN tt[g] /\ tt[g][k] = f
<1> DEFINE s == st[g]
           r == Append(s, f)
<1>1. s \in Seq(Frames) /\ DOMAIN s = 1 .. Len(s)
  BY Levels
<1> PICK n \in Nat : n = Len(s)
  BY Levels
<1>2. /\ r \in Seq(Frames) /\ Len(r) = n + 1
      /\ \A i \in 1 .. n : r[i] = s[i]
      /\ r[n + 1] = f
  BY <1>1, AppendProperties
<1>3. DOMAIN r = 1 .. n + 1
  BY <1>2, LenProperties
<1>4. Becomes(st, tt, g, r)
  OBVIOUS
<1> HIDE DEF r
<1>5. SameLevels(s, r, n + 1)
  <2> SUFFICES ASSUME NEW i \in Nat, i # n + 1
               PROVE  /\ i \in 1 .. Len(s) <=> i \in 1 .. Len(r)
                      /\ i \in 1 .. Len(s) => r[i] = s[i]
    BY DEF SameLevels
  <2>1. i \in 1 .. n <=> i \in 1 .. n + 1
    OBVIOUS
  <2>2. i \in 1 .. n => r[i] = s[i]
    BY <2>1, <1>2
  <2> QED
    BY <2>1, <2>2, <1>2
<1>6. n + 1 \in Nat /\ n + 1 \in 1 .. n + 1 /\ n + 1 \notin 1 .. n
  OBVIOUS
<1>7. tt \in Stacks /\ SameBut(st, tt, g, n + 1) /\ tt[g] = r
  BY <1>2, <1>4, <1>5, <1>6, LevelsDiffer
<1>8. n + 1 \notin DOMAIN st[g] /\ n + 1 \in DOMAIN r
  BY <1>1, <1>3, <1>6
<1> QED
  BY <1>2, <1>4, <1>6, <1>7, <1>8

LEMMA Popped ==
  ASSUME NEW st \in Stacks, NEW g \in Goroutines, st[g] # <<>>,
         NEW tt, Becomes(st, tt, g, DropTop(st[g]))
  PROVE  LET k == Len(st[g])
         IN  /\ tt \in Stacks /\ SameBut(st, tt, g, k) /\ k \in Nat
             /\ k \in DOMAIN st[g] /\ k \notin DOMAIN tt[g]
<1> DEFINE s == st[g]
           r == DropTop(s)
<1>1. s \in Seq(Frames) /\ DOMAIN s = 1 .. Len(s)
  BY Levels
<1> PICK n \in Nat \ {0} : n = Len(s)
  BY <1>1, EmptySeq
<1>2. /\ r \in Seq(Frames) /\ Len(r) = n - 1
      /\ \A i \in 1 .. n - 1 : r[i] = s[i]
  BY <1>1, PoppedSeq
<1>3. DOMAIN r = 1 .. n - 1
  BY <1>2, LenProperties
<1>0. Becomes(st, tt, g, r)
  OBVIOUS
<1> HIDE DEF r
<1>4. SameLevels(s, r, n)
  <2> SUFFICES ASSUME NEW i \in Nat, i # n
               PROVE  /\ i \in 1 .. Len(s) <=> i \in 1 .. Len(r)
                      /\ i \in 1 .. Len(s) => r[i] = s[i]
    BY DEF SameLevels
  <2>1. i \in 1 .. n <=> i \in 1 .. n - 1
    OBVIOUS
  <2>2. i \in 1 .. n => r[i] = s[i]
    BY <2>1, <1>2
  <2> QED
    BY <2>1, <2>2, <1>2
<1>5. tt \in Stacks /\ SameBut(st, tt, g, n) /\ tt[g] = r
  BY <1>0, <1>2, <1>4, LevelsDiffer
<1>6. n \in 1 .. n /\ n \notin 1 .. n - 1
  OBVIOUS
<1> QED
  BY <1>1, <1>3, <1>5, <1>6 DEF r

LEMMA Replaced ==
  ASSUME NEW st \in Stacks, NEW g \in Goroutines, st[g] # <<>>,
         NEW f \in Frames,
         NEW tt, Becomes(st, tt, g, Append(DropTop(st[g]), f))
  PROVE  LET k == Len(st[g])
         IN  /\ tt \in Stacks /\ SameBut(st, tt, g, k) /\ k \in Nat
             /\ k \in DOMAIN st[g] /\ k \in DOMAIN tt[g] /\ tt[g][k] = f
<1> DEFINE s == st[g]
           u == DropTop(s)
           r == Append(u, f)
<1>1. s \in Seq(Frames) /\ DOMAIN s = 1 .. Len(s)
  BY Levels
<1> PICK n \in Nat \ {0} : n = Len(s)
  BY <1>1, EmptySeq
<1>2. /\ u \in Seq(Frames) /\ Len(u) = n - 1
      /\ \A i \in 1 .. n - 1 : u[i] = s[i]
  BY <1>1, PoppedSeq
<1>3. Becomes(st, tt, g, r)
  OBVIOUS
<1> HIDE DEF u
<1>4. /\ r \in Seq(Frames) /\ Len(r) = Len(u) + 1
      /\ \A i \in 1 .. Len(u) : r[i] = u[i]
      /\ r[Len(u) + 1] = f
  BY <1>2, AppendProperties
<1>5. Len(u) + 1 = n
  BY <1>2
<1>6. /\ r \in Seq(Frames) /\ Len(r) = n
      /\ \A i \in 1 .. n - 1 : r[i] = s[i]
      /\ r[n] = f
  BY <1>2, <1>4, <1>5
<1> HIDE DEF r
<1>7. DOMAIN r = 1 .. n
  BY <1>6, LenProperties
<1>8. SameLevels(s, r, n)
  <2> SUFFICES ASSUME NEW i \in Nat, i # n
               PROVE  /\ i \in 1 .. Len(s) <=> i \in 1 .. Len(r)
                      /\ i \in 1 .. Len(s) => r[i] = s[i]
    BY DEF SameLevels
  <2>1. i \in 1 .. n <=> i \in 1 .. n
    OBVIOUS
  <2>2. i \in 1 .. n => r[i] = s[i]
    BY <1>6
  <2> QED
    BY <2>1, <2>2, <1>6
<1>9. tt \in Stacks /\ SameBut(st, tt, g, n) /\ tt[g] = r
  BY <1>3, <1>6, <1>8, LevelsDiffer
<1>10. n \in 1 .. n
  OBVIOUS
<1> QED
  BY <1>1, <1>3, <1>6, <1>7, <1>9, <1>10

LEMMA Assigned ==
  ASSUME NEW st \in Stacks, NEW g \in Goroutines, st[g] # <<>>,
         NEW f \in Frames,
         NEW tt, Becomes(st, tt, g, WithTop(st[g], f))
  PROVE  LET k == Len(st[g])
         IN  /\ tt \in Stacks /\ SameBut(st, tt, g, k) /\ k \in Nat
             /\ k \in DOMAIN st[g] /\ k \in DOMAIN tt[g] /\ tt[g][k] = f
<1> DEFINE s == st[g]
           r == WithTop(s, f)
<1>1. s \in Seq(Frames) /\ DOMAIN s = 1 .. Len(s)
  BY Levels
<1> PICK n \in Nat \ {0} : n = Len(s)
  BY <1>1, EmptySeq
<1>2. n \in 1 .. Len(s)
  OBVIOUS
<1>3. /\ r \in Seq(Frames) /\ Len(r) = n
      /\ \A j \in 1 .. n : r[j] = IF j = n THEN f ELSE s[j]
  BY <1>1, <1>2, ExceptSeq DEF WithTop
<1>4. Becomes(st, tt, g, r)
  OBVIOUS
<1> HIDE DEF r
<1>5. DOMAIN r = 1 .. n /\ r[n] = f
  BY <1>2, <1>3, LenProperties
<1>6. SameLevels(s, r, n)
  BY <1>3 DEF SameLevels
<1>7. tt \in Stacks /\ SameBut(st, tt, g, n) /\ tt[g] = r
  BY <1>3, <1>4, <1>6, LevelsDiffer
<1> QED
  BY <1>1, <1>2, <1>5, <1>7

-----------------------------------------------------------------------------
(* How many frames of a kind there are. *)

Holds(st, g, k, A) == k \in DOMAIN st[g] /\ st[g][k] \in A

Positions(st, A) == {p \in Goroutines \X Nat : Holds(st, p[1], p[2], A)}

Count(st, A) == Cardinality(Positions(st, A))

\* The frames in A can be counted.
Counted(st, A) == IsFiniteSet(Positions(st, A)) /\ Count(st, A) \in Nat

Bit(b) == IF b THEN 1 ELSE 0

\* A set with or without one of its elements.
LEMMA OneElement ==
  ASSUME NEW P, NEW x, IsFiniteSet(P)
  PROVE  /\ IsFiniteSet(P \ {x}) /\ Cardinality(P \ {x}) \in Nat
         /\ Cardinality(P) = Cardinality(P \ {x}) + Bit(x \in P)
<1>1. CASE x \in P
  <2>1. /\ IsFiniteSet(P \ {x})
        /\ Cardinality(P \ {x}) = Cardinality(P) - 1
    BY <1>1, FS_RemoveElement
  <2>2. Cardinality(P) \in Nat /\ Cardinality(P \ {x}) \in Nat
    BY <2>1, FS_CardinalityType
  <2> QED
    BY <1>1, <2>1, <2>2 DEF Bit
<1>2. CASE x \notin P
  <2>1. P \ {x} = P
    BY <1>2
  <2>2. Cardinality(P) \in Nat
    BY FS_CardinalityType
  <2> QED
    BY <1>2, <2>1, <2>2 DEF Bit
<1> QED
  BY <1>1, <1>2

\* A step at one level changes the count by what was there and what is.
LEMMA CountStep ==
  ASSUME NEW st \in Stacks, NEW tt \in Stacks, NEW g \in Goroutines,
         NEW k \in Nat, SameBut(st, tt, g, k), NEW A, Counted(st, A)
  PROVE  /\ Counted(tt, A)
         /\ Count(tt, A) + Bit(Holds(st, g, k, A))
              = Count(st, A) + Bit(Holds(tt, g, k, A))
<1> DEFINE P == Positions(st, A)
           Q == Positions(tt, A)
           x == <<g, k>>
<1>1. x \in P <=> Holds(st, g, k, A)
  BY DEF Positions
<1>2. x \in Q <=> Holds(tt, g, k, A)
  BY DEF Positions
<1>3. P \ {x} = Q \ {x}
  <2> SUFFICES ASSUME NEW p \in Goroutines \X Nat, p # x
               PROVE  p \in P <=> p \in Q
    BY DEF Positions
  <2>1. /\ p[1] \in Goroutines /\ p[2] \in Nat
        /\ p[1] # g \/ p[2] # k
    OBVIOUS
  <2>2. /\ p[2] \in DOMAIN st[p[1]] <=> p[2] \in DOMAIN tt[p[1]]
        /\ p[2] \in DOMAIN st[p[1]] => tt[p[1]][p[2]] = st[p[1]][p[2]]
    BY <2>1 DEF SameBut
  <2> QED
    BY <2>2 DEF Positions, Holds
<1>4. IsFiniteSet(P)
  BY DEF Counted
<1>5. IsFiniteSet(Q)
  <2>1. IsFiniteSet(Q \ {x})
    BY <1>3, <1>4, OneElement
  <2>2. IsFiniteSet((Q \ {x}) \cup {x})
    BY <2>1, FS_AddElement
  <2>3. Q \subseteq (Q \ {x}) \cup {x}
    OBVIOUS
  <2> QED
    BY <2>2, <2>3, FS_Subset
<1> HIDE DEF P, Q, x
<1>6. /\ Cardinality(P \ {x}) \in Nat
      /\ Cardinality(P) = Cardinality(P \ {x}) + Bit(x \in P)
      /\ Cardinality(Q) = Cardinality(P \ {x}) + Bit(x \in Q)
  BY <1>3, <1>4, <1>5, OneElement
<1>7. Cardinality(Q) \in Nat
  BY <1>5, FS_CardinalityType
<1>8. Cardinality(Q) + Bit(x \in P) = Cardinality(P) + Bit(x \in Q)
  BY <1>6 DEF Bit
<1> QED
  BY <1>1, <1>2, <1>5, <1>7, <1>8 DEF P, Q, Counted, Count, Bit

\* With empty stacks there is nothing to count.
LEMMA NoneCounted ==
  ASSUME NEW st, \A g \in Goroutines : st[g] = <<>>, NEW A
  PROVE  Counted(st, A) /\ Count(st, A) = 0
<1>1. Positions(st, A) = {}
  BY DEF Positions, Holds
<1> QED
  BY <1>1, FS_EmptySet DEF Counted, Count

-----------------------------------------------------------------------------
(* A step of one goroutine, as what it had at one level and what it has.    *)

AtLevel(st, g, k) == {st[g][i] : i \in DOMAIN st[g] \cap {k}}

\* From st to tt, g gives up the frame in X, if any, for the one in Y.
Moves(st, tt, g, X, Y) ==
  /\ tt \in Stacks
  /\ \E k \in Nat : /\ SameBut(st, tt, g, k)
                    /\ X = AtLevel(st, g, k) /\ Y = AtLevel(tt, g, k)

LEMMA PushMoves ==
  ASSUME NEW st \in Stacks, NEW g \in Goroutines, NEW f \in Frames,
         NEW tt, Becomes(st, tt, g, Append(st[g], f))
  PROVE  Moves(st, tt, g, {}, {f})
<1> DEFINE k == Len(st[g]) + 1
<1>1. /\ tt \in Stacks /\ SameBut(st, tt, g, k) /\ k \in Nat
      /\ k \notin DOMAIN st[g] /\ k \in DOMAIN tt[g] /\ tt[g][k] = f
  BY Pushed
<1> HIDE DEF k
<1>2. AtLevel(st, g, k) = {} /\ AtLevel(tt, g, k) = {f}
  BY <1>1 DEF AtLevel
<1> QED
  BY <1>1, <1>2 DEF Moves

LEMMA PopMoves ==
  ASSUME NEW st \in Stacks, NEW g \in Goroutines, st[g] # <<>>,
         NEW tt, Becomes(st, tt, g, DropTop(st[g]))
  PROVE  Moves(st, tt, g, {st[g][Len(st[g])]}, {})
<1> DEFINE k == Len(st[g])
<1>1. /\ tt \in Stacks /\ SameBut(st, tt, g, k) /\ k \in Nat
      /\ k \in DOMAIN st[g] /\ k \notin DOMAIN tt[g]
  BY Popped
<1> HIDE DEF k
<1>2. AtLevel(st, g, k) = {st[g][k]} /\ AtLevel(tt, g, k) = {}
  BY <1>1 DEF AtLevel
<1> QED
  BY <1>1, <1>2 DEF Moves, k

LEMMA AssignMoves ==
  ASSUME NEW st \in Stacks, NEW g \in Goroutines, st[g] # <<>>,
         NEW f \in Frames,
         NEW tt, Becomes(st, tt, g, WithTop(st[g], f))
  PROVE  Moves(st, tt, g, {st[g][Len(st[g])]}, {f})
<1> DEFINE k == Len(st[g])
<1>1. /\ tt \in Stacks /\ SameBut(st, tt, g, k) /\ k \in Nat
      /\ k \in DOMAIN st[g] /\ k \in DOMAIN tt[g] /\ tt[g][k] = f
  BY Assigned
<1> HIDE DEF k
<1>2. AtLevel(st, g, k) = {st[g][k]} /\ AtLevel(tt, g, k) = {f}
  BY <1>1 DEF AtLevel
<1> QED
  BY <1>1, <1>2 DEF Moves, k

LEMMA NothingMoves ==
  ASSUME NEW st \in Stacks, NEW g \in Goroutines
  PROVE  Moves(st, st, g, {}, {})
<1>1. SameBut(st, st, g, 0) /\ 0 \notin DOMAIN st[g]
  BY Unchanged
<1>2. AtLevel(st, g, 0) = {}
  BY <1>1 DEF AtLevel
<1> QED
  BY <1>1, <1>2 DEF Moves

\* Every frame but the one at level k is where it was.
StaysBut(st, tt, g, k, X) ==
  \A h \in Goroutines : \A i \in DOMAIN st[h] :
    \/ h = g /\ i = k /\ st[h][i] \in X
    \/ (h # g \/ i # k) /\ i \in DOMAIN tt[h] /\ tt[h][i] = st[h][i]

LEMMA MovedFrames ==
  ASSUME NEW st \in Stacks, NEW g \in Goroutines, NEW tt, NEW X, NEW Y,
         Moves(st, tt, g, X, Y)
  PROVE  \E k \in Nat :
           /\ StaysBut(st, tt, g, k, X) /\ StaysBut(tt, st, g, k, Y)
           /\ \A f \in X : k \in DOMAIN st[g] /\ st[g][k] = f
           /\ \A f \in Y : k \in DOMAIN tt[g] /\ tt[g][k] = f
<1>1. PICK k \in Nat : /\ SameBut(st, tt, g, k)
                       /\ X = AtLevel(st, g, k) /\ Y = AtLevel(tt, g, k)
  BY DEF Moves
<1>2. tt \in Stacks
  BY DEF Moves
<1>3. StaysBut(st, tt, g, k, X) /\ StaysBut(tt, st, g, k, Y)
  <2>1. \A h \in Goroutines :
          /\ \A i \in DOMAIN st[h] : i \in Nat
          /\ \A i \in DOMAIN tt[h] : i \in Nat
    BY <1>2, Levels
  <2> QED
    BY <1>1, <2>1 DEF StaysBut, SameBut, AtLevel
<1>4. /\ \A f \in X : k \in DOMAIN st[g] /\ st[g][k] = f
      /\ \A f \in Y : k \in DOMAIN tt[g] /\ tt[g][k] = f
  BY <1>1 DEF AtLevel
<1> QED
  BY <1>3, <1>4

\* How many of the frames a step gives up or takes are in A.
Kind(X, A) == Bit(X \cap A # {})

LEMMA CountMoves ==
  ASSUME NEW st \in Stacks, NEW g \in Goroutines, NEW tt, NEW X, NEW Y,
         Moves(st, tt, g, X, Y), NEW A, Counted(st, A)
  PROVE  /\ Counted(tt, A)
         /\ Count(tt, A) + Kind(X, A) = Count(st, A) + Kind(Y, A)
<1>1. PICK k \in Nat : /\ SameBut(st, tt, g, k)
                       /\ X = AtLevel(st, g, k) /\ Y = AtLevel(tt, g, k)
  BY DEF Moves
<1>2. tt \in Stacks
  BY DEF Moves
<1>3. /\ X \cap A # {} <=> Holds(st, g, k, A)
      /\ Y \cap A # {} <=> Holds(tt, g, k, A)
  BY <1>1 DEF AtLevel, Holds
<1>4. /\ Counted(tt, A)
      /\ Count(tt, A) + Bit(Holds(st, g, k, A))
           = Count(st, A) + Bit(Holds(tt, g, k, A))
  BY <1>1, <1>2, CountStep
<1> QED
  BY <1>3, <1>4 DEF Kind, Bit

LEMMA KindOf ==
  ASSUME NEW f, NEW A
  PROVE  Kind({f}, A) = Bit(f \in A) /\ Kind({}, A) = 0
BY DEF Kind, Bit
===============================================================================
