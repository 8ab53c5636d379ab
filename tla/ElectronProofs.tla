--------------------------- MODULE ElectronProofs ---------------------------
(***************************************************************************)
(* Theorems about the modules of the electron API, for any callers, names, *)
(* values and bounds.                                                      *)
(***************************************************************************)
EXTENDS Electron, Integers, Sequences, SequenceTheorems, FiniteSetTheorems,
        WellFoundedInduction, TLAPS

-----------------------------------------------------------------------------
(* Induction and recursion over the naturals. The theorems of the library   *)
(* take the formula and the definition as operators, which cannot be given  *)
(* here; these take a set and a function.                                   *)

LEMMA LeastOfNaturals ==
  ASSUME NEW I, I \subseteq Nat, I # {}
  PROVE  \E m \in I : \A n \in I : m <= n
<1>1. PICK m \in I : \A n \in I : <<n, m>> \notin OpToRel(<, Nat)
  BY NatLessThanWellFounded, WFMin
<1>2. OpToRel(<, Nat) = {ss \in Nat \X Nat : ss[1] < ss[2]}
  BY Zenon DEF OpToRel
<1>3. ASSUME NEW n \in I
      PROVE  m <= n
  <2>1. m \in Nat /\ n \in Nat
    OBVIOUS
  <2>2. <<n, m>> \notin {ss \in Nat \X Nat : ss[1] < ss[2]}
    BY <1>1, <1>2
  <2>3. QED
    BY <2>1, <2>2
<1>4. QED
  BY <1>3

LEMMA Induction ==
  ASSUME NEW T, 0 \in T, \A n \in Nat : n \in T => n + 1 \in T
  PROVE  \A n \in Nat : n \in T
<1> DEFINE Bad == {n \in Nat : n \notin T}
<1>1. SUFFICES ASSUME Bad # {}
               PROVE  FALSE
  OBVIOUS
<1>2. PICK m \in Bad : \A n \in Bad : m <= n
  <2>1. Bad \subseteq Nat
    OBVIOUS
  <2> HIDE DEF Bad
  <2>2. QED
    BY <1>1, <2>1, LeastOfNaturals
<1>3. m \in Nat /\ m # 0 /\ m \notin T
  OBVIOUS
<1>4. m - 1 \in Nat /\ m - 1 \notin Bad
  BY <1>2, <1>3
<1>5. m - 1 \in T /\ (m - 1) + 1 = m
  BY <1>3, <1>4
<1>6. QED
  BY <1>3, <1>4, <1>5

Steps(n, X) == [1..n -> [X -> X]]

Recurs(f, n, X, base, step) ==
  f \in [0..n -> X] /\ f[0] = base /\ \A i \in 1..n : f[i] = step[i][f[i-1]]

LEMMA Recursion ==
  ASSUME NEW n \in Nat, NEW X, NEW base \in X, NEW step \in Steps(n, X)
  PROVE  \E f : Recurs(f, n, X, base, step)
<1> DEFINE Is(f, k) == f \in [0..k -> X] /\ f[0] = base /\ \A i \in 1..k : f[i] = step[i][f[i-1]]
           T == {k \in Nat : k <= n => \E f : Is(f, k)}
<1>1. 0 \in T
  <2>1. Is([i \in 0..0 |-> base], 0)
    OBVIOUS
  <2> HIDE DEF Is
  <2>2. QED
    BY <2>1
<1>2. ASSUME NEW k \in Nat, k \in T
      PROVE  k + 1 \in T
  <2>1. CASE k + 1 <= n
    <3>1. PICK f : Is(f, k)
      BY <1>2, <2>1
    <3>0. step \in [1..n -> [X -> X]]
      BY DEF Steps
    <3> DEFINE g == [i \in 0..k+1 |-> IF i = k + 1 THEN step[k+1][f[k]] ELSE f[i]]
    <3>2. k + 1 \in 1..n /\ step[k+1][f[k]] \in X
      BY <2>1, <3>0, <3>1
    <3>3. g \in [0..k+1 -> X] /\ g[0] = base
      BY <3>1, <3>2
    <3>4. ASSUME NEW i \in 1..k+1
          PROVE  g[i] = step[i][g[i-1]]
      <4>1. i - 1 \in 0..k /\ g[i-1] = f[i-1]
        OBVIOUS
      <4>2. CASE i = k + 1
        BY <4>1, <4>2
      <4>3. CASE i # k + 1
        BY <3>1, <4>1, <4>3
      <4>4. QED
        BY <4>2, <4>3
    <3> HIDE DEF g
    <3>5. Is(g, k + 1)
      BY <3>3, <3>4
    <3> HIDE DEF Is
    <3>6. QED
      BY <3>5
  <2>2. CASE ~(k + 1 <= n)
    BY <2>2
  <2>3. QED
    BY <2>1, <2>2
<1>3. n \in T
  <2> HIDE DEF T
  <2>1. QED
    BY <1>1, <1>2, Induction
<1>4. QED
  BY <1>3 DEF Recurs

-----------------------------------------------------------------------------
(* Functions on part of a set, of which most of the state is made. *)

Partial(Names, X) == UNION {[d -> X] : d \in SUBSET Names}

LEMMA PartialIs ==
  ASSUME NEW Names, NEW X, NEW f \in Partial(Names, X)
  PROVE  /\ DOMAIN f \in SUBSET Names
         /\ f \in [DOMAIN f -> X]
         /\ \A k \in DOMAIN f : f[k] \in X
BY DEF Partial

LEMMA PartialOf ==
  ASSUME NEW Names, NEW X, NEW d \in SUBSET Names, NEW f \in [d -> X]
  PROVE  f \in Partial(Names, X)
BY DEF Partial

LEMMA PutIsPartial ==
  ASSUME NEW Names, NEW X, NEW f \in Partial(Names, X), NEW k \in Names, NEW x \in X
  PROVE  [j \in DOMAIN f \cup {k} |-> IF j = k THEN x ELSE f[j]] \in Partial(Names, X)
<1> DEFINE g == [j \in DOMAIN f \cup {k} |-> IF j = k THEN x ELSE f[j]]
<1>1. DOMAIN f \cup {k} \in SUBSET Names
  BY PartialIs
<1>2. g \in [DOMAIN f \cup {k} -> X]
  BY PartialIs
<1> HIDE DEF g
<1>3. g \in Partial(Names, X)
  BY <1>1, <1>2, PartialOf
<1>4. QED
  BY <1>3 DEF g

LEMMA LessIsPartial ==
  ASSUME NEW Names, NEW X, NEW f \in Partial(Names, X), NEW gone
  PROVE  [j \in DOMAIN f \ gone |-> f[j]] \in Partial(Names, X)
<1> DEFINE g == [j \in DOMAIN f \ gone |-> f[j]]
<1>1. DOMAIN f \ gone \in SUBSET Names
  BY PartialIs
<1>2. g \in [DOMAIN f \ gone -> X]
  BY PartialIs
<1> HIDE DEF g
<1>3. g \in Partial(Names, X)
  BY <1>1, <1>2, PartialOf
<1>4. QED
  BY <1>3 DEF g

LEMMA NothingIsPartial == \A Names, X, x : [k \in {} |-> x] \in Partial(Names, X)
BY DEF Partial

-----------------------------------------------------------------------------
(* Sessions: each is a record whose two views of the cookies agree. *)

Jars    == SUBSET {S!NormalizeCookie(c) : c \in Cookies}
Answers == {<<>>, <<FALSE>>, <<TRUE>>}
Results == {"ok", "ErrPermissionDenied", "ErrInvalidCookie", "ErrUnsupportedClearOption",
            "ErrInvalidWebAuthnSelection", "b"}

IsSession(s) ==
  /\ s \in [persistent : BOOLEAN, handler : Answers, check : Answers, jar : Jars, replayed : Jars,
            cacheCleared : BOOLEAN, ret : Results]
  /\ s.replayed = s.jar
  /\ \A c, d \in s.jar : S!CookieKey(c) = S!CookieKey(d) => c = d

SessionsInv ==
  /\ object = [p \in DOMAIN object |-> object[p]]
  /\ \A p \in DOMAIN object : IsSession(object[p])

LEMMA QuietSession ==
  ASSUME NEW s, IsSession(s)
  PROVE  /\ \A a \in Answers : IsSession([s EXCEPT !.handler = a]) /\ IsSession([s EXCEPT !.check = a])
         /\ \A r \in Results : IsSession([s EXCEPT !.ret = r])
         /\ IsSession(S!ClearCache(s))
<1>1. ASSUME NEW a \in Answers
      PROVE  IsSession([s EXCEPT !.handler = a]) /\ IsSession([s EXCEPT !.check = a])
  BY DEF IsSession
<1>2. ASSUME NEW r \in Results
      PROVE  IsSession([s EXCEPT !.ret = r])
  BY DEF IsSession
<1>3. IsSession(S!ClearCache(s))
  BY DEF IsSession, S!ClearCache
<1>4. QED
  BY <1>1, <1>2, <1>3

LEMMA RemovedSession ==
  ASSUME NEW s, IsSession(s), NEW gone
  PROVE  IsSession(S!Removed(s, gone))
BY DEF IsSession, S!Removed, Jars, Results

LEMMA SetCookieSession ==
  ASSUME NEW s, IsSession(s), NEW c \in Cookies
  PROVE  IsSession(S!SetCookie(s, c))
<1>1. CASE S!BadCookie(c)
  BY <1>1 DEF IsSession, S!SetCookie, Results
<1>2. CASE ~S!BadCookie(c)
  <2> DEFINE n == S!NormalizeCookie(c)
             old == {d \in s.jar : S!CookieKey(d) = S!CookieKey(n)}
             t == S!SetCookie(s, c)
  <2>1. /\ t.jar = (s.jar \ old) \cup {n}
        /\ t.replayed = (s.replayed \ old) \cup {n}
    BY <1>2 DEF IsSession, S!SetCookie
  <2>2. (s.jar \ old) \cup {n} \in Jars
    BY DEF IsSession, Jars
  <2>3. t \in [persistent : BOOLEAN, handler : Answers, check : Answers, jar : Jars,
              replayed : Jars, cacheCleared : BOOLEAN, ret : Results]
    <3>1. PICK j \in Jars : j = (s.jar \ old) \cup {n}
      BY <2>2
    <3>2. t = [[s EXCEPT !.replayed = s.replayed \ old]
                 EXCEPT !.jar = j, !.replayed = j, !.ret = "ok"]
      BY <1>2, <3>1 DEF IsSession, S!SetCookie
    <3> HIDE DEF t, old, n
    <3>3. QED
      BY <3>2 DEF IsSession, Results
  <2> HIDE DEF n, t
  <2>4. t.replayed = t.jar
    BY <2>1 DEF IsSession
  <2>5. ASSUME NEW a \in t.jar, NEW b \in t.jar, S!CookieKey(a) = S!CookieKey(b)
        PROVE  a = b
    BY <2>1, <2>5 DEF IsSession
  <2>6. IsSession(t)
    BY <2>3, <2>4, <2>5 DEF IsSession
  <2>7. QED
    BY <2>6 DEF t
<1>3. QED
  BY <1>1, <1>2

LEMMA NewSessionIsOne ==
  ASSUME NEW p
  PROVE  IsSession(S!NewSession(p))
<1>1. PICK b \in BOOLEAN : b = (p = Default \/ p \in Persistent)
  OBVIOUS
<1>2. S!NewSession(p) = [persistent |-> b, handler |-> <<>>, check |-> <<>>, jar |-> {},
                         replayed |-> {}, cacheCleared |-> FALSE, ret |-> "ok"]
  BY <1>1 DEF S!NewSession
<1>3. {} \in Jars /\ <<>> \in Answers
  BY DEF Jars, Answers
<1>4. /\ S!NewSession(p) \in [persistent : BOOLEAN, handler : Answers, check : Answers, jar : Jars,
                             replayed : Jars, cacheCleared : BOOLEAN, ret : Results]
      /\ S!NewSession(p).jar = {} /\ S!NewSession(p).replayed = {}
  BY <1>2, <1>3 DEF Results
<1>5. QED
  BY <1>4 DEF IsSession

LEMMA PermissionSession ==
  ASSUME NEW s, IsSession(s)
  PROVE  IsSession(S!RequestPermission(s))
<1> DEFINE granted == IF s.handler # <<>> THEN s.handler[1] ELSE S!CheckPermission(s)
           r == IF granted THEN "ok" ELSE "ErrPermissionDenied"
<1>1. S!RequestPermission(s) = [s EXCEPT !.ret = r]
  BY DEF S!RequestPermission
<1>2. r \in Results
  BY DEF Results
<1> HIDE DEF r
<1>3. QED
  BY <1>1, <1>2, QuietSession

LEMMA DeleteCookieSession ==
  ASSUME NEW s, IsSession(s), NEW host, NEW name
  PROVE  IsSession(S!DeleteCookie(s, host, name))
<1>1. CASE host = NoHost \/ name = ""
  BY <1>1 DEF IsSession, S!DeleteCookie, Results
<1>2. CASE ~(host = NoHost \/ name = "")
  BY <1>2, RemovedSession DEF S!DeleteCookie
<1>3. QED
  BY <1>1, <1>2

LEMMA ClearStorageSession ==
  ASSUME NEW s, IsSession(s), NEW storages, NEW origins
  PROVE  IsSession(S!ClearStorageData(s, storages, origins))
<1>1. CASE NoHost \in origins
  BY <1>1 DEF IsSession, S!ClearStorageData, Results
<1>2. CASE NoHost \notin origins /\ ~S!ShouldClear(storages, "cookies")
  BY <1>2 DEF IsSession, S!ClearStorageData, Results
<1>3. CASE NoHost \notin origins /\ S!ShouldClear(storages, "cookies")
  BY <1>3, RemovedSession DEF S!ClearStorageData
<1>4. QED
  BY <1>1, <1>2, <1>3

LEMMA SelectAccountSession ==
  ASSUME NEW s, IsSession(s), NEW ids, NEW handler \in {<<>>, <<"b">>}
  PROVE  IsSession(S!SelectWebAuthnAccount(s, "r", ids, handler))
<1> DEFINE bad == \/ "r" = "" \/ ids = <<>> \/ \E i \in DOMAIN ids : ids[i] = ""
                  \/ \E i, j \in DOMAIN ids : i # j /\ ids[i] = ids[j]
           r == IF bad \/ handler = <<>> THEN "ErrInvalidWebAuthnSelection"
                ELSE IF \E i \in DOMAIN ids : ids[i] = handler[1] THEN handler[1]
                ELSE "ErrInvalidWebAuthnSelection"
<1>1. S!SelectWebAuthnAccount(s, "r", ids, handler) = [s EXCEPT !.ret = r]
  BY DEF S!SelectWebAuthnAccount
<1>2. r \in Results
  <2> HIDE DEF bad
  <2>1. QED
    BY DEF Results
<1> HIDE DEF r
<1>3. QED
  BY <1>1, <1>2, QuietSession

LEMMA SessionsInit == S!Init => SessionsInv
BY DEF S!Init, SessionsInv

LEMMA SessionsStep ==
  ASSUME SessionsInv, [S!Next]_object
  PROVE  SessionsInv'
<1>1. ASSUME NEW p \in DOMAIN object, NEW s, IsSession(s), S!On(p, s)
      PROVE  SessionsInv'
  BY <1>1 DEF SessionsInv, S!On
<1>2. ASSUME NEW p \in DOMAIN object
      PROVE  IsSession(object[p])
  BY <1>2 DEF SessionsInv
<1>3. ASSUME NEW p \in Partitions, object' = S!FromPartition(object, p)
      PROVE  SessionsInv'
  BY <1>3, NewSessionIsOne DEF SessionsInv, S!FromPartition
<1>4. ASSUME NEW p \in DOMAIN object, NEW answer \in {<<>>, <<FALSE>>, <<TRUE>>},
             \/ S!On(p, [object[p] EXCEPT !.handler = answer])
             \/ S!On(p, [object[p] EXCEPT !.check = answer])
      PROVE  SessionsInv'
  <2>1. answer \in Answers
    BY DEF Answers
  <2>2. QED
    BY <1>1, <1>2, <1>4, <2>1, QuietSession
<1>5. ASSUME NEW p \in DOMAIN object, S!On(p, S!RequestPermission(object[p]))
      PROVE  SessionsInv'
  BY <1>1, <1>2, <1>5, PermissionSession
<1>6. ASSUME NEW p \in DOMAIN object, NEW c \in Cookies, S!On(p, S!SetCookie(object[p], c))
      PROVE  SessionsInv'
  BY <1>1, <1>2, <1>6, SetCookieSession
<1>7. ASSUME NEW p \in DOMAIN object, NEW h, NEW name, S!On(p, S!DeleteCookie(object[p], h, name))
      PROVE  SessionsInv'
  BY <1>1, <1>2, <1>7, DeleteCookieSession
<1>8. ASSUME NEW p \in DOMAIN object, S!On(p, S!ClearCache(object[p]))
      PROVE  SessionsInv'
  BY <1>1, <1>2, <1>8, QuietSession
<1>9. ASSUME NEW p \in DOMAIN object, NEW origins, NEW storages,
             S!On(p, S!ClearStorageData(object[p], storages, origins))
      PROVE  SessionsInv'
  BY <1>1, <1>2, <1>9, ClearStorageSession
<1>10. ASSUME NEW p \in DOMAIN object, NEW ids, NEW handler \in {<<>>, <<"b">>},
              S!On(p, S!SelectWebAuthnAccount(object[p], "r", ids, handler))
      PROVE  SessionsInv'
  BY <1>1, <1>2, <1>10, SelectAccountSession
<1>11. CASE UNCHANGED object
  BY <1>11 DEF SessionsInv
<1>12. CASE S!Next
  BY <1>3, <1>4, <1>5, <1>6, <1>7, <1>8, <1>9, <1>10, <1>12, Zenon DEF S!Next
<1>13. QED
  BY <1>11, <1>12

-----------------------------------------------------------------------------
(* Shortcuts: a table of callbacks, and what each goroutine is doing. *)

Keys   == {K!Parse(a) : a \in Accelerators}
\* What a caller may hand over, and what of it is registered.
Handed == Callbacks \cup {K!NoCallback}
Registrable  == Callbacks \ {K!NoCallback}
Tables == Partial(Keys, Registrable)
Calls  == [at : {"idle", "hook", "callback"}, key : Keys \cup {<<>>},
           callback : Registrable \cup {K!NoCallback}, unregistered : BOOLEAN, ret : BOOLEAN]

CallIsOf(t, callbacks) ==
  /\ t.at # "idle" => t.callback # K!NoCallback
  /\ t.at # "idle" /\ ~t.unregistered =>
        t.key \in DOMAIN callbacks /\ callbacks[t.key] = t.callback

IsRegistry(r) ==
  /\ r \in [callbacks : Tables, suspended : BOOLEAN, hook : BOOLEAN,
            go : [Goroutines -> Calls], ret : BOOLEAN]
  /\ \A g \in Goroutines : CallIsOf(r.go[g], r.callbacks)

LEMMA IdleIsCall == K!Idle \in Calls /\ K!Idle.at = "idle"
BY DEF K!Idle, Calls

LEMMA NewRegistryIsOne == IsRegistry(K!NewRegistry)
<1>1. [k \in {} |-> <<>>] \in Tables
  BY NothingIsPartial DEF Tables
<1>2. [g \in Goroutines |-> K!Idle] \in [Goroutines -> Calls]
  BY IdleIsCall
<1>3. QED
  BY <1>1, <1>2, IdleIsCall DEF IsRegistry, K!NewRegistry, CallIsOf

LEMMA RegisterKeeps ==
  ASSUME NEW r, IsRegistry(r), NEW a \in Accelerators, NEW c \in Handed
  PROVE  IsRegistry(K!Register(r, a, c))
<1> DEFINE key == K!Parse(a)
           table == [k \in DOMAIN r.callbacks \cup {key} |-> IF k = key THEN c ELSE r.callbacks[k]]
<1>1. CASE key = <<>> \/ c = K!NoCallback \/ key \in DOMAIN r.callbacks
  BY <1>1 DEF IsRegistry, K!Register
<1>2. CASE ~(key = <<>> \/ c = K!NoCallback \/ key \in DOMAIN r.callbacks)
  <2>1. table \in Tables
    <3>1. c \in Registrable /\ key \in Keys
      BY <1>2 DEF Handed, Registrable, Keys
    <3>2. QED
      BY <3>1, PutIsPartial DEF IsRegistry, Tables
  <2>2. \A k \in DOMAIN r.callbacks : k \in DOMAIN table /\ table[k] = r.callbacks[k]
    BY <1>2
  <2>3. K!Register(r, a, c) = [r EXCEPT !.callbacks = table, !.ret = TRUE]
    BY <1>2 DEF K!Register
  <2> HIDE DEF table
  <2>4. ASSUME NEW g \in Goroutines
        PROVE  CallIsOf(r.go[g], table)
    BY <2>2 DEF IsRegistry, CallIsOf
  <2>5. IsRegistry([r EXCEPT !.callbacks = table, !.ret = TRUE])
    BY <2>1, <2>4 DEF IsRegistry
  <2>6. QED
    BY <2>3, <2>5
<1>3. QED
  BY <1>1, <1>2

\* The list is registered one after the other (the library's fold is unfolded).
LEMMA RegisterAllOfTwo ==
  ASSUME NEW r, NEW a, NEW b, NEW c
  PROVE  K!RegisterAll(r, <<a, b>>, c) = K!Register(K!Register(r, a, c), b, c)
<1> DEFINE Dom == DOMAIN <<a, b>>
           Body(f) == [s \in SUBSET Dom |-> IF s = {} THEN r
                                          ELSE K!Register(f[s \ {K!Max(s)}], <<a, b>>[K!Max(s)], c)]
           F == [s \in SUBSET Dom |-> IF s = {} THEN r
                                    ELSE IF s = {1} THEN K!Register(r, a, c)
                                    ELSE IF s = {2} THEN K!Register(r, b, c)
                                    ELSE K!Register(K!Register(r, a, c), b, c)]
           G == CHOOSE f : f = Body(f)
<1>1. Dom = {1, 2}
  OBVIOUS
<1>2. SUBSET Dom = {{}, {1}, {2}, {1, 2}}
  BY <1>1
<1>3. K!Max({1}) = 1 /\ K!Max({2}) = 2 /\ K!Max({1, 2}) = 2
  BY DEF K!Max
<1>4. F = Body(F)
  <2>1. ASSUME NEW s \in SUBSET Dom
        PROVE  F[s] = Body(F)[s]
    <3>1. CASE s = {}
      BY <3>1
    <3>2. CASE s = {1}
      <4>1. s \ {K!Max(s)} = {} /\ {} \in SUBSET Dom /\ s # {}
        BY <3>2, <1>3
      <4>2. <<a, b>>[K!Max(s)] = a
        BY <3>2, <1>3
      <4>3. QED
        BY <3>2, <4>1, <4>2
    <3>3. CASE s = {2}
      <4>1. s \ {K!Max(s)} = {} /\ {} \in SUBSET Dom /\ s # {} /\ s # {1}
        BY <3>3, <1>3
      <4>2. <<a, b>>[K!Max(s)] = b
        BY <3>3, <1>3
      <4>3. QED
        BY <3>3, <4>1, <4>2
    <3>4. CASE s = {1, 2}
      <4>1. s \ {K!Max(s)} = {1} /\ {1} \in SUBSET Dom /\ s # {} /\ s # {1} /\ s # {2} /\ {1} # {}
        BY <3>4, <1>1, <1>3
      <4>2. <<a, b>>[K!Max(s)] = b
        BY <3>4, <1>3
      <4>3. QED
        BY <3>4, <4>1, <4>2
    <3>5. QED
      BY <1>2, <3>1, <3>2, <3>3, <3>4
  <2>2. QED
    BY <2>1
<1>5. G = Body(G)
  BY <1>4
<1>6. K!RegisterAll(r, <<a, b>>, c) = G[Dom]
  BY DEF K!RegisterAll, K!FoldLeft, K!MapThenFoldSet
<1> HIDE DEF G, F
<1>7. G[{}] = r
  BY <1>2, <1>5
<1>8. G[{1}] = K!Register(r, a, c)
  <2>1. {1} \ {1} = {} /\ {1} # {} /\ {1} \in SUBSET Dom /\ <<a, b>>[1] = a
    BY <1>1
  <2>2. ASSUME NEW f, f = Body(f)
        PROVE  f[{1}] = K!Register(f[{1} \ {K!Max({1})}], <<a, b>>[K!Max({1})], c)
    BY <2>1, <2>2
  <2>3. G[{1}] = K!Register(G[{1} \ {K!Max({1})}], <<a, b>>[K!Max({1})], c)
    BY <1>5, <2>2
  <2>4. QED
    BY <1>3, <1>7, <2>1, <2>3
<1>9. G[{1, 2}] = K!Register(K!Register(r, a, c), b, c)
  <2>1. {1, 2} \ {2} = {1} /\ {1, 2} # {} /\ {1, 2} \in SUBSET Dom /\ <<a, b>>[2] = b
    BY <1>1
  <2>2. QED
    BY <1>3, <1>5, <1>8, <2>1
<1>10. QED
  BY <1>1, <1>6, <1>9

LEMMA ForgetKeeps ==
  ASSUME NEW r, IsRegistry(r), NEW keys
  PROVE  IsRegistry(K!Forget(r, keys))
<1> DEFINE table == [k \in DOMAIN r.callbacks \ keys |-> r.callbacks[k]]
           go == [g \in Goroutines |->
                    [r.go[g] EXCEPT !.unregistered = r.go[g].unregistered \/ r.go[g].key \in keys]]
<1>1. table \in Tables
  BY LessIsPartial DEF IsRegistry, Tables
<1>2. go \in [Goroutines -> Calls]
  BY DEF IsRegistry, Calls
<1>3. ASSUME NEW g \in Goroutines
      PROVE  CallIsOf(go[g], table)
  BY DEF IsRegistry, Calls, CallIsOf
<1>4. K!Forget(r, keys) = [r EXCEPT !.callbacks = table, !.go = go]
  BY DEF IsRegistry, K!Forget
<1> HIDE DEF table, go
<1>5. QED
  BY <1>1, <1>2, <1>3, <1>4 DEF IsRegistry

LEMMA LookUpKeeps ==
  ASSUME NEW r, IsRegistry(r), NEW g \in Goroutines, NEW a \in Accelerators
  PROVE  IsRegistry(K!LookUp(r, g, a))
<1>1. ASSUME NEW t \in Calls, CallIsOf(t, r.callbacks)
      PROVE  IsRegistry([r EXCEPT !.go[g] = t])
  BY <1>1 DEF IsRegistry
<1> DEFINE key == K!Parse(a)
<1>2. CASE key \notin DOMAIN r.callbacks
  <2>1. [K!Idle EXCEPT !.ret = FALSE] \in Calls /\ [K!Idle EXCEPT !.ret = FALSE].at = "idle"
    BY DEF K!Idle, Calls
  <2>2. QED
    BY <1>1, <1>2, <2>1 DEF K!LookUp, CallIsOf
<1>3. CASE key \in DOMAIN r.callbacks /\ r.suspended
  BY <1>1, <1>3, IdleIsCall DEF K!LookUp, CallIsOf
<1>4. CASE key \in DOMAIN r.callbacks /\ ~r.suspended
  <2> DEFINE t == [K!Idle EXCEPT !.at = IF r.hook THEN "hook" ELSE "callback",
                                 !.key = key, !.callback = r.callbacks[key]]
  <2>1. key \in Keys /\ r.callbacks[key] \in Registrable
    BY <1>4, PartialIs DEF IsRegistry, Tables, Keys
  <2>2. t \in Calls /\ t.key = key /\ t.callback = r.callbacks[key] /\ t.callback # K!NoCallback
    <3>1. r.callbacks[key] # K!NoCallback
      BY <2>1 DEF Registrable
    <3>2. t \in Calls /\ t.key = key /\ t.callback = r.callbacks[key]
      BY <2>1 DEF K!Idle, Calls
    <3>3. QED
      BY <3>1, <3>2
  <2>3. K!LookUp(r, g, a) = [r EXCEPT !.go[g] = t]
    BY <1>4 DEF K!LookUp
  <2> HIDE DEF t
  <2>4. QED
    BY <1>1, <1>4, <2>2, <2>3 DEF CallIsOf
<1>5. QED
  BY <1>2, <1>3, <1>4

LEMMA ReturnKeeps ==
  ASSUME NEW r, IsRegistry(r), NEW g \in Goroutines
  PROVE  /\ r.go[g].at = "hook" => IsRegistry(K!HookReturns(r, g))
         /\ IsRegistry(K!CallbackReturns(r, g))
<1>1. IsRegistry(K!CallbackReturns(r, g))
  BY IdleIsCall DEF IsRegistry, K!CallbackReturns, CallIsOf
<1>2. ASSUME r.go[g].at = "hook"
      PROVE  IsRegistry(K!HookReturns(r, g))
  BY <1>2 DEF IsRegistry, K!HookReturns, CallIsOf, Calls
<1>3. QED
  BY <1>1, <1>2

LEMMA ShortcutsStep ==
  ASSUME IsRegistry(object), [K!Next]_object
  PROVE  IsRegistry(object')
<1>1. ASSUME NEW a \in Accelerators, NEW b \in Accelerators, NEW c \in Handed
      PROVE  IsRegistry(K!RegisterAll(object, <<a, b>>, c))
  BY RegisterKeeps, RegisterAllOfTwo
<1>2. ASSUME NEW on \in BOOLEAN
      PROVE  IsRegistry(K!SetSuspended(object, on)) /\ IsRegistry(K!SetTriggerHook(object, on))
  BY DEF IsRegistry, K!SetSuspended, K!SetTriggerHook
<1>3. ASSUME NEW a \in Accelerators
      PROVE  IsRegistry(K!Unregister(object, a)) /\ IsRegistry(K!UnregisterAll(object))
  BY ForgetKeeps DEF K!Unregister, K!UnregisterAll
<1>4. IsRegistry(K!UnregisterAll(object))
  BY ForgetKeeps DEF K!UnregisterAll
<1>5. CASE K!Next
  BY <1>1, <1>2, <1>3, <1>4, <1>5, RegisterKeeps, LookUpKeeps, ReturnKeeps DEF K!Next, Handed
<1>6. QED
  BY <1>5

-----------------------------------------------------------------------------
(* Protocols: privileges that only grow, and handlers. *)

Privileges == SUBSET {"standard", "allowExtensions"}
SchemeErrors == {"ok", "ErrInvalidScheme", "ErrAlreadyRegistered", "ErrInvalidPrivileges",
                 "ErrRegistryLocked", "ErrNotRegistered", "ErrInvalidResponse"}

IsSchemes(r) ==
  /\ r \in [locked : BOOLEAN, privileges : Partial(Schemes, Privileges),
            handlers : Partial(Schemes, R!Answers), ret : SchemeErrors \cup R!Answers]
  /\ \A s \in DOMAIN r.privileges :
        "allowExtensions" \in r.privileges[s] => "standard" \in r.privileges[s]

\* A list only adds privileges, and leaves the rest alone.
Grows(r, t) ==
  /\ t.locked = r.locked /\ t.handlers = r.handlers
  /\ \A s \in DOMAIN r.privileges :
        s \in DOMAIN t.privileges /\ t.privileges[s] = r.privileges[s]

\* What the list does with one entry.
TakeEntry(so, entry) ==
  IF so.ret # "ok" THEN so
  ELSE IF R!Refusal(so, entry) # "ok" THEN R!Refuse(so, R!Refusal(so, entry))
  ELSE [so EXCEPT !.privileges = R!Put(so.privileges, entry.scheme, entry.privileges)]

LEMMA NewSchemes == IsSchemes(R!NewRegistry)
<1>1. /\ [s \in {} |-> {}] \in Partial(Schemes, Privileges)
      /\ [s \in {} |-> ""] \in Partial(Schemes, R!Answers)
  BY NothingIsPartial
<1>2. QED
  BY <1>1 DEF IsSchemes, R!NewRegistry, SchemeErrors

LEMMA RefuseScheme ==
  ASSUME NEW r, IsSchemes(r), NEW e \in SchemeErrors \cup R!Answers
  PROVE  IsSchemes(R!Refuse(r, e)) /\ Grows(r, R!Refuse(r, e))
BY DEF IsSchemes, R!Refuse, Grows

LEMMA EntryTaken ==
  ASSUME NEW so, IsSchemes(so), NEW entry \in R!Entries
  PROVE  IsSchemes(TakeEntry(so, entry)) /\ Grows(so, TakeEntry(so, entry))
<1>1. CASE so.ret # "ok"
  BY <1>1 DEF TakeEntry, Grows
<1>2. CASE so.ret = "ok" /\ R!Refusal(so, entry) # "ok"
  <2>1. R!Refusal(so, entry) \in SchemeErrors
    BY DEF R!Refusal, SchemeErrors
  <2>2. QED
    BY <1>2, <2>1, RefuseScheme DEF TakeEntry
<1>3. CASE so.ret = "ok" /\ R!Refusal(so, entry) = "ok"
  <2> DEFINE more == R!Put(so.privileges, entry.scheme, entry.privileges)
  <2>1. /\ entry.scheme \in Schemes /\ entry.privileges \in Privileges
        /\ entry.scheme \notin DOMAIN so.privileges
        /\ "allowExtensions" \in entry.privileges => "standard" \in entry.privileges
    BY <1>3 DEF R!Entries, Privileges, R!Refusal
  <2>2. more \in Partial(Schemes, Privileges)
    BY <2>1, PutIsPartial DEF IsSchemes, R!Put
  <2>3. /\ DOMAIN more = DOMAIN so.privileges \cup {entry.scheme}
        /\ more[entry.scheme] = entry.privileges
        /\ \A s \in DOMAIN so.privileges : more[s] = so.privileges[s]
    BY <2>1 DEF R!Put
  <2>4. TakeEntry(so, entry) = [so EXCEPT !.privileges = more]
    BY <1>3 DEF TakeEntry
  <2> HIDE DEF more
  <2>5. IsSchemes([so EXCEPT !.privileges = more])
    BY <2>1, <2>2, <2>3 DEF IsSchemes
  <2>6. Grows(so, [so EXCEPT !.privileges = more])
    BY <2>3 DEF IsSchemes, Grows
  <2>7. QED
    BY <2>4, <2>5, <2>6
<1>4. QED
  BY <1>1, <1>2, <1>3

\* The recursive function of the list, unfolded for a list of two.
LEMMA RegisterTwoSchemes ==
  ASSUME NEW r, ~r.locked, NEW e, NEW f
  PROVE  R!RegisterSchemesAsPrivileged(r, <<e, f>>)
             = TakeEntry(TakeEntry([r EXCEPT !.ret = "ok"], e), f)
<1> DEFINE list == <<e, f>>
           begin == [r EXCEPT !.ret = "ok"]
           Body(g) == [n \in 0..Len(list) |->
               IF n = 0 THEN begin
               ELSE LET so == g[n-1] refusal == R!Refusal(so, list[n]) IN
                    IF so.ret # "ok" THEN so
                    ELSE IF refusal # "ok" THEN R!Refuse(so, refusal)
                    ELSE [so EXCEPT !.privileges =
                              R!Put(so.privileges, list[n].scheme, list[n].privileges)]]
           F == [n \in 0..Len(list) |-> IF n = 0 THEN begin
                                        ELSE IF n = 1 THEN TakeEntry(begin, e)
                                        ELSE TakeEntry(TakeEntry(begin, e), f)]
           G == CHOOSE g : g = Body(g)
<1>1. 0..Len(list) = {0, 1, 2} /\ Len(list) = 2 /\ list[1] = e /\ list[2] = f
  OBVIOUS
<1> HIDE DEF begin
<1>2. ASSUME NEW g
      PROVE  /\ Body(g) = [n \in 0..Len(list) |-> Body(g)[n]]
             /\ Body(g)[0] = begin
             /\ Body(g)[1] = TakeEntry(g[0], e)
             /\ Body(g)[2] = TakeEntry(g[1], f)
  BY <1>1 DEF TakeEntry
<1>3. F = Body(F)
  <2>1. F = [n \in 0..Len(list) |-> F[n]]
    OBVIOUS
  <2>2. F[0] = begin /\ F[1] = TakeEntry(begin, e) /\ F[2] = TakeEntry(TakeEntry(begin, e), f)
    BY <1>1
  <2>3. ASSUME NEW n \in 0..Len(list)
        PROVE  F[n] = Body(F)[n]
    <3>1. /\ Body(F)[0] = begin /\ Body(F)[1] = TakeEntry(F[0], e)
          /\ Body(F)[2] = TakeEntry(F[1], f)
      BY <1>2
    <3>2. n \in {0, 1, 2}
      BY <1>1
    <3> HIDE DEF F, Body, list
    <3>3. QED
      BY <2>2, <3>1, <3>2
  <2> HIDE DEF F, Body, list
  <2>4. QED
    BY <1>2, <2>1, <2>3
<1>4. G = Body(G)
  BY <1>3
<1>5. R!RegisterSchemesAsPrivileged(r, <<e, f>>) = G[Len(list)]
  BY DEF R!RegisterSchemesAsPrivileged, begin
<1> HIDE DEF G, Body, list
<1>6. G[0] = begin /\ G[1] = TakeEntry(G[0], e) /\ G[2] = TakeEntry(G[1], f)
  BY <1>2, <1>4
<1>7. QED
  BY <1>1, <1>5, <1>6 DEF begin

LEMMA ListTaken ==
  ASSUME NEW r, IsSchemes(r), NEW e \in R!Entries, NEW f \in R!Entries
  PROVE  /\ IsSchemes(R!RegisterSchemesAsPrivileged(r, <<e, f>>))
         /\ Grows(r, R!RegisterSchemesAsPrivileged(r, <<e, f>>))
         /\ r.locked => R!RegisterSchemesAsPrivileged(r, <<e, f>>).privileges = r.privileges
<1>1. CASE r.locked
  <2>1. R!RegisterSchemesAsPrivileged(r, <<e, f>>) = R!Refuse(r, "ErrRegistryLocked")
    BY <1>1 DEF R!RegisterSchemesAsPrivileged
  <2>2. "ErrRegistryLocked" \in SchemeErrors
    BY DEF SchemeErrors
  <2>3. R!Refuse(r, "ErrRegistryLocked").privileges = r.privileges
    BY DEF R!Refuse, IsSchemes
  <2>4. QED
    BY <2>1, <2>2, <2>3, RefuseScheme
<1>2. CASE ~r.locked
  <2> DEFINE begin == [r EXCEPT !.ret = "ok"]
             one == TakeEntry(begin, e)
             two == TakeEntry(one, f)
  <2>1. IsSchemes(begin) /\ Grows(r, begin)
    BY DEF IsSchemes, Grows, SchemeErrors
  <2> HIDE DEF begin
  <2>2. IsSchemes(one) /\ Grows(begin, one)
    BY <2>1, EntryTaken
  <2> HIDE DEF one
  <2>3. IsSchemes(two) /\ Grows(one, two)
    BY <2>2, EntryTaken
  <2> HIDE DEF two
  <2>4. Grows(r, two)
    BY <2>1, <2>2, <2>3 DEF Grows
  <2>5. R!RegisterSchemesAsPrivileged(r, <<e, f>>) = two
    BY <1>2, RegisterTwoSchemes DEF begin, one, two
  <2>6. QED
    BY <1>2, <2>3, <2>4, <2>5
<1>3. QED
  BY <1>1, <1>2

LEMMA HandlersChange ==
  ASSUME NEW r, IsSchemes(r), NEW s \in Schemes, NEW kind, NEW a \in R!Answers
  PROVE  \A t \in {R!RegisterHandler(r, s, kind, a), R!UnregisterProtocol(r, s), R!Dispatch(r, s)} :
            /\ IsSchemes(t)
            /\ t.locked = r.locked /\ t.privileges = r.privileges
            /\ \A h \in DOMAIN r.handlers \cap DOMAIN t.handlers : t.handlers[h] = r.handlers[h]
<1> DEFINE Fine(t) == /\ IsSchemes(t)
                      /\ t.locked = r.locked /\ t.privileges = r.privileges
                      /\ \A h \in DOMAIN r.handlers \cap DOMAIN t.handlers :
                            t.handlers[h] = r.handlers[h]
<1>1. ASSUME NEW e \in SchemeErrors \cup R!Answers
      PROVE  Fine(R!Refuse(r, e))
  BY RefuseScheme DEF R!Refuse, IsSchemes
<1>2. ASSUME NEW h \in Partial(Schemes, R!Answers),
             \A k \in DOMAIN r.handlers \cap DOMAIN h : h[k] = r.handlers[k]
      PROVE  Fine([r EXCEPT !.handlers = h, !.ret = "ok"])
  BY <1>2 DEF IsSchemes, SchemeErrors
<1> HIDE DEF Fine
<1>3. Fine(R!RegisterHandler(r, s, kind, a))
  <2> DEFINE h == R!Put(r.handlers, s, a)
  <2>1. h \in Partial(Schemes, R!Answers)
    BY PutIsPartial DEF R!Put, IsSchemes
  <2>2. s \notin DOMAIN r.handlers => \A k \in DOMAIN r.handlers \cap DOMAIN h : h[k] = r.handlers[k]
    BY DEF R!Put
  <2> HIDE DEF h
  <2>3. \/ \E e \in SchemeErrors : R!RegisterHandler(r, s, kind, a) = R!Refuse(r, e)
        \/ /\ s \notin DOMAIN r.handlers
           /\ R!RegisterHandler(r, s, kind, a) = [r EXCEPT !.handlers = h, !.ret = "ok"]
    BY DEF R!RegisterHandler, SchemeErrors, h
  <2>4. QED
    BY <1>1, <1>2, <2>1, <2>2, <2>3
<1>4. Fine(R!UnregisterProtocol(r, s))
  <2> DEFINE h == [k \in DOMAIN r.handlers \ {s} |-> r.handlers[k]]
  <2>1. h \in Partial(Schemes, R!Answers)
    BY LessIsPartial DEF IsSchemes
  <2>2. \A k \in DOMAIN r.handlers \cap DOMAIN h : h[k] = r.handlers[k]
    OBVIOUS
  <2> HIDE DEF h
  <2>3. \/ \E e \in SchemeErrors : R!UnregisterProtocol(r, s) = R!Refuse(r, e)
        \/ R!UnregisterProtocol(r, s) = [r EXCEPT !.handlers = h, !.ret = "ok"]
    BY DEF R!UnregisterProtocol, SchemeErrors, h
  <2>4. QED
    BY <1>1, <1>2, <2>1, <2>2, <2>3
<1>5. Fine(R!Dispatch(r, s))
  <2> DEFINE e == IF s = BadScheme THEN "ErrInvalidScheme"
                  ELSE IF s \notin DOMAIN r.handlers THEN "ErrNotRegistered"
                  ELSE IF r.handlers[s] = "none" THEN "ErrNotRegistered"
                  ELSE IF r.handlers[s] \in {"status 99", "status 600", "header"}
                  THEN "ErrInvalidResponse"
                  ELSE r.handlers[s]
  <2>1. s \in DOMAIN r.handlers => r.handlers[s] \in R!Answers
    BY PartialIs DEF IsSchemes
  <2>2. e \in SchemeErrors \cup R!Answers
    BY <2>1 DEF SchemeErrors
  <2>3. R!Dispatch(r, s) = R!Refuse(r, e)
    BY DEF R!Dispatch
  <2> HIDE DEF e
  <2>4. QED
    BY <1>1, <2>2, <2>3
<1>6. QED
  BY <1>3, <1>4, <1>5 DEF Fine

LEMMA SchemesStep ==
  ASSUME IsSchemes(object), [R!Next]_object
  PROVE  IsSchemes(object') /\ [R!PrivilegesStay]_object
<1>1. ASSUME NEW e \in R!Entries, NEW f \in R!Entries,
             object' = R!RegisterSchemesAsPrivileged(object, <<e, f>>)
      PROVE  IsSchemes(object') /\ R!PrivilegesStay
  BY <1>1, ListTaken DEF Grows, R!PrivilegesStay
<1>2. ASSUME object' = R!LockPrivileges(object)
      PROVE  IsSchemes(object') /\ R!PrivilegesStay
  BY <1>2 DEF IsSchemes, R!LockPrivileges, R!PrivilegesStay
<1>3. ASSUME NEW s \in Schemes, NEW kind, NEW a \in R!Answers,
             \/ object' = R!RegisterHandler(object, s, kind, a)
             \/ object' = R!UnregisterProtocol(object, s)
             \/ object' = R!Dispatch(object, s)
      PROVE  IsSchemes(object') /\ R!PrivilegesStay
  BY <1>3, HandlersChange DEF IsSchemes, R!PrivilegesStay
<1>4. "none" \in R!Answers
  BY DEF R!Answers
<1>5. CASE R!Next
  BY <1>1, <1>2, <1>3, <1>4, <1>5 DEF R!Next
<1>6. CASE UNCHANGED object
  BY <1>6
<1>7. QED
  BY <1>5, <1>6

-----------------------------------------------------------------------------
(* Context bridge: what worlds were given. *)

BridgeErrors == {"ok", "ErrPreloadOrder", "ErrInvalidWorld", "ErrInvalidAPIKey", "ErrInvalidValue",
                 "ErrAlreadyExposed", "ErrMutationNotAllowed"}

Given == SUBSET (ApiKeys \X Exposable)

OneOfItsKey(exposed) == \A d, e \in exposed : d[1] = e[1] => d = e

IsBridge(b) ==
  /\ b \in [complete : BOOLEAN, ret : BridgeErrors,
            exposures : Partial(Worlds \cup {0}, Given)]
  /\ \A w \in DOMAIN b.exposures : OneOfItsKey(b.exposures[w])

BridgeStays(b, c) ==
  /\ \A w \in DOMAIN b.exposures : B!Exposed(b, w) \subseteq B!Exposed(c, w)
  /\ b.complete => c.complete /\ c.exposures = b.exposures

LEMMA NewBridge == IsBridge(B!New)
<1>1. [w \in {} |-> {}] \in Partial(Worlds \cup {0}, Given)
  BY NothingIsPartial
<1>2. QED
  BY <1>1 DEF IsBridge, B!New, BridgeErrors

LEMMA RefuseBridge ==
  ASSUME NEW b, IsBridge(b), NEW e \in BridgeErrors
  PROVE  IsBridge(B!Refuse(b, e)) /\ BridgeStays(b, B!Refuse(b, e))
BY DEF IsBridge, BridgeStays, B!Refuse, B!Exposed

LEMMA ExposedOne ==
  ASSUME NEW b, IsBridge(b), NEW w \in Worlds \cup {0}, NEW k \in ApiKeys, NEW v \in Exposable
  PROVE  /\ IsBridge(B!ExposeInIsolatedWorld(b, w, k, v))
         /\ BridgeStays(b, B!ExposeInIsolatedWorld(b, w, k, v))
<1> DEFINE after == B!ExposeInIsolatedWorld(b, w, k, v)
           grown == B!Exposed(b, w) \cup {<<k, v>>}
           more  == [u \in DOMAIN b.exposures \cup {w} |-> IF u = w THEN grown ELSE b.exposures[u]]
<1>1. CASE b.complete \/ w < 0 \/ B!BadKey(k) \/ B!BadValue(v) \/ B!HasKey(b, w, k)
  <2>1. \E e \in BridgeErrors : after = B!Refuse(b, e)
    BY <1>1 DEF B!ExposeInIsolatedWorld, BridgeErrors
  <2>2. QED
    BY <2>1, RefuseBridge
<1>2. CASE ~(b.complete \/ w < 0 \/ B!BadKey(k) \/ B!BadValue(v) \/ B!HasKey(b, w, k))
  <2>1. B!Exposed(b, w) \in Given /\ OneOfItsKey(B!Exposed(b, w))
    <3>1. CASE w \in DOMAIN b.exposures
      BY <3>1, PartialIs DEF IsBridge, B!Exposed
    <3>2. CASE w \notin DOMAIN b.exposures
      BY <3>2 DEF B!Exposed, OneOfItsKey, Given
    <3>3. QED
      BY <3>1, <3>2
  <2>2. grown \in Given /\ OneOfItsKey(grown)
    BY <1>2, <2>1 DEF B!HasKey, OneOfItsKey, Given
  <2>3. more \in Partial(Worlds \cup {0}, Given)
    <3> HIDE DEF grown
    <3>1. QED
      BY <2>2, PutIsPartial DEF IsBridge
  <2>4. after = [b EXCEPT !.ret = "ok", !.exposures = more]
    <3> DEFINE given == [u \in DOMAIN b.exposures \cup {w} |->
                           B!Exposed(b, u) \cup IF u = w THEN {<<k, v>>} ELSE {}]
    <3>1. \A u \in DOMAIN b.exposures \cup {w} : given[u] = more[u]
      BY DEF B!Exposed
    <3>2. given = more
      BY <3>1
    <3>3. after = [b EXCEPT !.ret = "ok", !.exposures = given]
      BY <1>2 DEF B!ExposeInIsolatedWorld
    <3> HIDE DEF given, more, after
    <3>4. QED
      BY <3>2, <3>3
  <2>5. /\ DOMAIN more = DOMAIN b.exposures \cup {w} /\ more[w] = grown
        /\ \A u \in DOMAIN b.exposures : u # w => more[u] = b.exposures[u]
    OBVIOUS
  <2>6. \A u \in DOMAIN more : OneOfItsKey(more[u])
    BY <2>2, <2>5 DEF IsBridge
  <2>7. \A u \in DOMAIN b.exposures : b.exposures[u] \subseteq more[u]
    BY <2>5 DEF B!Exposed
  <2> HIDE DEF more, after
  <2>8. IsBridge([b EXCEPT !.ret = "ok", !.exposures = more])
    BY <2>3, <2>6 DEF IsBridge, BridgeErrors
  <2>9. BridgeStays(b, [b EXCEPT !.ret = "ok", !.exposures = more])
    BY <1>2, <2>5, <2>7 DEF IsBridge, BridgeStays, B!Exposed
  <2>10. QED
    BY <2>4, <2>8, <2>9 DEF after
<1>3. QED
  BY <1>1, <1>2

LEMMA BridgeStep ==
  ASSUME IsBridge(object), [B!Next]_object
  PROVE  IsBridge(object') /\ [B!ExposuresStay]_object
<1>1. ASSUME IsBridge(object'), BridgeStays(object, object')
      PROVE  B!ExposuresStay
  BY <1>1 DEF IsBridge, BridgeStays, B!ExposuresStay, B!Exposed, OneOfItsKey
<1>2. ASSUME NEW w \in Worlds \cup {0}, NEW k \in ApiKeys, NEW v \in Exposable,
             object' = B!ExposeInIsolatedWorld(object, w, k, v)
      PROVE  IsBridge(object') /\ BridgeStays(object, object')
  BY <1>2, ExposedOne
<1>3. ASSUME object' = B!CompletePreload(object)
      PROVE  IsBridge(object') /\ BridgeStays(object, object')
  BY <1>3 DEF IsBridge, BridgeStays, B!CompletePreload, B!Exposed
<1>4. ASSUME NEW w, NEW k, object' = B!MutateExposure(object, w, k)
      PROVE  IsBridge(object') /\ BridgeStays(object, object')
  <2>1. \E e \in BridgeErrors : object' = B!Refuse(object, e)
    BY <1>4 DEF B!MutateExposure, BridgeErrors
  <2>2. QED
    BY <2>1, RefuseBridge
<1>5. CASE B!Next
  BY <1>1, <1>2, <1>3, <1>4, <1>5 DEF B!Next, B!ExposeInMainWorld
<1>6. CASE UNCHANGED object
  BY <1>6
<1>7. QED
  BY <1>5, <1>6

-----------------------------------------------------------------------------
(* App paths: the places of an app, and what it registered. *)

\* Without keeps the others in their order, each once if it was there once.
LEMMA WithoutKeeps ==
  ASSUME NEW X, NEW list \in Seq(X), NEW path
  PROVE  LET rest == A!Without(list, path) IN
         /\ rest \in Seq(X)
         /\ \A i \in 1..Len(rest) : rest[i] # path
         /\ (\A i, j \in 1..Len(list) : list[i] = list[j] => i = j)
              => \A i, j \in 1..Len(rest) : rest[i] = rest[j] => i = j
<1> DEFINE n == Len(list)
           Body(g) == [k \in 0..n |->
                         IF k = 0 THEN <<>>
                         ELSE IF list[k] = path THEN g[k-1] ELSE Append(g[k-1], list[k])]
           G == CHOOSE g : g = Body(g)
           step == [k \in 1..n |-> [s \in Seq(X) |-> IF list[k] = path THEN s
                                                   ELSE Append(s, list[k])]]
<1>1. n \in Nat /\ \A k \in 1..n : list[k] \in X
  OBVIOUS
<1> HIDE DEF n
<1>2. PICK f \in [0..n -> Seq(X)] : f[0] = <<>> /\ \A k \in 1..n : f[k] = step[k][f[k-1]]
  <2>1. step \in Steps(n, Seq(X)) /\ <<>> \in Seq(X)
    BY <1>1 DEF Steps
  <2> HIDE DEF step
  <2>2. \E f : Recurs(f, n, Seq(X), <<>>, step)
    BY <1>1, <2>1, Recursion
  <2>3. QED
    BY <2>2 DEF Recurs
<1>3. f = Body(f)
  <2>1. ASSUME NEW k \in 0..n
        PROVE  f[k] = Body(f)[k]
    <3>1. CASE k = 0
      BY <1>2, <3>1
    <3>2. CASE k # 0
      <4>1. k \in 1..n /\ k - 1 \in 0..n
        BY <1>1, <3>2
      <4>2. QED
        BY <1>2, <3>2, <4>1
    <3>3. QED
      BY <3>1, <3>2
  <2>2. QED
    BY <2>1
<1>4. G = Body(G)
  <2> HIDE DEF Body
  <2>1. QED
    BY <1>3
<1>5. A!Without(list, path) = G[n]
  BY DEF A!Without, n
<1> HIDE DEF G
<1>6. /\ G[0] = <<>>
      /\ \A k \in 1..n : G[k] = IF list[k] = path THEN G[k-1] ELSE Append(G[k-1], list[k])
  <2>1. ASSUME NEW g, g = Body(g)
        PROVE  g[0] = <<>>
    BY <1>1, <2>1
  <2>2. ASSUME NEW g, g = Body(g), NEW k \in 1..n
        PROVE  g[k] = IF list[k] = path THEN g[k-1] ELSE Append(g[k-1], list[k])
    <3>1. k \in 0..n /\ k # 0
      BY <1>1
    <3>2. QED
      BY <2>2, <3>1
  <2> HIDE DEF Body
  <2>3. QED
    BY <1>4, <2>1, <2>2
<1> DEFINE Fine(s, k) ==
             /\ s \in Seq(X)
             /\ \A i \in 1..Len(s) : s[i] # path /\ \E j \in 1..k : s[i] = list[j]
             /\ (\A i, j \in 1..n : list[i] = list[j] => i = j)
                  => \A i, j \in 1..Len(s) : s[i] = s[j] => i = j
           T == {k \in Nat : k <= n => Fine(G[k], k)}
<1> HIDE DEF Body, step
<1>7. 0 \in T
  <2>1. Fine(<<>>, 0)
    OBVIOUS
  <2> HIDE DEF Fine
  <2>2. QED
    BY <1>6, <2>1
<1>8. ASSUME NEW k \in Nat, k \in T
      PROVE  k + 1 \in T
  <2>1. SUFFICES ASSUME k + 1 <= n
                 PROVE  Fine(G[k+1], k + 1)
    <3> HIDE DEF Fine
    <3>1. QED
      OBVIOUS
  <2>2. k + 1 \in 1..n /\ k <= n /\ k + 1 - 1 = k /\ \A j \in 1..k : j \in 1..n /\ j \in 1..k+1
    BY <1>1, <2>1
  <2>3. Fine(G[k], k)
    <3> HIDE DEF Fine
    <3>1. QED
      BY <1>8, <2>2
  <2> HIDE DEF T
  <2>4. CASE list[k+1] = path
    <3>1. G[k+1] = G[k]
      BY <1>6, <2>2, <2>4
    <3>2. QED
      BY <2>2, <2>3, <3>1
  <2>5. CASE list[k+1] # path
    <3> DEFINE s == G[k] x == list[k+1] t == Append(s, x)
    <3>1. G[k+1] = t
      <4> HIDE DEF Fine, t
      <4>1. G[k+1] = Append(G[(k + 1) - 1], list[k+1])
        BY <1>6, <2>2, <2>5
      <4>2. G[(k + 1) - 1] = G[k]
        BY <2>2
      <4>3. QED
        BY <4>1, <4>2 DEF t, s, x
    <3>2. x \in X /\ s \in Seq(X)
      BY <1>1, <2>2, <2>3
    <3> HIDE DEF s, x
    <3>3. /\ t \in Seq(X) /\ Len(t) = Len(s) + 1 /\ t[Len(s) + 1] = x /\ Len(s) \in Nat
          /\ \A i \in 1..Len(s) : t[i] = s[i]
      BY <3>2
    <3> HIDE DEF t
    <3>4. ASSUME NEW i \in 1..Len(t)
          PROVE  t[i] # path /\ \E j \in 1..k+1 : t[i] = list[j]
      <4>1. CASE i = Len(s) + 1
        <5>1. k + 1 \in 1..k+1 /\ t[i] = list[k+1]
          BY <3>3, <4>1 DEF x
        <5> HIDE DEF Fine
        <5>2. QED
          BY <2>5, <5>1
      <4>2. CASE i # Len(s) + 1
        <5>1. i \in 1..Len(s) /\ t[i] = s[i]
          BY <3>3, <4>2
        <5>2. s[i] # path /\ \E j \in 1..k : s[i] = list[j]
          BY <2>3, <5>1 DEF s
        <5> HIDE DEF Fine
        <5>3. QED
          BY <2>2, <5>1, <5>2
      <4>3. QED
        BY <4>1, <4>2
    <3>5. ASSUME \A i, j \in 1..n : list[i] = list[j] => i = j
          PROVE  \A i, j \in 1..Len(t) : t[i] = t[j] => i = j
      <4>1. \A i \in 1..Len(s) : s[i] # x
        <5>1. \A j \in 1..k : list[j] # list[k+1]
          <6> HIDE DEF Fine
          <6>1. \A j \in 1..k : j \in 1..n /\ j # k + 1
            BY <2>2
          <6>2. QED
            BY <2>2, <3>5, <6>1
        <5>2. QED
          BY <2>3, <5>1 DEF s, x
      <4>2. \A i, j \in 1..Len(s) : s[i] = s[j] => i = j
        BY <2>3, <3>5 DEF s
      <4>3. QED
        BY <3>3, <4>1, <4>2
    <3>6. QED
      BY <3>1, <3>3, <3>4, <3>5
  <2>6. QED
    BY <2>4, <2>5
<1>9. n \in T
  <2> HIDE DEF T
  <2>1. QED
    BY <1>1, <1>7, <1>8, Induction
<1>10. QED
  BY <1>5, <1>9 DEF n

\* Names that callers set, and what registrations are made of.
PathNames == {"appData", "userData", "sessionData", "crashDumps", "logs", "exe"}
Documents == {A!Exe, Moved}
Clients   == {"", "a://", "app"} \X {A!Exe, A!Relative, Moved} \X Arguments
LoginItems == A!Items \cup A!SameKeys
Badges    == [count : {-1, 0, 1}, visible : BOOLEAN, unknown : BOOLEAN]
StoreErrors ==
  {"ok", "error", "TRUE", "FALSE", "ErrUnknownPathName", "ErrPathRequired", "ErrPathNotAbsolute",
   "ErrPathMissing", "ErrUnsupported", "ErrProtocolRequired", "ErrInvalidProtocol",
   "ErrProtocolUnavailable", "ErrInvalidLoginItemType", "ErrServiceNameRequired",
   "ErrInvalidBadgeCount"}

\* X holds the paths set so far.
StoreType(X) ==
  [os : Systems, config : ConfigHomes, unity : BOOLEAN, overrides : Partial(PathNames, X),
   recents : Seq(Documents), protocols : SUBSET Clients, loginItems : SUBSET LoginItems,
   badge : Badges, ret : StoreErrors]

KeysDiffer(items) == \A i, j \in items : A!LoginItemKey(i) = A!LoginItemKey(j) => i = j

IsStore(s) ==
  /\ \E X : s \in StoreType(X)
  /\ \A r, q \in s.protocols : r[1] = q[1] => r = q
  /\ \A i, j \in 1..Len(s.recents) : s.recents[i] = s.recents[j] => i = j
  /\ KeysDiffer(s.loginItems)
  /\ s.badge.visible = (s.badge.count > 0 \/ s.badge.unknown)

\* What registrations leave alone.
SamePaths(s, t) == t.overrides = s.overrides /\ t.os = s.os /\ t.config = s.config

LEMMA NewStoreIsOne ==
  ASSUME NEW os \in Systems, NEW c \in ConfigHomes, NEW unity \in BOOLEAN
  PROVE  IsStore(A!NewStore(os, c, unity))
<1> DEFINE s == A!NewStore(os, c, unity)
<1>1. [n \in {} |-> <<>>] \in Partial(PathNames, {})
  BY NothingIsPartial
<1>2. s \in StoreType({})
  BY <1>1 DEF A!NewStore, StoreType, Badges, StoreErrors
<1>3. /\ s.protocols = {} /\ s.recents = <<>> /\ s.loginItems = {}
      /\ s.badge.count = 0 /\ s.badge.visible = FALSE /\ s.badge.unknown = FALSE
  BY DEF A!NewStore
<1> HIDE DEF s
<1>4. IsStore(s)
  <2>1. \E X : s \in StoreType(X)
    BY <1>2
  <2>2. \A i, j \in 1..Len(s.recents) : s.recents[i] = s.recents[j] => i = j
    <3>1. Len(s.recents) = 0
      BY <1>3
    <3>2. QED
      BY <3>1
  <2>3. s.badge.visible = (s.badge.count > 0 \/ s.badge.unknown)
    <3>1. ~(s.badge.count > 0)
      BY <1>3
    <3>2. QED
      BY <1>3, <3>1, Zenon
  <2>4. \A r, q \in s.protocols : r[1] = q[1] => r = q
    BY <1>3
  <2>5. KeysDiffer(s.loginItems)
    BY <1>3 DEF KeysDiffer
  <2>6. QED
    BY <2>1, <2>2, <2>3, <2>4, <2>5 DEF IsStore
<1>5. QED
  BY <1>4 DEF s

LEMMA RefuseStore ==
  ASSUME NEW s, IsStore(s), NEW e \in StoreErrors
  PROVE  IsStore(A!Refuse(s, e)) /\ SamePaths(s, A!Refuse(s, e))
<1>1. PICK X : s \in StoreType(X)
  BY DEF IsStore
<1>2. A!Refuse(s, e) \in StoreType(X)
  BY <1>1 DEF StoreType, A!Refuse
<1>3. QED
  BY <1>1, <1>2 DEF IsStore, StoreType, A!Refuse, SamePaths

LEMMA PathIsSet ==
  ASSUME NEW s, IsStore(s), NEW name \in PathNames, NEW path
  PROVE  IsStore([s EXCEPT !.ret = "ok", !.overrides = A!Put(s.overrides, name, path)])
<1>1. PICK X : s \in StoreType(X)
  BY DEF IsStore
<1> DEFINE more == A!Put(s.overrides, name, path)
           t == [s EXCEPT !.ret = "ok", !.overrides = more]
<1>2. more \in Partial(PathNames, X \cup {path})
  <2>1. s.overrides \in Partial(PathNames, X)
    BY <1>1 DEF StoreType
  <2>2. s.overrides \in Partial(PathNames, X \cup {path})
    <3>1. s.overrides \in [DOMAIN s.overrides -> X \cup {path}] /\ DOMAIN s.overrides \in SUBSET PathNames
      BY <2>1, PartialIs
    <3>2. QED
      BY <3>1, PartialOf
  <2>3. QED
    BY <2>2, PutIsPartial DEF A!Put
<1> HIDE DEF more
<1>3. t \in StoreType(X \cup {path})
  BY <1>1, <1>2 DEF StoreType, StoreErrors
<1>4. t.protocols = s.protocols /\ t.recents = s.recents /\ t.loginItems = s.loginItems /\ t.badge = s.badge
  BY <1>1 DEF StoreType
<1> HIDE DEF t
<1>5. IsStore(t)
  BY <1>3, <1>4 DEF IsStore
<1>6. QED
  BY <1>5 DEF t, more

-----------------------------------------------------------------------------
(* The operations on registrations keep them apart. *)

LEMMA RecentAdded ==
  ASSUME NEW s, IsStore(s), NEW path \in {<<>>, A!Relative, A!Exe, Moved}
  PROVE  IsStore(A!AddRecentDocument(s, path)) /\ IsStore(A!ClearRecentDocuments(s))
<1>1. ASSUME NEW rs \in Seq(Documents), \A i, j \in 1..Len(rs) : rs[i] = rs[j] => i = j
      PROVE  IsStore([s EXCEPT !.recents = rs, !.ret = "ok"])
  <2>1. PICK X : s \in StoreType(X)
    BY DEF IsStore
  <2> DEFINE t == [s EXCEPT !.recents = rs, !.ret = "ok"]
  <2>2. t \in StoreType(X)
    BY <2>1 DEF StoreType, StoreErrors
  <2>3. t.protocols = s.protocols /\ t.recents = rs /\ t.loginItems = s.loginItems /\ t.badge = s.badge
    BY <2>1 DEF StoreType
  <2> HIDE DEF t
  <2>4. IsStore(t)
    BY <1>1, <2>2, <2>3 DEF IsStore
  <2>5. QED
    BY <2>4 DEF t
<1>2. IsStore(A!ClearRecentDocuments(s))
  <2>1. CASE A!SupportsRecentDocuments(s)
    <3>1. PICK rs : rs = <<>>
      OBVIOUS
    <3>2. rs \in Seq(Documents) /\ Len(rs) = 0
      BY <3>1
    <3>3. IsStore([s EXCEPT !.recents = rs, !.ret = "ok"])
      <4>1. \A i, j \in 1..Len(rs) : rs[i] = rs[j] => i = j
        BY <3>2
      <4>2. QED
        BY <1>1, <3>2, <4>1
    <3>4. QED
      BY <2>1, <3>1, <3>3 DEF A!ClearRecentDocuments
  <2>2. CASE ~A!SupportsRecentDocuments(s)
    BY <2>2, RefuseStore DEF A!ClearRecentDocuments, StoreErrors
  <2>3. QED
    BY <2>1, <2>2
<1>3. IsStore(A!AddRecentDocument(s, path))
  <2>1. CASE ~A!SupportsRecentDocuments(s) \/ path = <<>> \/ path = A!Relative
    <3>1. \E e \in StoreErrors : A!AddRecentDocument(s, path) = A!Refuse(s, e)
      BY <2>1 DEF A!AddRecentDocument, StoreErrors
    <3>2. QED
      BY <3>1, RefuseStore
  <2>2. CASE ~(~A!SupportsRecentDocuments(s) \/ path = <<>> \/ path = A!Relative)
    <3> DEFINE rest == A!Without(s.recents, path)
               rs == <<path>> \o rest
    <3>1. path \in Documents
      BY <2>2 DEF Documents
    <3>2. s.recents \in Seq(Documents)
      BY DEF IsStore, StoreType
    <3>3. /\ rest \in Seq(Documents)
          /\ \A i \in 1..Len(rest) : rest[i] # path
          /\ \A i, j \in 1..Len(rest) : rest[i] = rest[j] => i = j
      BY <3>2, WithoutKeeps DEF IsStore
    <3> HIDE DEF rest
    <3>4. /\ rs \in Seq(Documents) /\ Len(rs) = Len(rest) + 1 /\ Len(rest) \in Nat
          /\ rs[1] = path /\ \A i \in 1..Len(rs) : i # 1 => i - 1 \in 1..Len(rest) /\ rs[i] = rest[i-1]
      BY <3>1, <3>3
    <3> HIDE DEF rs
    <3>5. \A i, j \in 1..Len(rs) : rs[i] = rs[j] => i = j
      BY <3>3, <3>4
    <3>6. IsStore([s EXCEPT !.recents = rs, !.ret = "ok"])
      BY <1>1, <3>4, <3>5
    <3>7. QED
      BY <2>2, <3>6 DEF A!AddRecentDocument, rs, rest
  <2>3. QED
    BY <2>1, <2>2
<1>4. QED
  BY <1>2, <1>3

LEMMA ClientSet ==
  ASSUME NEW s, IsStore(s), NEW protocol \in {"", "a://", "app"},
         NEW path \in {<<>>, A!Relative, Moved}, NEW args \in Arguments, NEW declared
  PROVE  /\ IsStore(A!SetAsDefaultProtocolClient(s, protocol, path, args, declared))
         /\ IsStore(A!RemoveAsDefaultProtocolClient(s, protocol, path, args))
<1>1. ASSUME NEW ps \in SUBSET Clients, \A r, q \in ps : r[1] = q[1] => r = q
      PROVE  IsStore([s EXCEPT !.protocols = ps, !.ret = "TRUE"])
  <2>1. PICK X : s \in StoreType(X)
    BY DEF IsStore
  <2> DEFINE t == [s EXCEPT !.protocols = ps, !.ret = "TRUE"]
  <2>2. t \in StoreType(X)
    BY <2>1 DEF StoreType, StoreErrors
  <2>3. t.protocols = ps /\ t.recents = s.recents /\ t.loginItems = s.loginItems /\ t.badge = s.badge
    BY <2>1 DEF StoreType
  <2> HIDE DEF t
  <2>4. IsStore(t)
    BY <1>1, <2>2, <2>3 DEF IsStore
  <2>5. QED
    BY <2>4 DEF t
<1> DEFINE error == A!RegistrationError(protocol, path)
           one == A!Registration(protocol, path, args)
           left == {r \in s.protocols : r[1] # protocol}
<1>2. error \in StoreErrors
  BY DEF A!RegistrationError, StoreErrors
<1>3. one \in Clients /\ one[1] = protocol
  BY DEF A!Registration, Clients
<1>4. /\ left \in SUBSET Clients /\ \A r \in left : r[1] # protocol
      /\ \A r, q \in left : r[1] = q[1] => r = q
  BY DEF IsStore, StoreType
<1>5. IsStore(A!SetAsDefaultProtocolClient(s, protocol, path, args, declared))
  <2>1. IsStore([s EXCEPT !.protocols = left \cup {one}, !.ret = "TRUE"])
    <3> HIDE DEF left, one
    <3>1. QED
      BY <1>1, <1>3, <1>4
  <2>2. "ErrProtocolUnavailable" \in StoreErrors
    BY DEF StoreErrors
  <2>3. QED
    BY <1>2, <2>1, <2>2, RefuseStore DEF A!SetAsDefaultProtocolClient
<1>6. IsStore(A!RemoveAsDefaultProtocolClient(s, protocol, path, args))
  <2>1. IsStore([s EXCEPT !.protocols = left, !.ret = "TRUE"])
    <3> HIDE DEF left
    <3>1. QED
      BY <1>1, <1>4
  <2>2. "FALSE" \in StoreErrors
    BY DEF StoreErrors
  <2>3. QED
    BY <1>2, <2>1, <2>2, RefuseStore DEF A!RemoveAsDefaultProtocolClient
<1>7. QED
  BY <1>5, <1>6

LEMMA LoginItemSet ==
  ASSUME NEW s, IsStore(s), NEW item \in LoginItems, NEW on
  PROVE  IsStore(A!SetLoginItemSettings(s, item, on))
<1>1. PICK X : s \in StoreType(X)
  BY DEF IsStore
<1>2. A!LoginItemError(item) \in StoreErrors
  BY DEF A!LoginItemError, StoreErrors
<1>3. ASSUME NEW items \in SUBSET LoginItems, KeysDiffer(items)
      PROVE  IsStore([s EXCEPT !.loginItems = items, !.ret = "ok"])
  <2> DEFINE t == [s EXCEPT !.loginItems = items, !.ret = "ok"]
  <2>1. t \in StoreType(X)
    BY <1>1 DEF StoreType, StoreErrors
  <2>2. t.protocols = s.protocols /\ t.recents = s.recents /\ t.badge = s.badge
        /\ t.loginItems = items
    BY <1>1 DEF StoreType
  <2> HIDE DEF t
  <2>3. IsStore(t)
    BY <1>3, <2>1, <2>2 DEF IsStore
  <2>4. QED
    BY <2>3 DEF t
<1> DEFINE items == (s.loginItems \ A!OfKey(s, item)) \cup (IF on THEN {item} ELSE {})
<1>4. items \in SUBSET LoginItems
  BY <1>1 DEF StoreType
<1>k. KeysDiffer(items)
  <2>1. \A i \in s.loginItems \ A!OfKey(s, item) :
           i \in s.loginItems /\ A!LoginItemKey(i) # A!LoginItemKey(item)
    BY DEF A!OfKey
  <2>2. \A i \in items : i \in s.loginItems \ A!OfKey(s, item) \/ i = item
    OBVIOUS
  <2> HIDE DEF items
  <2>3. QED
    BY <2>1, <2>2 DEF IsStore, KeysDiffer
<1> HIDE DEF items
<1>5. IsStore([s EXCEPT !.loginItems = items, !.ret = "ok"])
  BY <1>3, <1>4, <1>k
<1>6. QED
  BY <1>2, <1>5, RefuseStore DEF A!SetLoginItemSettings, items

LEMMA BadgeSet ==
  ASSUME NEW s, IsStore(s), NEW count, count = <<>> \/ \E n \in {-1, 0, 1} : count = <<n>>
  PROVE  IsStore(A!SetBadgeCount(s, count))
<1>1. PICK X : s \in StoreType(X)
  BY DEF IsStore
<1>2. ASSUME NEW b \in Badges, b.visible = (b.count > 0 \/ b.unknown)
      PROVE  IsStore([s EXCEPT !.ret = "TRUE", !.badge = b])
  <2> DEFINE t == [s EXCEPT !.ret = "TRUE", !.badge = b]
  <2>1. t \in StoreType(X)
    BY <1>1 DEF StoreType, StoreErrors
  <2>2. t.protocols = s.protocols /\ t.recents = s.recents /\ t.loginItems = s.loginItems /\ t.badge = b
    BY <1>1 DEF StoreType
  <2> HIDE DEF t
  <2>3. IsStore(t)
    BY <1>2, <2>1, <2>2 DEF IsStore
  <2>4. QED
    BY <2>3 DEF t
<1>3. CASE ~A!SupportsBadgeCount(s) \/ (count # <<>> /\ count[1] < 0)
  <2>1. \E e \in StoreErrors : A!SetBadgeCount(s, count) = A!Refuse(s, e)
    BY <1>3 DEF A!SetBadgeCount, StoreErrors
  <2>2. QED
    BY <2>1, RefuseStore
<1>4. CASE A!SupportsBadgeCount(s) /\ count = <<>>
  <2> DEFINE b == [count |-> 0, visible |-> s.os = "darwin", unknown |-> s.os = "darwin"]
  <2>1. b \in Badges /\ b.visible = (b.count > 0 \/ b.unknown)
    <3>1. CASE s.os = "darwin"
      <4>1. b = [count |-> 0, visible |-> TRUE, unknown |-> TRUE]
        BY <3>1
      <4>2. QED
        BY <4>1 DEF Badges
    <3>2. CASE s.os # "darwin"
      <4>1. b.visible = FALSE /\ b.unknown = FALSE /\ b.count = 0 /\ b \in Badges
        BY <3>2 DEF Badges
      <4>2. ~(b.count > 0)
        BY <4>1
      <4> HIDE DEF b
      <4>3. QED
        BY <4>1, <4>2, Zenon
    <3>3. QED
      BY <3>1, <3>2
  <2>2. A!SetBadgeCount(s, count) = [s EXCEPT !.ret = "TRUE", !.badge = b]
    BY <1>4 DEF A!SetBadgeCount
  <2> HIDE DEF b
  <2>3. IsStore([s EXCEPT !.ret = "TRUE", !.badge = b])
    BY <1>2, <2>1, Zenon
  <2>4. QED
    BY <2>2, <2>3, Zenon
<1>5. CASE A!SupportsBadgeCount(s) /\ count # <<>> /\ ~(count[1] < 0)
  <2> DEFINE n == count[1]
             b == [count |-> n, visible |-> n > 0, unknown |-> FALSE]
  <2>1. b \in Badges /\ b.visible = (b.count > 0 \/ b.unknown)
    BY <1>5 DEF Badges
  <2>2. A!SetBadgeCount(s, count) = [s EXCEPT !.ret = "TRUE", !.badge = b]
    BY <1>5 DEF A!SetBadgeCount
  <2> HIDE DEF b
  <2>3. IsStore([s EXCEPT !.ret = "TRUE", !.badge = b])
    BY <1>2, <2>1, Zenon
  <2>4. QED
    BY <2>2, <2>3, Zenon
<1>6. QED
  BY <1>3, <1>4, <1>5

-----------------------------------------------------------------------------
(* A step of the store; what was set is followed, and the logs stay.          *)

LEMMA PathStep ==
  ASSUME IsStore(object), A!Paths
  PROVE  IsStore(object')
<1>1. ASSUME NEW name \in PathNames, NEW path,
             object' = [object EXCEPT !.ret = "ok", !.overrides = A!Put(object.overrides, name, path)]
      PROVE  IsStore(object')
  BY <1>1, PathIsSet
<1>2. ASSUME NEW e \in StoreErrors, object' = A!Refuse(object, e)
      PROVE  IsStore(object')
  BY <1>2, RefuseStore
<1>3. ASSUME NEW path, NEW makes \in BOOLEAN, object' = A!SetAppLogsPath(object, path, makes)
      PROVE  IsStore(object')
  <2>1. CASE ~makes
    <3>1. "error" \in StoreErrors
      BY DEF StoreErrors
    <3>2. QED
      BY <1>2, <1>3, <2>1, <3>1 DEF A!SetAppLogsPath
  <2>2. CASE makes
    <3> DEFINE to == IF path = <<>> THEN A!DefaultLogsPath(object) ELSE path
    <3>1. object' = [object EXCEPT !.ret = "ok", !.overrides = A!Put(object.overrides, "logs", to)]
      BY <1>3, <2>2 DEF A!SetAppLogsPath
    <3> HIDE DEF to
    <3>2. QED
      BY <1>1, <3>1 DEF PathNames
  <2>3. QED
    BY <2>1, <2>2
<1>4. ASSUME NEW n, NEW makes \in BOOLEAN, object' = A!GetPath(object, n, makes)
      PROVE  IsStore(object')
  <2>1. CASE object' = A!SetAppLogsPath(object, <<>>, makes)
    BY <1>3, <2>1
  <2>2. CASE object' # A!SetAppLogsPath(object, <<>>, makes)
    <3>1. \E e \in StoreErrors : object' = A!Refuse(object, e)
      BY <1>4, <2>2 DEF A!GetPath, StoreErrors
    <3>2. QED
      BY <1>2, <3>1
  <2>3. QED
    BY <2>1, <2>2
<1>5. ASSUME NEW n \in {"appData", "userData", "sessionData", "crashDumps", "logs", "exe", "other"},
             NEW p \in A!Asked,
             object' = A!SetPath(object, n, p)
      PROVE  IsStore(object')
  <2>1. CASE \E e \in StoreErrors : object' = A!Refuse(object, e)
    BY <1>2, <2>1
  <2>2. CASE ~ \E e \in StoreErrors : object' = A!Refuse(object, e)
    <3>1. n \in A!Names
      BY <1>5, <2>2 DEF A!SetPath, StoreErrors
    <3>2. n \in PathNames
      BY <3>1 DEF A!Names, PathNames
    <3>3. object' = [object EXCEPT !.ret = "ok", !.overrides = A!Put(object.overrides, n, p)]
      BY <1>5, <2>2 DEF A!SetPath, StoreErrors
    <3>4. QED
      BY <1>1, <3>2, <3>3
  <2>3. QED
    BY <2>1, <2>2
<1>6. QED
  BY <1>3, <1>4, <1>5 DEF A!Paths

LEMMA LogsAreKept ==
  ASSUME IsStore(object), A!Paths
  PROVE  A!LogsStay
<1> SUFFICES ASSUME "logs" \in DOMAIN object.overrides
             PROVE  A!PathOf(object', "logs") = A!PathOf(object, "logs")
                    \/ /\ A!PathOf(object', "logs") \in {Moved, A!DefaultLogsPath(object)}
                       /\ object'.overrides
                             = A!Put(object.overrides, "logs", A!PathOf(object', "logs"))
  BY DEF A!LogsStay
<1>1. PICK X : object \in StoreType(X)
  BY DEF IsStore
<1>2. ASSUME object'.overrides = object.overrides
      PROVE  A!PathOf(object', "logs") = A!PathOf(object, "logs")
  BY <1>2 DEF A!PathOf, A!Override
<1>3. ASSUME NEW e, object' = A!Refuse(object, e)
      PROVE  object'.overrides = object.overrides
  BY <1>1, <1>3 DEF A!Refuse, StoreType
<1>4. ASSUME NEW name, NEW path, object'.overrides = A!Put(object.overrides, name, path)
      PROVE  A!PathOf(object', "logs") = IF name = "logs" THEN path
                                          ELSE A!PathOf(object, "logs")
  BY <1>4 DEF A!PathOf, A!Override, A!Put
<1>5. ASSUME NEW path \in {<<>>, Moved}, NEW makes \in BOOLEAN,
             object' = A!SetAppLogsPath(object, path, makes)
      PROVE  A!PathOf(object', "logs") = A!PathOf(object, "logs")
             \/ /\ A!PathOf(object', "logs") \in {Moved, A!DefaultLogsPath(object)}
                /\ object'.overrides
                      = A!Put(object.overrides, "logs", A!PathOf(object', "logs"))
  <2>1. CASE ~makes
    BY <1>2, <1>3, <1>5, <2>1 DEF A!SetAppLogsPath
  <2>2. CASE makes
    <3> DEFINE to == IF path = <<>> THEN A!DefaultLogsPath(object) ELSE path
    <3>1. object'.overrides = A!Put(object.overrides, "logs", to)
      BY <1>1, <1>5, <2>2 DEF A!SetAppLogsPath, StoreType
    <3>2. to \in {Moved, A!DefaultLogsPath(object)}
      OBVIOUS
    <3> HIDE DEF to
    <3>3. QED
      BY <1>4, <3>1, <3>2
  <2>3. QED
    BY <2>1, <2>2
<1>6. ASSUME NEW n, NEW makes \in BOOLEAN, object' = A!GetPath(object, n, makes)
      PROVE  object'.overrides = object.overrides
  BY <1>3, <1>6 DEF A!GetPath
<1>7. ASSUME NEW n, NEW p \in A!Asked, object' = A!SetPath(object, n, p)
      PROVE  A!PathOf(object', "logs") = A!PathOf(object, "logs")
             \/ /\ A!PathOf(object', "logs") = Moved
                /\ object'.overrides
                      = A!Put(object.overrides, "logs", A!PathOf(object', "logs"))
  <2>1. CASE object'.overrides = object.overrides
    BY <1>2, <2>1
  <2>2. CASE object'.overrides # object.overrides
    <3>1. /\ object' = [object EXCEPT !.overrides = A!Put(object.overrides, n, p), !.ret = "ok"]
          /\ n = "logs" => p = Moved
      BY <1>3, <1>7, <2>2 DEF A!SetPath, A!Asked
    <3>2. object'.overrides = A!Put(object.overrides, n, p)
      BY <1>1, <3>1 DEF StoreType
    <3>3. QED
      BY <1>4, <3>1, <3>2
  <2>3. QED
    BY <2>1, <2>2
<1>8. QED
  BY <1>2, <1>5, <1>6, <1>7 DEF A!Paths

LEMMA StoreStep ==
  ASSUME IsStore(object), [A!Next]_object
  PROVE  IsStore(object') /\ [A!LogsStay]_object
<1>1. CASE UNCHANGED object
  BY <1>1
<1>2. CASE A!Paths
  BY <1>2, PathStep, LogsAreKept
<1>3. CASE object.overrides = [n \in {} |-> <<>>] /\ A!Registrations
  <2>1. A!LogsStay
    BY <1>3 DEF A!LogsStay
  <2>2. IsStore(object')
    <3>1. ASSUME NEW pr \in {"", "app"}
          PROVE  pr \in {"", "a://", "app"}
      OBVIOUS
    <3>2. PICK args : args \in Arguments \/ Arguments = {}
      OBVIOUS
    <3>3. ASSUME NEW pr \in {"", "app"}, NEW p \in {<<>>, A!Relative, Moved}, NEW a \in Arguments,
                 object' = A!RemoveAsDefaultProtocolClient(object, pr, p, a)
          PROVE  IsStore(object')
      BY <3>1, <3>3, ClientSet
    <3>4. ASSUME NEW i \in A!Items \cup A!SameKeys, NEW on \in BOOLEAN,
                 object' = A!SetLoginItemSettings(object, i, on)
          PROVE  IsStore(object')
      BY <3>4, LoginItemSet DEF LoginItems
    <3>5. QED
      BY <1>3, <3>3, <3>4, RecentAdded, ClientSet, BadgeSet DEF A!Registrations
  <2>3. QED
    BY <2>1, <2>2
<1>4. QED
  BY <1>1, <1>2, <1>3 DEF A!Next

LEMMA StoreAgrees ==
  ASSUME IsStore(object)
  PROVE  A!PathsFollow /\ A!RegistrationsAgree
<1>1. PICK X : object \in StoreType(X)
  BY DEF IsStore
<1>2. DOMAIN object.overrides \in SUBSET PathNames
  <2>1. object.overrides \in Partial(PathNames, X)
    BY <1>1 DEF StoreType
  <2>2. QED
    BY <2>1, PartialIs
<1>3. A!PathsFollow
  <2>2. A!PathOf(object, "userData") = A!UserData(object)
    BY DEF A!PathOf, A!Override, A!UserData, A!DefaultPath, A!Folders
  <2>3. A!PathOf(object, "appData") = A!AppData(object)
    BY DEF A!PathOf, A!Override, A!AppData, A!DefaultPath, A!Folders
  <2>4. "sessionData" \notin DOMAIN object.overrides =>
           A!PathOf(object, "sessionData") = A!UserData(object)
    BY DEF A!PathOf, A!Override, A!DefaultPath, A!Folders
  <2>5. "crashDumps" \notin DOMAIN object.overrides =>
           A!PathOf(object, "crashDumps") = Append(A!UserData(object), "Crashpad")
    BY DEF A!PathOf, A!Override, A!DefaultPath, A!Folders
  <2>6. "userData" \notin DOMAIN object.overrides => A!UserData(object) = Append(A!AppData(object), "App")
    BY DEF A!UserData, A!Override
  <2>7. QED
    BY <2>2, <2>3, <2>4, <2>5, <2>6 DEF A!PathsFollow
<1>4. A!RegistrationsAgree
  <2>1. object.recents \in Seq(Documents)
    BY <1>1 DEF StoreType
  <2>2. DOMAIN object.recents = 1..Len(object.recents)
    BY <2>1
  <2>3. \A i \in object.loginItems :
           LET status == A!GetLoginItemSettings(object, i) IN
           status.openAtLogin /\ i \in status.launchItems /\ status.executableWillLaunchAtLogin
    <3>1. SUFFICES ASSUME NEW i \in object.loginItems
                   PROVE  A!OfKey(object, i) # {} /\ \E k \in object.loginItems : k.path = i.path
      BY DEF A!GetLoginItemSettings
    <3>2. i \in A!OfKey(object, i)
      BY DEF A!OfKey
    <3>3. QED
      BY <3>2
  <2>4. \A i, j \in object.loginItems : A!LoginItemKey(i) = A!LoginItemKey(j) => i = j
    BY DEF IsStore, KeysDiffer
  <2>5. QED
    BY <2>2, <2>3, <2>4 DEF A!RegistrationsAgree, IsStore
<1>5. QED
  BY <1>3, <1>4

-----------------------------------------------------------------------------
\* I is what the items of a menu are, E what its journal may hold.
MenuResults == {"ok", "ErrInvalidMenuItem", "ErrMenuDisposed", "ErrMenuItemMissing"}
TrayEvents  == {"context-menu", "click", "dispose"} \X {0}

MenuType(I, E) == [items : I, disposed : BOOLEAN, events : Seq(E), ret : MenuResults]
TrayType == [shows : BOOLEAN, disposed : BOOLEAN, events : Seq(TrayEvents),
             ret : MenuResults \cup {"ErrTrayDisposed"}]

IsMenu(m)  == \E I, E : m \in MenuType(I, E)
IsMenus(b) == /\ \E X : b \in [menu : X, tray : TrayType]
              /\ IsMenu(b.menu)

\* What one call may add to the journal of a menu.
MayJournal(m, e) ==
  /\ m.disposed => e[1] = "dispose"
  /\ e[1] = "click" => m.items[e[2]].enabled /\ m.items[e[2]].visible

MenuMoves(m, t) ==
  /\ IsMenu(t)
  /\ t.events = m.events \/ \E e : MayJournal(m, e) /\ t.events = Append(m.events, e)

LEMMA AppendIsNew ==
  ASSUME NEW E, NEW s \in Seq(E), NEW e
  PROVE  /\ Append(s, e) # s /\ Append(s, e)[Len(Append(s, e))] = e
         /\ Append(s, e) \in Seq(E \cup {e})
<1>1. s \in Seq(E \cup {e}) /\ e \in E \cup {e}
  OBVIOUS
<1>2. /\ Append(s, e) \in Seq(E \cup {e}) /\ Len(Append(s, e)) = Len(s) + 1
      /\ Append(s, e)[Len(s) + 1] = e /\ Len(s) \in Nat
  BY <1>1
<1>3. QED
  BY <1>2

LEMMA NewMenuIsOne ==
  ASSUME NEW t, ~M!BadTemplate(t)
  PROVE  IsMenus([menu |-> M!BuildFromTemplate(t), tray |-> M!NewTray])
<1> DEFINE m == M!BuildFromTemplate(t)
           items == [i \in DOMAIN t |-> M!NormalizeItem(t[i])]
<1> HIDE DEF items
<1>1. m = [items |-> items, disposed |-> FALSE, events |-> <<>>, ret |-> "ok"]
  BY DEF M!BuildFromTemplate, M!NoMenu, items
<1>2. <<>> \in Seq({}) /\ <<>> \in Seq(TrayEvents)
  OBVIOUS
<1>3. m \in MenuType({items}, {})
  BY <1>1, <1>2 DEF MenuType, MenuResults
<1>4. M!NewTray \in TrayType
  BY <1>2 DEF M!NewTray, TrayType, MenuResults
<1> HIDE DEF m
<1> DEFINE b == [menu |-> m, tray |-> M!NewTray]
<1>5. b \in [menu : {m}, tray : TrayType] /\ b.menu = m
  BY <1>4
<1> HIDE DEF b
<1>6. IsMenus(b)
  BY <1>3, <1>5 DEF IsMenus, IsMenu
<1>7. QED
  BY <1>6 DEF b, m

LEMMA MenuJournal ==
  ASSUME NEW m, IsMenu(m), NEW e, MayJournal(m, e), NEW disposed \in BOOLEAN
  PROVE  MenuMoves(m, M!Journal([m EXCEPT !.disposed = disposed], e))
<1> DEFINE t == M!Journal([m EXCEPT !.disposed = disposed], e)
<1>1. PICK I, E : m \in MenuType(I, E)
  BY DEF IsMenu
<1> DEFINE es == Append(m.events, e)
<1>2. es \in Seq(E \cup {e})
  BY <1>1, AppendIsNew DEF MenuType
<1> HIDE DEF es
<1>3. t = [m EXCEPT !.disposed = disposed, !.events = es, !.ret = "ok"]
  BY <1>1 DEF M!Journal, MenuType, es
<1>4. [m EXCEPT !.disposed = disposed, !.events = es, !.ret = "ok"] \in MenuType(I, E \cup {e})
  BY <1>1, <1>2 DEF MenuType, MenuResults
<1>5. [m EXCEPT !.disposed = disposed, !.events = es, !.ret = "ok"].events = es
  BY <1>1 DEF MenuType
<1> HIDE DEF t
<1>6. MenuMoves(m, t)
  BY <1>3, <1>4, <1>5 DEF MenuMoves, IsMenu, es
<1>7. QED
  BY <1>6 DEF t

LEMMA MenuQuiet ==
  ASSUME NEW m, IsMenu(m), NEW items, NEW r \in MenuResults
  PROVE  MenuMoves(m, [m EXCEPT !.items = items, !.ret = r])
<1> DEFINE t == [m EXCEPT !.items = items, !.ret = r]
<1>1. PICK I, E : m \in MenuType(I, E)
  BY DEF IsMenu
<1>2. t \in MenuType({items}, E) /\ t.events = m.events
  BY <1>1 DEF MenuType
<1> HIDE DEF t
<1>3. MenuMoves(m, t)
  BY <1>2 DEF MenuMoves, IsMenu
<1>4. QED
  BY <1>3 DEF t

LEMMA MenuRefuses ==
  ASSUME NEW m, IsMenu(m), NEW r \in MenuResults
  PROVE  MenuMoves(m, [m EXCEPT !.ret = r])
<1>1. [m EXCEPT !.items = m.items, !.ret = r] = [m EXCEPT !.ret = r]
  BY DEF IsMenu, MenuType
<1>2. MenuMoves(m, [m EXCEPT !.items = m.items, !.ret = r])
  BY MenuQuiet
<1>3. QED
  BY <1>1, <1>2

LEMMA PopupMoves ==
  ASSUME NEW m, IsMenu(m), NEW id
  PROVE  /\ MenuMoves(m, M!Popup(m, id))
         /\ id = "" => /\ M!Popup(m, id).ret = "ok" <=> M!Popup(m, id).events # m.events
                       /\ M!Popup(m, id).ret \in MenuResults
<1>1. PICK I, E : m \in MenuType(I, E)
  BY DEF IsMenu
<1>2. [m EXCEPT !.disposed = m.disposed] = m /\ m.disposed \in BOOLEAN
  BY <1>1 DEF MenuType
<1>3. ASSUME NEW e, MayJournal(m, e) PROVE MenuMoves(m, M!Journal(m, e))
  <2>1. MenuMoves(m, M!Journal([m EXCEPT !.disposed = m.disposed], e))
    BY <1>2, <1>3, MenuJournal
  <2>2. QED
    BY <1>2, <2>1
<1>4. CASE m.disposed
  <2>1. M!Popup(m, id) = [m EXCEPT !.ret = "ErrMenuDisposed"]
    BY <1>4 DEF M!Popup
  <2>2. /\ [m EXCEPT !.ret = "ErrMenuDisposed"].ret = "ErrMenuDisposed"
        /\ [m EXCEPT !.ret = "ErrMenuDisposed"].events = m.events
    BY <1>1 DEF MenuType
  <2>3. QED
    BY <2>1, <2>2, MenuRefuses DEF MenuResults
<1>5. CASE ~m.disposed /\ id = ""
  <2> DEFINE e == <<"popup", 0>>
  <2>1. M!Popup(m, id) = M!Journal(m, e)
    BY <1>5 DEF M!Popup
  <2>2. MayJournal(m, e)
    BY <1>5 DEF MayJournal
  <2> HIDE DEF e
  <2>3. Append(m.events, e) # m.events
    <3>1. m.events \in Seq(E)
      BY <1>1 DEF MenuType
    <3>2. QED
      BY <3>1, AppendIsNew
  <2>4. M!Journal(m, e).ret = "ok" /\ M!Journal(m, e).events = Append(m.events, e)
    BY <1>1 DEF MenuType, M!Journal
  <2>5. MenuMoves(m, M!Journal(m, e))
    BY <2>2, <1>3
  <2>6. QED
    BY <2>1, <2>3, <2>4, <2>5 DEF MenuResults
<1>6. CASE ~m.disposed /\ id # ""
  <2> DEFINE i == M!ItemByID(m, id)
  <2> HIDE DEF i
  <2>1. CASE i = 0
    <3>1. M!Popup(m, id) = [m EXCEPT !.ret = "ErrMenuItemMissing"]
      BY <1>6, <2>1 DEF M!Popup, i
    <3>2. QED
      BY <1>6, <3>1, MenuRefuses DEF MenuResults
  <2>2. CASE i # 0 /\ (~m.items[i].enabled \/ ~m.items[i].visible \/ m.items[i].type = "separator")
    <3>1. M!Popup(m, id) = [m EXCEPT !.ret = "ErrInvalidMenuItem"]
      BY <1>6, <2>2 DEF M!Popup, i
    <3>2. QED
      BY <1>6, <3>1, MenuRefuses DEF MenuResults
  <2>3. CASE i # 0 /\ ~(~m.items[i].enabled \/ ~m.items[i].visible \/ m.items[i].type = "separator")
    <3>1. M!Popup(m, id) = M!Journal(m, <<"click", i>>)
      BY <1>6, <2>3 DEF M!Popup, i
    <3>2. MayJournal(m, <<"click", i>>)
      BY <1>6, <2>3 DEF MayJournal
    <3>3. MenuMoves(m, M!Journal(m, <<"click", i>>))
      BY <1>3, <3>2
    <3>4. QED
      BY <1>6, <3>1, <3>3
  <2>4. QED
    BY <2>1, <2>2, <2>3
<1>7. QED
  BY <1>4, <1>5, <1>6

\* The menu, by itself, and the tray, by itself.
LEMMA MenuOfBoth ==
  ASSUME IsMenus(object), NEW m, MenuMoves(object.menu, m), object' = [object EXCEPT !.menu = m]
  PROVE  IsMenus(object') /\ M!ClicksAreAnswered
<1>1. PICK X : object \in [menu : X, tray : TrayType]
  BY DEF IsMenus
<1>2. object'.menu = m /\ object'.tray = object.tray /\ object' \in [menu : {m}, tray : TrayType]
  BY <1>1
<1>3. IsMenus(object')
  BY <1>2 DEF IsMenus, MenuMoves
<1>4. PICK I, E : object.menu \in MenuType(I, E)
  BY DEF IsMenus, IsMenu
<1>5. ASSUME m.events # object.menu.events
      PROVE  LET e == m.events[Len(m.events)] IN
             /\ object.menu.disposed => e[1] = "dispose"
             /\ e[1] = "click" => object.menu.items[e[2]].enabled /\ object.menu.items[e[2]].visible
  <2>1. PICK e : MayJournal(object.menu, e) /\ m.events = Append(object.menu.events, e)
    BY <1>5 DEF MenuMoves
  <2>2. object.menu.events \in Seq(E)
    BY <1>4 DEF MenuType
  <2>3. m.events[Len(m.events)] = e
    BY <2>1, <2>2, AppendIsNew
  <2>4. QED
    BY <2>1, <2>3 DEF MayJournal
<1>6. M!ClicksAreAnswered
  BY <1>2, <1>5 DEF M!ClicksAreAnswered
<1>7. QED
  BY <1>3, <1>6

LEMMA TrayOfBoth ==
  ASSUME IsMenus(object), NEW t \in TrayType, object' = [object EXCEPT !.tray = t],
         t.events # object.tray.events => t.events[Len(t.events)][1] # "click"
  PROVE  IsMenus(object') /\ M!ClicksAreAnswered
<1>1. PICK X : object \in [menu : X, tray : TrayType]
  BY DEF IsMenus
<1>2. object'.menu = object.menu /\ object'.tray = t /\ object' \in [menu : X, tray : TrayType]
  BY <1>1
<1>3. IsMenus(object')
  BY <1>2 DEF IsMenus
<1>4. M!ClicksAreAnswered
  BY <1>2 DEF M!ClicksAreAnswered
<1>5. QED
  BY <1>3, <1>4

LEMMA TrayJournal ==
  ASSUME NEW t \in TrayType, NEW e \in TrayEvents, NEW shows \in BOOLEAN, NEW disposed \in BOOLEAN,
         NEW u, u = M!Journal([t EXCEPT !.shows = shows, !.disposed = disposed], e)
  PROVE  u \in TrayType /\ u.events[Len(u.events)] = e
<1> DEFINE es == Append(t.events, e)
<1>1. t.events \in Seq(TrayEvents)
  BY DEF TrayType
<1>2. es \in Seq(TrayEvents) /\ es # t.events /\ es[Len(es)] = e
  BY <1>1, AppendIsNew
<1> HIDE DEF es
<1>3. u = [t EXCEPT !.shows = shows, !.disposed = disposed, !.events = es, !.ret = "ok"]
  BY DEF M!Journal, TrayType, es
<1>4. [t EXCEPT !.shows = shows, !.disposed = disposed, !.events = es, !.ret = "ok"] \in TrayType
  BY <1>2 DEF TrayType, MenuResults
<1>5. [t EXCEPT !.shows = shows, !.disposed = disposed, !.events = es, !.ret = "ok"].events = es
  BY DEF TrayType
<1>6. QED
  BY <1>2, <1>3, <1>4, <1>5

LEMMA MenusStep ==
  ASSUME IsMenus(object), [M!Next]_object
  PROVE  IsMenus(object') /\ [M!ClicksAreAnswered]_object
<1> DEFINE m == object.menu
           t == object.tray
<1>1. IsMenu(m) /\ t \in TrayType
  BY DEF IsMenus
<1>2. t.shows \in BOOLEAN /\ t.disposed \in BOOLEAN
  BY <1>1 DEF TrayType
<1>3. ASSUME NEW id, NEW update, object' = [object EXCEPT !.menu = M!UpdateItem(m, id, update)]
      PROVE  IsMenus(object') /\ M!ClicksAreAnswered
  <2>1. MenuMoves(m, M!UpdateItem(m, id, update))
    <3>1. CASE m.disposed
      BY <1>1, <3>1, MenuRefuses DEF M!UpdateItem, MenuResults
    <3>2. CASE ~m.disposed /\ M!ItemByID(m, id) = 0
      BY <1>1, <3>2, MenuRefuses DEF M!UpdateItem, MenuResults
    <3>3. CASE ~m.disposed /\ M!ItemByID(m, id) # 0
      <4>1. \E items : M!UpdateItem(m, id, update) = [m EXCEPT !.items = items, !.ret = "ok"]
        BY <1>1, <3>3 DEF M!UpdateItem, IsMenu, MenuType
      <4>2. PICK items : M!UpdateItem(m, id, update) = [m EXCEPT !.items = items, !.ret = "ok"]
        BY <4>1
      <4>3. "ok" \in MenuResults
        BY DEF MenuResults
      <4>4. MenuMoves(m, [m EXCEPT !.items = items, !.ret = "ok"])
        BY <1>1, <4>3, MenuQuiet
      <4>5. QED
        BY <4>2, <4>4
    <3>4. QED
      BY <3>1, <3>2, <3>3
  <2>2. QED
    BY <1>3, <2>1, MenuOfBoth
<1>4. ASSUME NEW id, object' = [object EXCEPT !.menu = M!Popup(m, id)]
      PROVE  IsMenus(object') /\ M!ClicksAreAnswered
  BY <1>1, <1>4, PopupMoves, MenuOfBoth
<1>5. ASSUME object' = [object EXCEPT !.menu = M!Dispose(m)]
      PROVE  IsMenus(object') /\ M!ClicksAreAnswered
  <2>1. MayJournal(m, <<"dispose", 0>>)
    BY DEF MayJournal
  <2>2. MenuMoves(m, M!Dispose(m))
    BY <1>1, <2>1, MenuJournal DEF M!Dispose
  <2>3. QED
    BY <1>5, <2>2, MenuOfBoth
<1>6. ASSUME object' = [object EXCEPT !.tray = M!SetContextMenu(t)]
      PROVE  IsMenus(object') /\ M!ClicksAreAnswered
  <2> DEFINE u == M!SetContextMenu(t)
             e == <<"context-menu", 0>>
  <2>1. u \in TrayType /\ (u.events # t.events => u.events[Len(u.events)][1] # "click")
    <3>1. CASE t.disposed
      <4>1. u = [t EXCEPT !.ret = "ErrTrayDisposed"]
        BY <3>1 DEF M!SetContextMenu
      <4>2. [t EXCEPT !.ret = "ErrTrayDisposed"] \in TrayType
            /\ [t EXCEPT !.ret = "ErrTrayDisposed"].events = t.events
        BY <1>1 DEF TrayType
      <4>3. QED
        BY <4>1, <4>2
    <3>2. CASE ~t.disposed
      <4>1. [t EXCEPT !.shows = TRUE] = [t EXCEPT !.shows = TRUE, !.disposed = t.disposed]
        BY <1>1 DEF TrayType
      <4>2. u = M!Journal([t EXCEPT !.shows = TRUE, !.disposed = t.disposed], e)
        BY <3>2, <4>1 DEF M!SetContextMenu
      <4>3. e \in TrayEvents /\ e[1] # "click"
        BY DEF TrayEvents
      <4> HIDE DEF e, u
      <4> HIDE DEF t
      <4>4. u \in TrayType /\ u.events[Len(u.events)] = e
        BY <1>1, <1>2, <4>2, <4>3, TrayJournal, Zenon
      <4>5. QED
        BY <4>3, <4>4
    <3>3. QED
      BY <3>1, <3>2
  <2> HIDE DEF u
  <2>2. QED
    BY <1>6, <2>1, TrayOfBoth DEF u
<1>7. ASSUME object' = [object EXCEPT !.tray = M!Dispose(t)]
      PROVE  IsMenus(object') /\ M!ClicksAreAnswered
  <2> DEFINE u == M!Dispose(t)
             e == <<"dispose", 0>>
  <2>1. [t EXCEPT !.disposed = TRUE] = [t EXCEPT !.shows = t.shows, !.disposed = TRUE]
    BY <1>1 DEF TrayType
  <2>2. u = M!Journal([t EXCEPT !.shows = t.shows, !.disposed = TRUE], e)
    BY <2>1 DEF M!Dispose
  <2>3. e \in TrayEvents /\ e[1] # "click"
    BY DEF TrayEvents
  <2> HIDE DEF e, u
  <2> HIDE DEF t
  <2>4. u \in TrayType /\ u.events[Len(u.events)] = e
    BY <1>1, <1>2, <2>2, <2>3, TrayJournal, Zenon
  <2>5. QED
    BY <1>7, <2>3, <2>4, TrayOfBoth DEF u, t
<1>8. ASSUME object' = M!Click(object)
      PROVE  IsMenus(object') /\ [M!ClicksAreAnswered]_object
  <2> DEFINE e == <<"click", 0>>
             clicked == M!Journal(t, e)
             popped == M!Popup(m, "")
  <2>1. PICK X : object \in [menu : X, tray : TrayType]
    BY DEF IsMenus
  <2>2. CASE t.disposed
    <3>1. object' = [object EXCEPT !.tray = [t EXCEPT !.ret = "ErrTrayDisposed"]]
      BY <1>8, <2>2, <2>1 DEF M!Click
    <3>2. [t EXCEPT !.ret = "ErrTrayDisposed"] \in TrayType
          /\ [t EXCEPT !.ret = "ErrTrayDisposed"].events = t.events
      BY <1>1 DEF TrayType
    <3>3. QED
      BY <3>1, <3>2, TrayOfBoth
  <2>3. clicked \in TrayType
    <3>1. t = [t EXCEPT !.shows = t.shows, !.disposed = t.disposed] /\ e \in TrayEvents
      BY <1>1 DEF TrayType, TrayEvents
    <3> HIDE DEF t, e
    <3>2. M!Journal([t EXCEPT !.shows = t.shows, !.disposed = t.disposed], e) \in TrayType
      BY <1>1, <1>2, <3>1, TrayJournal, Zenon
    <3>3. QED
      BY <3>1, <3>2
  <2>4. CASE ~t.disposed /\ ~t.shows
    <3>1. object' = [object EXCEPT !.tray = clicked]
      BY <1>8, <2>4 DEF M!Click
    <3> HIDE DEF clicked
    <3>2. object'.menu = object.menu /\ object' \in [menu : X, tray : TrayType]
      BY <2>1, <2>3, <3>1
    <3>3. M!ClicksAreAnswered
      BY <2>4, <3>2 DEF M!ClicksAreAnswered
    <3>4. QED
      BY <3>2, <3>3 DEF IsMenus
  <2>5. CASE ~t.disposed /\ t.shows
    <3>1. MenuMoves(m, popped) /\ (popped.ret = "ok" <=> popped.events # m.events)
          /\ popped.ret \in MenuResults
      BY <1>1, PopupMoves
    <3>2. object' = [menu |-> popped, tray |-> [clicked EXCEPT !.ret = popped.ret]]
      BY <1>8, <2>5 DEF M!Click
    <3> HIDE DEF clicked, popped
    <3> DEFINE u == [clicked EXCEPT !.ret = popped.ret]
    <3>3. u \in TrayType /\ u.ret = popped.ret
      BY <2>3, <3>1 DEF TrayType
    <3> HIDE DEF u
    <3>4. /\ object'.menu = popped /\ object'.tray = u
          /\ object' \in [menu : {popped}, tray : TrayType]
      BY <3>2, <3>3 DEF u
    <3>5. IsMenus(object')
      BY <3>1, <3>4 DEF IsMenus, MenuMoves
    <3>6. PICK I, E : m \in MenuType(I, E)
      BY <1>1 DEF IsMenu
    <3>7. ASSUME popped.events # m.events
          PROVE  LET g == popped.events[Len(popped.events)] IN
                 /\ m.disposed => g[1] = "dispose"
                 /\ g[1] = "click" => m.items[g[2]].enabled /\ m.items[g[2]].visible
      <4>1. PICK g : MayJournal(m, g) /\ popped.events = Append(m.events, g)
        BY <3>1, <3>7 DEF MenuMoves
      <4>2. m.events \in Seq(E)
        BY <3>6 DEF MenuType
      <4>3. popped.events[Len(popped.events)] = g
        BY <4>1, <4>2, AppendIsNew
      <4>4. QED
        BY <4>1, <4>3 DEF MayJournal
    <3>8. M!ClicksAreAnswered
      BY <3>1, <3>3, <3>4, <3>7 DEF M!ClicksAreAnswered
    <3>9. QED
      BY <3>5, <3>8
  <2>6. QED
    BY <2>2, <2>4, <2>5
<1>9. CASE M!Next
  BY <1>3, <1>4, <1>5, <1>6, <1>7, <1>8, <1>9 DEF M!Next
<1>10. CASE UNCHANGED object
  BY <1>10
<1>11. QED
  BY <1>9, <1>10

-----------------------------------------------------------------------------
\* Notifications: what the journal is made of, and when.
NoticeNames == {"show", "failed", "click", "action", "reply", "close"}
NoticeResults == {"ok", "ErrNotificationClosed", "ErrInvalidAction", "TRUE", "FALSE"}

\* O holds the options, X what the history may be.
NoticeType(O, X) ==
  [options : O, shown : BOOLEAN, closed : BOOLEAN, events : Seq(NoticeNames \X Int), history : X,
   ret : NoticeResults]

\* What an entry may be with these options.
NoticeAllows(options, entry) ==
  /\ entry[1] = "action" => entry[2] \in 0..Len(options.actions) - 1
  /\ entry[1] = "reply" => options.hasReply
  /\ options.unsigned => entry[1] \in {"failed", "close"}

IsNotice(n) ==
  /\ \E O, X : n \in NoticeType(O, X)
  /\ n.options.unsigned => ~n.shown
  /\ \A i \in 1..Len(n.events) : NoticeAllows(n.options, n.events[i])
  /\ n.shown => \E i \in 1..Len(n.events) : n.events[i][1] = "show"
  /\ n.history # <<>> => n.shown
  /\ \A i \in 1..Len(n.events) : n.events[i][1] = "close" => n.closed
  /\ \A i \in 1..Len(n.events) : n.events[i][1] \in {"click", "action", "reply"} =>
        /\ \E j \in 1..i-1 : n.events[j][1] = "show"
        /\ \A j \in 1..i-1 : n.events[j][1] # "close"
  /\ \A i, j \in 1..Len(n.events) : i < j /\ n.events[i][1] = "close" => n.events[j][1] = "failed"

LEMMA NewNoticeIsOne ==
  ASSUME NEW o
  PROVE  IsNotice(N!New(o))
<1> DEFINE n == N!New(o)
           O == {n.options}
           X == {n.history}
<1>1. n.options \in O /\ n.history \in X
  OBVIOUS
<1> HIDE DEF O, X
<1>2. n.shown = FALSE /\ n.closed = FALSE /\ n.events = <<>> /\ n.history = <<>>
  BY DEF N!New
<1>3. n \in NoticeType(O, X)
  <2>1. n = [options |-> n.options, shown |-> FALSE, closed |-> FALSE, events |-> <<>>,
             history |-> n.history, ret |-> "ok"]
    BY DEF N!New
  <2>2. <<>> \in Seq(NoticeNames \X Int)
    OBVIOUS
  <2>3. [options |-> n.options, shown |-> FALSE, closed |-> FALSE, events |-> <<>>,
             history |-> n.history, ret |-> "ok"] \in NoticeType(O, X)
    <3> HIDE DEF n
    <3>1. QED
      BY <1>1, <2>2 DEF NoticeType, NoticeResults
  <2> HIDE DEF n
  <2>4. QED
    BY <2>1, <2>3, Zenon
<1>4. Len(n.events) = 0
  BY <1>2
<1> HIDE DEF n
<1>5. IsNotice(n)
  BY <1>2, <1>3, <1>4 DEF IsNotice
<1>6. QED
  BY <1>5 DEF n

\* What may be written after what.
LEMMA NoticeJournal ==
  ASSUME NEW n, IsNotice(n), NEW event \in NoticeNames, NEW index \in Int,
         NEW shown \in BOOLEAN, NEW closed \in BOOLEAN,
         NoticeAllows(n.options, <<event, index>>), n.options.unsigned => ~shown,
         event \in {"click", "action", "reply"} => n.shown /\ ~n.closed,
         n.closed => event = "failed",
         n.shown => shown, shown => n.shown \/ event = "show",
         n.closed => closed, event = "close" => closed
  PROVE  IsNotice(N!JournalAction([n EXCEPT !.shown = shown, !.closed = closed], event, index))
<1> DEFINE t == N!JournalAction([n EXCEPT !.shown = shown, !.closed = closed], event, index)
           entry == <<event, index>>
           e == n.events
           m == Len(n.events)
<1>1. PICK O, X : n \in NoticeType(O, X)
  BY DEF IsNotice
<1>2. e \in Seq(NoticeNames \X Int) /\ m \in Nat
  BY <1>1 DEF NoticeType
<1>e. entry \in NoticeNames \X Int /\ entry[1] = event /\ NoticeAllows(n.options, entry)
  OBVIOUS
<1> HIDE DEF entry
<1>3. /\ t \in NoticeType(O, X) /\ t.options = n.options
      /\ t.shown = shown /\ t.closed = closed /\ t.history = n.history /\ t.events = Append(e, entry)
  <2>1. Append(e, entry) \in Seq(NoticeNames \X Int)
    BY <1>2, <1>e
  <2> DEFINE es == Append(e, entry)
  <2> HIDE DEF es
  <2>2. t = [n EXCEPT !.shown = shown, !.closed = closed, !.events = es, !.ret = "ok"]
    BY <1>1 DEF N!JournalAction, NoticeType, es, entry
  <2>3. [n EXCEPT !.shown = shown, !.closed = closed, !.events = es, !.ret = "ok"] \in NoticeType(O, X)
    BY <1>1, <2>1 DEF NoticeType, NoticeResults, es
  <2> HIDE DEF t
  <2>4. /\ t.options = n.options
        /\ t.shown = shown /\ t.closed = closed /\ t.history = n.history /\ t.events = es
    BY <1>1, <2>2 DEF NoticeType
  <2>5. QED
    BY <2>2, <2>3, <2>4 DEF es
<1>4. /\ Len(t.events) = m + 1 /\ t.events[m+1][1] = event /\ t.events[m+1] = entry
      /\ \A i \in 1..m : t.events[i] = e[i]
  BY <1>2, <1>3, <1>e
<1> HIDE DEF t
<1>5. t.shown => \E i \in 1..m+1 : t.events[i][1] = "show"
  <2>1. CASE event = "show"
    <3>1. m + 1 \in 1..m+1
      BY <1>2
    <3>2. QED
      BY <2>1, <3>1, <1>4
  <2>2. CASE event # "show"
    <3>1. SUFFICES ASSUME t.shown PROVE \E i \in 1..m+1 : t.events[i][1] = "show"
      OBVIOUS
    <3>2. n.shown
      BY <2>2, <3>1, <1>3
    <3>3. PICK i \in 1..m : e[i][1] = "show"
      BY <3>2 DEF IsNotice
    <3>4. i \in 1..m+1 /\ t.events[i][1] = "show"
      BY <1>2, <1>4, <3>3
    <3>5. QED
      BY <3>4
  <2>3. QED
    BY <2>1, <2>2
<1>6. t.history # <<>> => t.shown
  <2>1. n.history # <<>> => n.shown
    BY DEF IsNotice
  <2>2. QED
    BY <2>1, <1>3, Zenon
<1>7. \A i \in 1..m+1 : t.events[i][1] = "close" => t.closed
  BY <1>2, <1>3, <1>4 DEF IsNotice
<1>8. ASSUME NEW i \in 1..m+1, t.events[i][1] \in {"click", "action", "reply"}
      PROVE  /\ \E j \in 1..i-1 : t.events[j][1] = "show"
             /\ \A j \in 1..i-1 : t.events[j][1] # "close"
  <2>1. CASE i = m + 1
    <3>1. n.shown /\ ~n.closed
      BY <1>4, <1>8, <2>1
    <3>2. PICK j \in 1..m : e[j][1] = "show"
      BY <3>1 DEF IsNotice
    <3>3. \A k \in 1..m : e[k][1] # "close"
      BY <3>1 DEF IsNotice
    <3>4. 1..i-1 = 1..m
      BY <1>2, <2>1
    <3>5. t.events[j][1] = "show" /\ \A k \in 1..m : t.events[k][1] # "close"
      BY <1>4, <3>2, <3>3
    <3>6. QED
      BY <3>4, <3>5
  <2>2. CASE i \in 1..m
    <3>1. /\ \E j \in 1..i-1 : e[j][1] = "show"
          /\ \A j \in 1..i-1 : e[j][1] # "close"
      BY <1>4, <1>8, <2>2 DEF IsNotice
    <3>2. \A j \in 1..i-1 : j \in 1..m
      BY <1>2, <2>2
    <3>3. QED
      BY <1>4, <3>1, <3>2
  <2>3. QED
    BY <1>2, <2>1, <2>2
<1>9. ASSUME NEW i \in 1..m+1, NEW j \in 1..m+1, i < j, t.events[i][1] = "close"
      PROVE  t.events[j][1] = "failed"
  <2>1. i \in 1..m /\ e[i][1] = "close"
    BY <1>2, <1>4, <1>9
  <2>2. CASE j = m + 1
    <3>1. n.closed
      BY <2>1 DEF IsNotice
    <3>2. QED
      BY <1>4, <2>2, <3>1
  <2>3. CASE j \in 1..m
    BY <1>4, <1>9, <2>1, <2>3 DEF IsNotice
  <2>4. QED
    BY <1>2, <2>2, <2>3
<1>a. \A i \in 1..m+1 : NoticeAllows(t.options, t.events[i])
  <2>1. \A i \in 1..m : NoticeAllows(n.options, e[i])
    BY DEF IsNotice
  <2>2. \A i \in 1..m+1 : i \in 1..m \/ i = m + 1
    BY <1>2
  <2>3. QED
    BY <2>1, <2>2, <1>3, <1>4, <1>e
<1>u. t.options.unsigned => ~t.shown
  BY <1>3
<1>10. IsNotice(t)
  BY <1>3, <1>4, <1>5, <1>6, <1>7, <1>8, <1>9, <1>a, <1>u DEF IsNotice
<1>11. QED
  BY <1>10 DEF t

\* A call that changes neither the journal nor the screen.
LEMMA NoticeQuiet ==
  ASSUME NEW n, IsNotice(n), NEW history, NEW r \in NoticeResults, history # <<>> => n.shown
  PROVE  IsNotice([n EXCEPT !.history = history, !.ret = r])
<1> DEFINE t == [n EXCEPT !.history = history, !.ret = r]
<1>1. PICK O, X : n \in NoticeType(O, X)
  BY DEF IsNotice
<1>2. /\ t \in NoticeType(O, {history})
      /\ t.options = n.options
      /\ t.shown = n.shown /\ t.closed = n.closed /\ t.history = history /\ t.events = n.events
  BY <1>1 DEF NoticeType
<1> HIDE DEF t
<1>3. IsNotice(t)
  BY <1>2 DEF IsNotice
<1>4. QED
  BY <1>3 DEF t

LEMMA NoticeStep ==
  ASSUME IsNotice(object), [N!Next]_object
  PROVE  IsNotice(object')
<1>1. PICK O, X : object \in NoticeType(O, X)
  BY DEF IsNotice
<1>2. object = [object EXCEPT !.shown = object.shown, !.closed = object.closed]
  BY <1>1 DEF NoticeType
<1>3. object.shown \in BOOLEAN /\ object.closed \in BOOLEAN
  BY <1>1 DEF NoticeType
<1>4. ASSUME NEW r \in NoticeResults
      PROVE  IsNotice([object EXCEPT !.ret = r])
  <2>1. [object EXCEPT !.history = object.history, !.ret = r] = [object EXCEPT !.ret = r]
    BY <1>1 DEF NoticeType
  <2>2. object.history # <<>> => object.shown
    BY DEF IsNotice
  <2>3. IsNotice([object EXCEPT !.history = object.history, !.ret = r])
    BY <2>2, NoticeQuiet, Zenon
  <2>4. QED
    BY <2>1, <2>3
<1>n. object.options.unsigned => ~object.shown
  BY DEF IsNotice
<1>5. ASSUME NEW event \in {"click", "action", "reply"}, NEW index \in Int, N!Live(object),
             event = "action" => index \in 0..Len(object.options.actions) - 1,
             event = "reply" => object.options.hasReply
      PROVE  IsNotice(N!JournalAction(object, event, index))
  <2>1. event \in NoticeNames /\ event # "show" /\ event # "close"
    BY DEF NoticeNames
  <2>2. object.shown /\ ~object.closed /\ ~object.options.unsigned
    BY <1>5, <1>n DEF N!Live
  <2>3. NoticeAllows(object.options, <<event, index>>)
    BY <1>5, <2>2 DEF NoticeAllows
  <2>4. IsNotice(N!JournalAction([object EXCEPT !.shown = object.shown, !.closed = object.closed],
                                 event, index))
    BY <1>3, <1>n, <2>1, <2>2, <2>3, NoticeJournal
  <2>5. QED
    BY <1>2, <2>4
<1>j. ASSUME NEW event \in {"failed", "show", "close"}, NEW shown \in BOOLEAN, NEW closed \in BOOLEAN,
             NoticeAllows(object.options, <<event, 0>>), object.options.unsigned => ~shown,
             object.closed => event = "failed",
             object.shown => shown, shown => object.shown \/ event = "show",
             object.closed => closed, event = "close" => closed
      PROVE  IsNotice(N!JournalAction([object EXCEPT !.shown = shown, !.closed = closed], event, 0))
  <2>1. event \in NoticeNames /\ event \notin {"click", "action", "reply"} /\ 0 \in Int
    BY DEF NoticeNames
  <2>2. QED
    BY <1>j, <2>1, NoticeJournal
<1>6. IsNotice(N!Show(object))
  <2>1. CASE object.options.unsigned \/ object.closed
    <3>1. NoticeAllows(object.options, <<"failed", 0>>) /\ "failed" \in NoticeNames
      BY DEF NoticeAllows, NoticeNames
    <3>2. IsNotice(N!JournalAction([object EXCEPT !.shown = object.shown, !.closed = object.closed],
                                   "failed", 0))
      BY <1>3, <1>n, <1>j, <3>1, Zenon
    <3>3. QED
      BY <1>2, <2>1, <3>2 DEF N!Show, N!Journal
  <2>2. CASE ~(object.options.unsigned \/ object.closed)
    <3>a. NoticeAllows(object.options, <<"show", 0>>) /\ "show" \in NoticeNames
      BY <2>2 DEF NoticeAllows, NoticeNames
    <3>1. IsNotice(N!JournalAction([object EXCEPT !.shown = TRUE, !.closed = object.closed], "show", 0))
      BY <1>3, <1>j, <2>2, <3>a, Zenon
    <3>2. [object EXCEPT !.shown = TRUE, !.closed = object.closed] = [object EXCEPT !.shown = TRUE]
      BY <1>1 DEF NoticeType
    <3>3. QED
      BY <2>2, <3>1, <3>2 DEF N!Show, N!Journal
  <2>3. QED
    BY <2>1, <2>2
<1>7. IsNotice(N!Close(object))
  <2>1. CASE object.closed
    BY <2>1 DEF N!Close
  <2>2. CASE ~object.closed
    <3>a. NoticeAllows(object.options, <<"close", 0>>) /\ "close" \in NoticeNames
      BY DEF NoticeAllows, NoticeNames
    <3>1. IsNotice(N!JournalAction([object EXCEPT !.shown = object.shown, !.closed = TRUE], "close", 0))
      BY <1>3, <1>n, <1>j, <2>2, <3>a, Zenon
    <3>2. [object EXCEPT !.shown = object.shown, !.closed = TRUE] = [object EXCEPT !.closed = TRUE]
      BY <1>1 DEF NoticeType
    <3>3. QED
      BY <2>2, <3>1, <3>2 DEF N!Close, N!Journal
  <2>3. QED
    BY <2>1, <2>2
<1>8. IsNotice(N!Click(object)) /\ IsNotice(N!Reply(object))
      /\ \A i \in -1..1 : IsNotice(N!ActivateAction(object, i))
  <2>1. {"ErrNotificationClosed", "ErrInvalidAction"} \subseteq NoticeResults
    BY DEF NoticeResults
  <2>2. IsNotice(N!Click(object))
    BY <1>5 DEF N!Click, N!Journal
  <2>3. IsNotice(N!Reply(object))
    BY <1>4, <1>5, <2>1 DEF N!Reply, N!Journal
  <2>4. ASSUME NEW i \in -1..1
        PROVE  IsNotice(N!ActivateAction(object, i))
    BY <1>4, <1>5, <2>1 DEF N!ActivateAction
  <2>5. QED
    BY <2>2, <2>3, <2>4
<1>9. IsNotice(N!Record(object))
  <2>1. CASE ~object.shown \/ object.options.id = ""
    BY <2>1 DEF N!Record
  <2>2. CASE ~(~object.shown \/ object.options.id = "")
    <3> DEFINE h == Append(object.history, object.options.id)
    <3>1. N!Record(object) = [object EXCEPT !.history = h]
      BY <2>2 DEF N!Record
    <3>2. [object EXCEPT !.history = h] = [object EXCEPT !.history = h, !.ret = object.ret]
      BY <1>1 DEF NoticeType
    <3>3. object.ret \in NoticeResults
      BY <1>1 DEF NoticeType
    <3> HIDE DEF h
    <3>4. IsNotice([object EXCEPT !.history = h, !.ret = object.ret])
      BY <2>2, <3>3, NoticeQuiet, Zenon
    <3>5. QED
      BY <3>1, <3>2, <3>4
  <2>3. QED
    BY <2>1, <2>2
<1>10. ASSUME NEW id
       PROVE  IsNotice(N!RemoveByID(object, id))
  <2> DEFINE h == N!RemoveFirst(object.history, id)
             r == IF N!Contains(object.history, id) THEN "TRUE" ELSE "FALSE"
  <2>1. h # <<>> => object.shown
    <3>1. object.history = <<>> => h = <<>>
      <4>1. object.history = <<>> => Len(object.history) = 0
        OBVIOUS
      <4>2. QED
        BY <4>1 DEF N!RemoveFirst
    <3>2. QED
      BY <3>1 DEF IsNotice
  <2>2. r \in NoticeResults
    BY DEF NoticeResults
  <2>3. N!RemoveByID(object, id) = [object EXCEPT !.history = h, !.ret = r]
    BY DEF N!RemoveByID
  <2> HIDE DEF h, r
  <2>4. IsNotice([object EXCEPT !.history = h, !.ret = r])
    BY <2>1, <2>2, NoticeQuiet, Zenon
  <2>5. QED
    BY <2>3, <2>4
<1>11. QED
  BY <1>6, <1>7, <1>8, <1>9, <1>10 DEF N!Next

LEMMA NoticeIsPossible == IsNotice(object) => N!JournalIsPossible
<1> SUFFICES ASSUME IsNotice(object) PROVE N!JournalIsPossible
  OBVIOUS
<1>1. PICK O, X : object \in NoticeType(O, X)
  BY DEF IsNotice
<1>2. DOMAIN object.events = 1..Len(object.events)
  BY <1>1 DEF NoticeType
<1>3. N!UsesAreTimely
  BY <1>2 DEF IsNotice, N!UsesAreTimely, N!Event
<1>4. N!UsesAreOffered
  BY <1>2 DEF IsNotice, NoticeAllows, N!UsesAreOffered, N!Event
<1>5. QED
  BY <1>3, <1>4 DEF N!JournalIsPossible

-----------------------------------------------------------------------------
\* Updates: v is what the last event of this name among the first n was about.
UpdateNames == {"checking-for-update", "update-available", "update-not-available",
                "update-downloaded", "before-quit-for-update", "error"}
Feeds == {"", "squirrel", "nsis", "msix"}
UpdateResults == {"ok", "ErrInvalidFeed", "ErrInvalidProvider", "FALSE", "TRUE", "ErrNotDownloaded"}
Offers == (Versions \cup {""}) \ ({Current} \ {""})

IsLast(e, event, n, v) ==
  \/ v = "" /\ \A i \in 1..n : e[i][1] # event
  \/ \E i \in 1..n : /\ e[i][1] = event /\ e[i][2] = v
                     /\ \A j \in 1..n : j > i => e[j][1] # event

UpdaterType == [feed : Feeds, available : Offers, downloaded : Offers,
                events : Seq(UpdateNames \X Offers), ret : UpdateResults]

IsUpdater(u) ==
  /\ u \in UpdaterType
  /\ IsLast(u.events, "update-available", Len(u.events), u.available)
  /\ IsLast(u.events, "update-downloaded", Len(u.events), u.downloaded)
  /\ \A i \in 1..Len(u.events) :
        u.events[i][1] = "update-downloaded" =>
            IsLast(u.events, "update-available", i, u.events[i][2])
  /\ \A i \in 1..Len(u.events) :
        u.events[i][1] = "before-quit-for-update" =>
            IsLast(u.events, "update-downloaded", i, u.events[i][2])

LEMMA LastIsUnique ==
  ASSUME NEW n \in Nat, NEW event, NEW v, IsLast(object.events, event, n, v)
  PROVE  U!LastOf(event, n) = v
<1> DEFINE at == {i \in 1..n : object.events[i][1] = event}
<1>1. CASE v = "" /\ \A i \in 1..n : object.events[i][1] # event
  <2>1. at = {}
    BY <1>1
  <2>2. QED
    BY <1>1, <2>1 DEF U!LastOf
<1>2. CASE ~(v = "" /\ \A i \in 1..n : object.events[i][1] # event)
  <2>1. PICK i \in 1..n : /\ object.events[i][1] = event /\ object.events[i][2] = v
                          /\ \A j \in 1..n : j > i => object.events[j][1] # event
    BY <1>2 DEF IsLast
  <2> DEFINE k == CHOOSE k \in at : \A j \in at : j <= k
  <2>2. i \in at /\ \A j \in at : j <= i
    BY <2>1
  <2>3. at \subseteq Int
    OBVIOUS
  <2>4. k \in at /\ \A j \in at : j <= k
    <3> HIDE DEF at
    <3>1. QED
      BY <2>2
  <2>5. k = i
    <3> HIDE DEF at, k
    <3>1. k \in Int /\ i \in Int /\ k <= i /\ i <= k
      BY <2>2, <2>3, <2>4
    <3>2. QED
      BY <3>1
  <2>6. U!LastOf(event, n) = object.events[k][2]
    BY <2>2 DEF U!LastOf
  <2>7. QED
    BY <2>1, <2>5, <2>6
<1>3. QED
  BY <1>1, <1>2

\* What was last stays last among what was there, and at the end but for an
\* event of its own name.
LEMMA LastOfMore ==
  ASSUME NEW e, NEW m \in Nat, NEW f, NEW x, \A i \in 1..m : f[i] = e[i], f[m+1] = x
  PROVE  /\ \A n \in 0..m : \A ev, v : IsLast(e, ev, n, v) => IsLast(f, ev, n, v)
         /\ \A ev, v : IsLast(e, ev, m, v) /\ x[1] # ev => IsLast(f, ev, m + 1, v)
         /\ IsLast(f, x[1], m + 1, x[2])
<1>1. ASSUME NEW n \in 0..m, NEW ev, NEW v, IsLast(e, ev, n, v)
      PROVE  IsLast(f, ev, n, v)
  <2>1. \A i \in 1..n : f[i] = e[i]
    OBVIOUS
  <2>2. QED
    BY <1>1, <2>1 DEF IsLast
<1>2. ASSUME NEW ev, NEW v, IsLast(e, ev, m, v), x[1] # ev
      PROVE  IsLast(f, ev, m + 1, v)
  <2>1. \A i \in 1..m+1 : i \in 1..m \/ i = m + 1
    OBVIOUS
  <2>2. CASE v = "" /\ \A i \in 1..m : e[i][1] # ev
    <3>1. \A i \in 1..m+1 : f[i][1] # ev
      BY <1>2, <2>1, <2>2
    <3>2. QED
      BY <2>2, <3>1 DEF IsLast
  <2>3. CASE ~(v = "" /\ \A i \in 1..m : e[i][1] # ev)
    <3>1. PICK i \in 1..m : /\ e[i][1] = ev /\ e[i][2] = v
                            /\ \A j \in 1..m : j > i => e[j][1] # ev
      BY <1>2, <2>3 DEF IsLast
    <3>2. i \in 1..m+1 /\ f[i][1] = ev /\ f[i][2] = v
      BY <3>1
    <3>3. \A j \in 1..m+1 : j > i => f[j][1] # ev
      BY <1>2, <2>1, <3>1
    <3>4. QED
      BY <3>2, <3>3 DEF IsLast
  <2>4. QED
    BY <2>2, <2>3
<1>3. IsLast(f, x[1], m + 1, x[2])
  <2>1. m + 1 \in 1..m+1 /\ \A j \in 1..m+1 : ~(j > m + 1)
    OBVIOUS
  <2>2. QED
    BY <2>1 DEF IsLast
<1>4. QED
  BY <1>1, <1>2, <1>3

LEMMA NewUpdaterIsOne == IsUpdater(U!New)
<1> DEFINE u == U!New
<1>1. <<>> \in Seq(UpdateNames \X Offers) /\ "" \in Offers
  BY DEF Offers
<1>2. u \in UpdaterType
  BY <1>1 DEF U!New, UpdaterType, Feeds, UpdateResults
<1>3. u.available = "" /\ u.downloaded = "" /\ u.events = <<>>
  BY DEF U!New
<1> HIDE DEF u
<1>4. Len(u.events) = 0
  <2>1. u.events = <<>>
    BY <1>3
  <2>2. QED
    BY <2>1
<1>5. \A i : i \notin 1..Len(u.events)
  BY <1>4
<1>6. IsUpdater(u)
  BY <1>2, <1>3, <1>5 DEF IsUpdater, IsLast
<1>7. QED
  BY <1>6 DEF u

LEMMA UpdateJournal ==
  ASSUME NEW u, IsUpdater(u), NEW name \in UpdateNames, NEW v \in Offers,
         NEW available \in Offers, NEW downloaded \in Offers, NEW r \in UpdateResults,
         name = "update-downloaded" => v = u.available,
         name = "before-quit-for-update" => v = u.downloaded,
         available = IF name = "update-available" THEN v ELSE u.available,
         downloaded = IF name = "update-downloaded" THEN v ELSE u.downloaded
  PROVE  IsUpdater([u EXCEPT !.events = Append(u.events, <<name, v>>), !.available = available,
                             !.downloaded = downloaded, !.ret = r])
<1> DEFINE f == Append(u.events, <<name, v>>)
           m == Len(u.events)
           t == [u EXCEPT !.events = f, !.available = available, !.downloaded = downloaded, !.ret = r]
<1>1. u.events \in Seq(UpdateNames \X Offers) /\ <<name, v>> \in UpdateNames \X Offers
  BY DEF IsUpdater, UpdaterType
<1>2. /\ f \in Seq(UpdateNames \X Offers) /\ m \in Nat /\ Len(f) = m + 1
      /\ \A i \in 1..m : f[i] = u.events[i]
      /\ f[m+1] = <<name, v>>
  BY <1>1
<1> HIDE DEF f
<1>3. /\ t \in UpdaterType
      /\ t.events = f /\ t.available = available /\ t.downloaded = downloaded
  BY <1>2 DEF IsUpdater, UpdaterType
<1> HIDE DEF t
<1>4. /\ \A n \in 0..m : \A ev, w : IsLast(u.events, ev, n, w) => IsLast(f, ev, n, w)
      /\ \A ev, w : IsLast(u.events, ev, m, w) /\ name # ev => IsLast(f, ev, m + 1, w)
      /\ IsLast(f, name, m + 1, v)
  <2>1. /\ \A n \in 0..m : \A ev, w : IsLast(u.events, ev, n, w) => IsLast(f, ev, n, w)
        /\ \A ev, w : IsLast(u.events, ev, m, w) /\ <<name, v>>[1] # ev => IsLast(f, ev, m + 1, w)
        /\ IsLast(f, <<name, v>>[1], m + 1, <<name, v>>[2])
    <3> HIDE DEF m
    <3>1. QED
      BY <1>2, LastOfMore
  <2>2. QED
    BY <2>1
<1>5. /\ IsLast(u.events, "update-available", m, u.available)
      /\ IsLast(u.events, "update-downloaded", m, u.downloaded)
  BY DEF IsUpdater
<1>6. IsLast(f, "update-available", m + 1, available) /\ IsLast(f, "update-downloaded", m + 1, downloaded)
  BY <1>4, <1>5
<1>7. ASSUME NEW i \in 1..m+1
      PROVE  /\ f[i][1] = "update-downloaded" => IsLast(f, "update-available", i, f[i][2])
             /\ f[i][1] = "before-quit-for-update" => IsLast(f, "update-downloaded", i, f[i][2])
  <2>1. CASE i = m + 1
    <3>1. f[i][1] = name /\ f[i][2] = v
      BY <1>2, <2>1
    <3>2. QED
      BY <1>6, <2>1, <3>1
  <2>2. CASE i \in 1..m
    <3>1. i \in 0..m /\ f[i] = u.events[i]
      BY <1>2, <2>2
    <3>2. QED
      BY <1>4, <2>2, <3>1 DEF IsUpdater
  <2>3. QED
    BY <1>2, <2>1, <2>2
<1>8. IsUpdater(t)
  BY <1>2, <1>3, <1>6, <1>7 DEF IsUpdater
<1>9. QED
  BY <1>8 DEF t, f

LEMMA UpdaterStep ==
  ASSUME IsUpdater(object), [U!Next]_object
  PROVE  IsUpdater(object')
<1> DEFINE u == object
<1>1. u \in UpdaterType /\ u.available \in Offers /\ u.downloaded \in Offers
  BY DEF IsUpdater, UpdaterType
<1>2. "" \in Offers
  BY DEF Offers
<1>3. ASSUME NEW s, IsUpdater(s), NEW name \in UpdateNames, NEW v \in Offers, NEW r \in UpdateResults,
             name \notin {"update-available", "update-downloaded"},
             name = "before-quit-for-update" => v = s.downloaded
      PROVE  IsUpdater([s EXCEPT !.events = Append(s.events, <<name, v>>), !.ret = r])
  <2>1. s.available \in Offers /\ s.downloaded \in Offers
    BY <1>3 DEF IsUpdater, UpdaterType
  <2>2. IsUpdater([s EXCEPT !.events = Append(s.events, <<name, v>>), !.available = s.available,
                            !.downloaded = s.downloaded, !.ret = r])
    BY <1>3, <2>1, UpdateJournal
  <2>3. [s EXCEPT !.events = Append(s.events, <<name, v>>), !.available = s.available,
                  !.downloaded = s.downloaded, !.ret = r]
          = [s EXCEPT !.events = Append(s.events, <<name, v>>), !.ret = r]
    BY <1>3 DEF IsUpdater, UpdaterType
  <2>4. QED
    BY <2>2, <2>3
<1>4. ASSUME NEW error \in UpdateResults
      PROVE  IsUpdater(U!Fails(u, error))
  <2>1. U!Fails(u, error) = [u EXCEPT !.events = Append(u.events, <<"error", "">>), !.ret = error]
    BY DEF U!Fails, U!Journal
  <2>2. "error" \in UpdateNames
    BY DEF UpdateNames
  <2>3. IsUpdater([u EXCEPT !.events = Append(u.events, <<"error", "">>), !.ret = error])
    BY <1>2, <1>3, <2>2
  <2>4. QED
    BY <2>1, <2>3
<1>5. ASSUME NEW feed \in Feeds, NEW r \in UpdateResults
      PROVE  IsUpdater([u EXCEPT !.feed = feed, !.ret = r])
  <2> DEFINE t == [u EXCEPT !.feed = feed, !.ret = r]
  <2>1. /\ t \in UpdaterType /\ t.events = u.events
        /\ t.available = u.available /\ t.downloaded = u.downloaded
    BY <1>1 DEF UpdaterType
  <2> HIDE DEF t
  <2>2. IsUpdater(t)
    BY <2>1 DEF IsUpdater
  <2>3. QED
    BY <2>2 DEF t
<1>6. ASSUME NEW url \in {"ok", "bad"}, NEW p \in {"", "nsis", "zip"}, NEW headers \in {"ok", "bad"}
      PROVE  IsUpdater(U!SetFeedURL(u, url, p, headers))
  <2>1. \E feed \in Feeds, r \in UpdateResults :
           U!SetFeedURL(u, url, p, headers) = [u EXCEPT !.feed = feed, !.ret = r]
    <3>1. u.feed \in Feeds
      BY <1>1 DEF UpdaterType
    <3>2. CASE url = "bad" \/ (p # "zip" /\ headers = "bad")
      <4>1. U!SetFeedURL(u, url, p, headers) = [u EXCEPT !.feed = u.feed, !.ret = "ErrInvalidFeed"]
        BY <1>1, <3>2 DEF U!SetFeedURL, UpdaterType
      <4>2. QED
        BY <3>1, <4>1 DEF UpdateResults
    <3>3. CASE url # "bad" /\ p = "zip"
      <4>1. U!SetFeedURL(u, url, p, headers) = [u EXCEPT !.feed = u.feed, !.ret = "ErrInvalidProvider"]
        BY <1>1, <3>3 DEF U!SetFeedURL, UpdaterType
      <4>2. QED
        BY <3>1, <4>1 DEF UpdateResults
    <3>4. CASE url # "bad" /\ headers # "bad" /\ p # "zip"
      <4> DEFINE feed == IF p = "" THEN "squirrel" ELSE p
      <4>1. U!SetFeedURL(u, url, p, headers) = [u EXCEPT !.feed = feed, !.ret = "ok"]
        BY <3>4 DEF U!SetFeedURL
      <4>2. feed \in Feeds /\ "ok" \in UpdateResults
        BY <3>4 DEF Feeds, UpdateResults
      <4> HIDE DEF feed
      <4>3. QED
        BY <4>1, <4>2
    <3>5. QED
      BY <3>2, <3>3, <3>4
  <2>2. QED
    BY <1>5, <2>1
<1>7. ASSUME NEW remote \in Versions
      PROVE  IsUpdater(U!CheckForUpdates(u, remote))
  <2>1. CASE u.feed = ""
    <3>1. "ErrInvalidFeed" \in UpdateResults
      BY DEF UpdateResults
    <3>2. QED
      BY <1>4, <2>1, <3>1 DEF U!CheckForUpdates
  <2>2. CASE u.feed # ""
    <3> DEFINE c == U!Journal(u, "checking-for-update", "")
    <3>1. IsUpdater(c)
      <4>1. c = [u EXCEPT !.events = Append(u.events, <<"checking-for-update", "">>), !.ret = u.ret]
        BY <1>1 DEF U!Journal, UpdaterType
      <4>2. "checking-for-update" \in UpdateNames /\ u.ret \in UpdateResults
        BY <1>1 DEF UpdateNames, UpdaterType
      <4> HIDE DEF c
      <4>3. IsUpdater([u EXCEPT !.events = Append(u.events, <<"checking-for-update", "">>), !.ret = u.ret])
        BY <1>2, <1>3, <4>2
      <4>4. QED
        BY <4>1, <4>3
    <3>2. U!CheckForUpdates(u, remote) =
             IF remote \in {"", Current}
             THEN [c EXCEPT !.events = Append(c.events, <<"update-not-available", "">>), !.ret = "FALSE"]
             ELSE [c EXCEPT !.events = Append(c.events, <<"update-available", remote>>),
                            !.available = remote, !.ret = "TRUE"]
      <4> HIDE DEF c
      <4>1. U!CheckForUpdates(u, remote) =
               IF remote \in {"", Current}
               THEN [U!Journal(c, "update-not-available", "") EXCEPT !.ret = "FALSE"]
               ELSE [U!Journal(c, "update-available", remote) EXCEPT !.available = remote, !.ret = "TRUE"]
        BY <2>2 DEF U!CheckForUpdates, c
      <4>2. QED
        BY <4>1 DEF U!Journal
    <3> HIDE DEF c
    <3>3. CASE remote \in {"", Current}
      <4>1. IsUpdater([c EXCEPT !.events = Append(c.events, <<"update-not-available", "">>), !.ret = "FALSE"])
        BY <1>2, <1>3, <3>1 DEF UpdateNames, UpdateResults
      <4>2. QED
        BY <3>2, <3>3, <4>1
    <3>4. CASE remote \notin {"", Current}
      <4>1. remote \in Offers
        BY <3>4 DEF Offers
      <4>2. c \in UpdaterType /\ c.downloaded \in Offers
        BY <3>1 DEF IsUpdater, UpdaterType
      <4>3. "update-available" \in UpdateNames /\ "TRUE" \in UpdateResults
        BY DEF UpdateNames, UpdateResults
      <4>4. IsUpdater([c EXCEPT !.events = Append(c.events, <<"update-available", remote>>),
                                !.available = remote, !.downloaded = c.downloaded, !.ret = "TRUE"])
        BY <3>1, <4>1, <4>2, <4>3, UpdateJournal
      <4>5. [c EXCEPT !.events = Append(c.events, <<"update-available", remote>>),
                      !.available = remote, !.downloaded = c.downloaded, !.ret = "TRUE"]
              = [c EXCEPT !.events = Append(c.events, <<"update-available", remote>>),
                          !.available = remote, !.ret = "TRUE"]
        BY <4>2 DEF UpdaterType
      <4>6. QED
        BY <3>2, <3>4, <4>4, <4>5
    <3>5. QED
      BY <3>3, <3>4
  <2>3. QED
    BY <2>1, <2>2
<1>8. IsUpdater(U!DownloadUpdate(u))
  <2>1. CASE u.available = ""
    BY <1>4, <2>1 DEF U!DownloadUpdate, UpdateResults
  <2>2. CASE u.available # ""
    <3>1. U!DownloadUpdate(u) = [u EXCEPT !.events = Append(u.events, <<"update-downloaded", u.available>>),
              !.available = u.available, !.downloaded = u.available, !.ret = "ok"]
      BY <1>1, <2>2 DEF U!DownloadUpdate, U!Journal, UpdaterType
    <3>2. "update-downloaded" \in UpdateNames /\ "ok" \in UpdateResults
      BY DEF UpdateNames, UpdateResults
    <3>3. IsUpdater([u EXCEPT !.events = Append(u.events, <<"update-downloaded", u.available>>),
              !.available = u.available, !.downloaded = u.available, !.ret = "ok"])
      BY <1>1, <3>2, UpdateJournal
    <3>4. QED
      BY <3>1, <3>3
  <2>3. QED
    BY <2>1, <2>2
<1>9. IsUpdater(U!QuitAndInstall(u))
  <2>1. CASE u.downloaded = ""
    BY <1>4, <2>1 DEF U!QuitAndInstall, UpdateResults
  <2>2. CASE u.downloaded # ""
    <3>1. U!QuitAndInstall(u) = [u EXCEPT !.events = Append(u.events, <<"before-quit-for-update", u.downloaded>>),
                                           !.ret = "ok"]
      BY <2>2 DEF U!QuitAndInstall, U!Journal
    <3>2. "before-quit-for-update" \in UpdateNames /\ "ok" \in UpdateResults
      BY DEF UpdateNames, UpdateResults
    <3>3. IsUpdater([u EXCEPT !.events = Append(u.events, <<"before-quit-for-update", u.downloaded>>),
                              !.ret = "ok"])
      BY <1>1, <1>3, <3>2
    <3>4. QED
      BY <3>1, <3>3
  <2>3. QED
    BY <2>1, <2>2
<1>10. QED
  BY <1>6, <1>7, <1>8, <1>9 DEF U!Next

LEMMA UpdaterInstalls == IsUpdater(object) => U!InstallsTheLastDownloaded
<1> SUFFICES ASSUME IsUpdater(object), NEW i \in DOMAIN object.events
             PROVE  /\ object.events[i][1] = "update-downloaded"
                         => object.events[i][2] = U!LastOf("update-available", i)
                    /\ object.events[i][1] = "before-quit-for-update"
                         => object.events[i][2] = U!LastOf("update-downloaded", i)
                    /\ object.events[i][2] # "" => object.events[i][2] # Current
  BY DEF U!InstallsTheLastDownloaded
<1>1. object.events \in Seq(UpdateNames \X Offers)
  BY DEF IsUpdater, UpdaterType
<1>2. i \in 1..Len(object.events) /\ i \in Nat /\ object.events[i][2] \in Offers
  BY <1>1
<1>3. QED
  BY <1>2, LastIsUnique DEF IsUpdater, Offers

-----------------------------------------------------------------------------
\* Services. What each kind of service is, and what its journal says of it.
ServiceResults ==
  {"ok", "ErrAlreadyRunning", "ErrNotRunning", "ErrInvalidOptions", "ErrInvalidRequest",
   "ErrNetLogActive", "ErrNetLogInactive", "ErrTracingActive", "ErrTracingInactive",
   "ErrInvalidCrashReporter"}
ProcessEvents == {"spawn", "message", "exit"}
LogPaths == {"", "a", "b"}
LogEvents == {"start", "stop"} \X LogPaths
Traced == SUBSET (CrashKeys \cup {"*"})
AddedKeys == CrashKeys \cup {""}
Parameters == SUBSET AddedKeys

ProcessType == [kind : {"process"}, on : BOOLEAN, ret : ServiceResults, events : Seq(ProcessEvents),
                stdio : {"pipe", "ignore", "inherit", "file"}, stdin : Nat]
NetLogType == [kind : {"netlog"}, on : BOOLEAN, ret : ServiceResults, events : Seq(LogEvents),
               path : LogPaths]
TracerType == [kind : {"tracer"}, on : BOOLEAN, ret : ServiceResults, events : Seq(Traced),
               categories : Traced, started : Seq(Traced)]
CrashType == [kind : {"crash"}, ret : ServiceResults, events : Seq(Parameters),
              given : Parameters, added : Parameters]

IsProcess(s) ==
  /\ s \in ProcessType
  /\ \A i \in 1..Len(s.events) : s.events[i] = "spawn" <=> (i = 1 \/ s.events[i-1] = "exit")
  /\ s.on <=> (s.events # <<>> /\ s.events[Len(s.events)] # "exit")

IsNetLog(s) ==
  /\ s \in NetLogType
  /\ \A i \in 1..Len(s.events) : IF i % 2 = 1 THEN s.events[i][1] = "start"
                                 ELSE s.events[i] = <<"stop", s.events[i-1][2]>>
  /\ s.on <=> Len(s.events) % 2 = 1
  /\ s.on => s.events[Len(s.events)][2] = s.path

IsTracer(s) ==
  /\ s \in TracerType
  /\ \A i \in 1..Len(s.events) : s.events[i] = s.started[i]
  /\ Len(s.started) = Len(s.events) + (IF s.on THEN 1 ELSE 0)
  /\ s.on => s.categories = s.started[Len(s.started)]

IsCrashReporter(s) ==
  /\ s \in CrashType
  /\ \A i \in 1..Len(s.events) : s.given \subseteq s.events[i]

IsService(s) == IsProcess(s) \/ IsNetLog(s) \/ IsTracer(s) \/ IsCrashReporter(s)

LEMMA NewServiceIsOne == P!Init => IsService(object)
<1>1. \A i : i \notin 1..Len(<<>>)
  <2>1. Len(<<>>) = 0
    OBVIOUS
  <2>2. QED
    BY <2>1
<1>2. ASSUME NEW o \in P!Forks, object = P!Fork(o)
      PROVE  IsProcess(object)
  <2>1. o.stdio \in {"", "ignore", "file"}
    BY DEF P!Forks
  <2>2. object \in ProcessType
    <3> DEFINE stdio == IF o.stdio = "" THEN "pipe" ELSE o.stdio
    <3>1. stdio \in {"pipe", "ignore", "inherit", "file"}
      BY <2>1
    <3>4. <<>> \in Seq(ProcessEvents)
      OBVIOUS
    <3>2. object = [kind |-> "process", on |-> FALSE, ret |-> "ok", events |-> <<>>,
                    stdio |-> stdio, stdin |-> 0]
      BY <1>2 DEF P!Fork
    <3> HIDE DEF stdio
    <3>3. QED
      BY <3>1, <3>2, <3>4 DEF ProcessType, ServiceResults
  <2>3. object.events = <<>> /\ object.on = FALSE
    BY <1>2 DEF P!Fork
  <2>4. \A i \in 1..Len(object.events) : object.events[i] = "spawn" <=> (i = 1 \/ object.events[i-1] = "exit")
    BY <1>1, <2>3
  <2>5. QED
    BY <2>2, <2>3, <2>4 DEF IsProcess
<1>3. ASSUME object = P!NetLog
      PROVE  IsNetLog(object)
  <2>1. object \in NetLogType
    <3>1. <<>> \in Seq(LogEvents) /\ "" \in LogPaths
      BY DEF LogPaths
    <3>2. QED
      BY <1>3, <3>1 DEF P!NetLog, NetLogType, ServiceResults
  <2>2. object.events = <<>> /\ object.on = FALSE
    BY <1>3 DEF P!NetLog
  <2>3. Len(object.events) % 2 = 0
    <3>1. Len(object.events) = 0
      BY <2>2
    <3>2. QED
      BY <3>1
  <2>4. QED
    BY <1>1, <2>1, <2>2, <2>3 DEF IsNetLog
<1>4. ASSUME object = P!Tracer
      PROVE  IsTracer(object)
  <2>1. object \in TracerType
    BY <1>4 DEF P!Tracer, TracerType, ServiceResults, Traced
  <2>2. object.events = <<>> /\ object.started = <<>> /\ object.on = FALSE
    BY <1>4 DEF P!Tracer
  <2>3. Len(object.started) = Len(object.events) + (IF object.on THEN 1 ELSE 0)
    <3>1. Len(object.events) = 0 /\ Len(object.started) = 0
      BY <2>2
    <3>2. QED
      BY <2>2, <3>1
  <2>4. QED
    BY <1>1, <2>1, <2>2, <2>3 DEF IsTracer
<1>5. ASSUME NEW keys \in Parameters, object = P!StartCrashReporter(keys)
      PROVE  IsCrashReporter(object)
  <2>1. object \in CrashType /\ object.events = <<>>
    <3>1. <<>> \in Seq(Parameters)
      OBVIOUS
    <3>2. {} \in Parameters
      BY DEF Parameters
    <3>3. QED
      BY <1>5, <3>1, <3>2 DEF P!StartCrashReporter, CrashType, ServiceResults
  <2>2. QED
    BY <1>1, <2>1 DEF IsCrashReporter
<1>6. QED
  BY <1>2, <1>3, <1>4, <1>5 DEF P!Init, IsService, Parameters, AddedKeys

\* One more event of a process; the others are journalled likewise below.
LEMMA ProcessJournal ==
  ASSUME NEW p, IsProcess(p), NEW event \in ProcessEvents, NEW on \in BOOLEAN,
         event = "spawn" <=> ~p.on, on <=> event # "exit"
  PROVE  IsProcess(P!Journal([p EXCEPT !.on = on], event))
<1> DEFINE t == P!Journal([p EXCEPT !.on = on], event)
           f == Append(p.events, event)
           m == Len(p.events)
<1>1. p \in ProcessType /\ p.events \in Seq(ProcessEvents)
  BY DEF IsProcess, ProcessType
<1>2. /\ f \in Seq(ProcessEvents) /\ m \in Nat /\ Len(f) = m + 1 /\ f[m+1] = event
      /\ \A i \in 1..m : f[i] = p.events[i]
      /\ m = 0 <=> p.events = <<>>
  BY <1>1
<1> HIDE DEF f
<1>3. t = [p EXCEPT !.on = on, !.events = f, !.ret = "ok"]
  BY <1>1 DEF P!Journal, ProcessType, f
<1>4. /\ [p EXCEPT !.on = on, !.events = f, !.ret = "ok"] \in ProcessType
      /\ [p EXCEPT !.on = on, !.events = f, !.ret = "ok"].events = f
      /\ [p EXCEPT !.on = on, !.events = f, !.ret = "ok"].on = on
  BY <1>1, <1>2 DEF ProcessType, ServiceResults
<1> HIDE DEF t
<1>5. ASSUME NEW i \in 1..m+1
      PROVE  f[i] = "spawn" <=> (i = 1 \/ f[i-1] = "exit")
  <2>1. CASE i \in 1..m
    <3>1. f[i] = p.events[i] /\ (i # 1 => f[i-1] = p.events[i-1])
      BY <1>2, <2>1
    <3>2. QED
      BY <2>1, <3>1 DEF IsProcess
  <2>2. CASE i = m + 1
    <3>1. f[i] = event /\ (i = 1 <=> p.events = <<>>) /\ (i # 1 => f[i-1] = p.events[m])
      BY <1>2, <2>2
    <3>2. QED
      BY <3>1 DEF IsProcess
  <2>3. QED
    BY <1>2, <2>1, <2>2
<1>6. f # <<>> /\ f[Len(f)] = event
  <2>1. Len(f) # 0
    BY <1>2
  <2>2. QED
    BY <1>2, <2>1
<1>7. t \in ProcessType /\ t.events = f /\ t.on = on
  BY <1>3, <1>4
<1>8. IsProcess(t)
  BY <1>2, <1>5, <1>6, <1>7 DEF IsProcess
<1>9. QED
  BY <1>8 DEF t

LEMMA ProcessStep ==
  ASSUME IsProcess(object),
         \/ object' = P!Start(object) \/ object' = P!PostMessage(object)
         \/ object' = P!WriteStdin(object) \/ object' = P!Kill(object)
  PROVE  IsProcess(object')
<1>1. object \in ProcessType /\ object.on \in BOOLEAN
  BY DEF IsProcess, ProcessType
<1>2. ASSUME NEW n \in Nat, NEW r \in ServiceResults
      PROVE  IsProcess([object EXCEPT !.stdin = n, !.ret = r])
  <2> DEFINE t == [object EXCEPT !.stdin = n, !.ret = r]
  <2>1. t \in ProcessType /\ t.on = object.on /\ t.events = object.events
    BY <1>1 DEF ProcessType
  <2> HIDE DEF t
  <2>2. IsProcess(t)
    BY <2>1 DEF IsProcess
  <2>3. QED
    BY <2>2 DEF t
<1>3. ASSUME NEW r \in ServiceResults
      PROVE  IsProcess(P!Refuse(object, r))
  <2>1. [object EXCEPT !.stdin = object.stdin, !.ret = r] = P!Refuse(object, r) /\ object.stdin \in Nat
    BY <1>1 DEF ProcessType, P!Refuse
  <2>2. IsProcess([object EXCEPT !.stdin = object.stdin, !.ret = r])
    BY <1>2, <2>1
  <2>3. QED
    BY <2>1, <2>2
<1>4. {"ErrAlreadyRunning", "ErrNotRunning", "ErrInvalidOptions", "ok"} \subseteq ServiceResults
  BY DEF ServiceResults
<1>5. CASE object' = P!Start(object)
  <2>1. CASE object.on
    BY <1>3, <1>4, <1>5, <2>1 DEF P!Start
  <2>2. CASE ~object.on
    <3>1. IsProcess(P!Journal([object EXCEPT !.on = TRUE], "spawn"))
      BY <2>2, ProcessJournal DEF ProcessEvents
    <3>2. QED
      BY <1>5, <2>2, <3>1 DEF P!Start
  <2>3. QED
    BY <2>1, <2>2
<1>6. CASE object' = P!Kill(object)
  <2>1. CASE ~object.on
    BY <1>3, <1>4, <1>6, <2>1 DEF P!Kill
  <2>2. CASE object.on
    <3>1. IsProcess(P!Journal([object EXCEPT !.on = FALSE], "exit"))
      BY <2>2, ProcessJournal DEF ProcessEvents
    <3>2. QED
      BY <1>6, <2>2, <3>1 DEF P!Kill
  <2>3. QED
    BY <2>1, <2>2
<1>7. CASE object' = P!PostMessage(object)
  <2>1. CASE ~object.on
    BY <1>3, <1>4, <1>7, <2>1 DEF P!PostMessage
  <2>2. CASE object.on
    <3>1. IsProcess(P!Journal([object EXCEPT !.on = TRUE], "message"))
      BY <2>2, ProcessJournal DEF ProcessEvents
    <3>2. object.on = TRUE
      BY <1>1, <2>2
    <3>3. [object EXCEPT !.on = TRUE] = object
      BY <1>1, <3>2 DEF ProcessType
    <3>4. QED
      BY <1>7, <2>2, <3>1, <3>3 DEF P!PostMessage
  <2>3. QED
    BY <2>1, <2>2
<1>8. CASE object' = P!WriteStdin(object)
  <2>1. CASE ~object.on \/ object.stdio # "pipe"
    BY <1>3, <1>4, <1>8, <2>1 DEF P!WriteStdin
  <2>2. CASE ~(~object.on \/ object.stdio # "pipe")
    <3>1. object' = [object EXCEPT !.stdin = object.stdin + 1, !.ret = "ok"]
      BY <1>8, <2>2 DEF P!WriteStdin
    <3>2. object.stdin + 1 \in Nat
      BY <1>1 DEF ProcessType
    <3>3. IsProcess([object EXCEPT !.stdin = object.stdin + 1, !.ret = "ok"])
      BY <1>2, <1>4, <3>2
    <3>4. QED
      BY <3>1, <3>3
  <2>3. QED
    BY <2>1, <2>2
<1>9. QED
  BY <1>5, <1>6, <1>7, <1>8

LEMMA Parity ==
  ASSUME NEW n \in Nat
  PROVE  n % 2 \in {0, 1}
OBVIOUS

LEMMA OddIsNotEven ==
  ASSUME NEW n \in Nat, n % 2 = 1
  PROVE  ~(n % 2 = 0)
OBVIOUS

LEMMA ParityFlips ==
  ASSUME NEW n \in Nat
  PROVE  (n + 1) % 2 = 1 <=> n % 2 = 0
OBVIOUS

LEMMA NetLogStep ==
  ASSUME IsNetLog(object),
         (\E path \in LogPaths : object' = P!StartLogging(object, path)) \/ object' = P!StopLogging(object)
  PROVE  IsNetLog(object')
<1> DEFINE e == object.events
           m == Len(object.events)
<1>1. object \in NetLogType /\ e \in Seq(LogEvents) /\ m \in Nat
  BY DEF IsNetLog, NetLogType
<1>2. ASSUME NEW r \in ServiceResults, object' = P!Refuse(object, r)
      PROVE  IsNetLog(object')
  <2>1. /\ object' \in NetLogType /\ object'.on = object.on /\ object'.events = object.events
        /\ object'.path = object.path
    BY <1>1, <1>2 DEF P!Refuse, NetLogType
  <2>2. QED
    BY <2>1 DEF IsNetLog
<1>3. ASSUME NEW path \in LogPaths, NEW on \in BOOLEAN, NEW event \in LogEvents,
             object' = [object EXCEPT !.on = on, !.path = path, !.events = Append(e, event), !.ret = "ok"],
             IF m % 2 = 0 THEN event[1] = "start" /\ event[2] = path
                          ELSE event = <<"stop", e[m][2]>>,
             on => m % 2 = 0, m % 2 = 0 => on
      PROVE  IsNetLog(object')
  <2> DEFINE f == Append(e, event)
  <2>1. /\ f \in Seq(LogEvents) /\ Len(f) = m + 1 /\ f[m+1] = event
        /\ \A i \in 1..m : f[i] = e[i]
    BY <1>1
  <2> HIDE DEF f
  <2>2. object' \in NetLogType /\ object'.on = on /\ object'.path = path /\ object'.events = f
    BY <1>1, <1>3, <2>1 DEF NetLogType, ServiceResults, f
  <2>3. ASSUME NEW i \in 1..m+1
        PROVE  IF i % 2 = 1 THEN f[i][1] = "start" ELSE f[i] = <<"stop", f[i-1][2]>>
    <3>1. CASE i \in 1..m
      <4>1. f[i] = e[i] /\ (i % 2 # 1 => f[i-1] = e[i-1])
        BY <1>1, <2>1, <3>1
      <4>2. QED
        BY <3>1, <4>1 DEF IsNetLog
    <3>2. CASE i = m + 1
      <4>1. f[i] = event /\ (i % 2 = 1 <=> m % 2 = 0)
        BY <1>1, <2>1, <3>2, ParityFlips
      <4>2. i % 2 # 1 => f[i-1] = e[m]
        <5>1. i - 1 = m
          BY <1>1, <3>2
        <5>2. i % 2 # 1 => m # 0
          <6>1. ASSUME m = 0 PROVE i % 2 = 1
            <7>1. i = 1
              BY <3>2, <6>1
            <7>2. QED
              BY <7>1
          <6>2. QED
            BY <6>1
        <5>3. m # 0 => m \in 1..m
          BY <1>1
        <5>4. QED
          BY <2>1, <5>1, <5>2, <5>3
      <4>3. QED
        BY <1>3, <4>1, <4>2
    <3>3. QED
      BY <1>1, <3>1, <3>2
  <2>4. Len(f) % 2 = 1 <=> m % 2 = 0
    BY <1>1, <2>1, ParityFlips
  <2>5. on => f[Len(f)][2] = path
    BY <1>3, <2>1
  <2>6. QED
    <3>1. object'.on <=> Len(object'.events) % 2 = 1
      BY <1>3, <2>2, <2>4
    <3>2. object'.on => object'.events[Len(object'.events)][2] = object'.path
      BY <2>2, <2>5
    <3>3. \A i \in 1..Len(object'.events) :
             IF i % 2 = 1 THEN object'.events[i][1] = "start"
             ELSE object'.events[i] = <<"stop", object'.events[i-1][2]>>
      BY <2>1, <2>2, <2>3
    <3>4. QED
      BY <2>2, <3>1, <3>2, <3>3 DEF IsNetLog
<1>4. {"ErrInvalidRequest", "ErrNetLogActive", "ErrNetLogInactive"} \subseteq ServiceResults
  BY DEF ServiceResults
<1>5. object.on <=> m % 2 = 1
  BY DEF IsNetLog
<1>6. ASSUME NEW path \in LogPaths, object' = P!StartLogging(object, path)
      PROVE  IsNetLog(object')
  <2>1. CASE path = "" \/ object.on
    BY <1>2, <1>4, <1>6, <2>1 DEF P!StartLogging
  <2>2. CASE ~(path = "" \/ object.on)
    <3> DEFINE event == <<"start", path>>
    <3>1. object' = [object EXCEPT !.on = TRUE, !.path = path, !.events = Append(e, event), !.ret = "ok"]
      BY <1>1, <1>6, <2>2 DEF P!StartLogging, P!Journal, NetLogType
    <3>2. event \in LogEvents /\ event[1] = "start" /\ event[2] = path
      BY DEF LogEvents
    <3>3. m % 2 = 0
      <4>1. ~(m % 2 = 1)
        BY <1>5, <2>2
      <4>2. m % 2 \in {0, 1}
        BY <1>1, Parity
      <4>3. QED
        BY <4>1, <4>2
    <3>4. IF m % 2 = 0 THEN event[1] = "start" /\ event[2] = path ELSE event = <<"stop", e[m][2]>>
      BY <3>2, <3>3
    <3> HIDE DEF event
    <3>5. QED
      BY <1>3, <3>1, <3>2, <3>3, <3>4
  <2>3. QED
    BY <2>1, <2>2
<1>7. ASSUME object' = P!StopLogging(object)
      PROVE  IsNetLog(object')
  <2>1. CASE ~object.on
    BY <1>2, <1>4, <1>7, <2>1 DEF P!StopLogging
  <2>2. CASE object.on
    <3> DEFINE event == <<"stop", object.path>>
    <3>1. object' = [object EXCEPT !.on = FALSE, !.path = object.path, !.events = Append(e, event), !.ret = "ok"]
      BY <1>1, <1>7, <2>2 DEF P!StopLogging, P!Journal, NetLogType
    <3>2. event \in LogEvents /\ object.path \in LogPaths
      BY <1>1 DEF LogEvents, NetLogType
    <3>3. m % 2 = 1 /\ event = <<"stop", e[m][2]>>
      BY <1>5, <2>2 DEF IsNetLog
    <3> HIDE DEF event
    <3>4. ~(m % 2 = 0)
      <4>1. m % 2 = 1
        BY <1>5, <2>2
      <4>2. m \in Nat
        BY <1>1
      <4> HIDE DEF m
      <4>3. QED
        BY <4>1, <4>2, OddIsNotEven, Zenon
    <3>5. IF m % 2 = 0 THEN event[1] = "start" /\ event[2] = object.path
                       ELSE event = <<"stop", e[m][2]>>
      BY <3>3, <3>4
    <3>6. FALSE \in BOOLEAN /\ (FALSE => m % 2 = 0) /\ (m % 2 = 0 => FALSE)
      BY <3>4
    <3> HIDE DEF m, e
    <3>7. QED
      BY <1>3, <3>1, <3>2, <3>5, <3>6, Zenon
  <2>3. QED
    BY <2>1, <2>2
<1>8. QED
  BY <1>6, <1>7

LEMMA TracerStep ==
  ASSUME IsTracer(object),
         (\E c \in SUBSET CrashKeys : object' = P!StartTracing(object, c)) \/ object' = P!StopTracing(object)
  PROVE  IsTracer(object')
<1> DEFINE e == object.events
           b == object.started
<1>1. /\ object \in TracerType /\ e \in Seq(Traced) /\ b \in Seq(Traced) /\ Len(e) \in Nat
      /\ Len(b) \in Nat
  BY DEF IsTracer, TracerType
<1>2. ASSUME NEW r \in ServiceResults, object' = P!Refuse(object, r)
      PROVE  IsTracer(object')
  <2>1. /\ object' \in TracerType /\ object'.on = object.on /\ object'.events = object.events
        /\ object'.started = object.started /\ object'.categories = object.categories
    BY <1>1, <1>2 DEF P!Refuse, TracerType
  <2>2. QED
    BY <2>1 DEF IsTracer
<1>3. {"ErrTracingActive", "ErrTracingInactive", "ok"} \subseteq ServiceResults
  BY DEF ServiceResults
<1>4. ASSUME NEW c \in SUBSET CrashKeys, object' = P!StartTracing(object, c)
      PROVE  IsTracer(object')
  <2>1. CASE object.on
    BY <1>2, <1>3, <1>4, <2>1 DEF P!StartTracing
  <2>2. CASE ~object.on
    <3> DEFINE all == IF c = {} THEN {"*"} ELSE c
               g == Append(b, all)
    <3>1. all \in Traced
      BY DEF Traced
    <3>2. object' = [object EXCEPT !.on = TRUE, !.categories = all, !.started = g, !.ret = "ok"]
      BY <1>4, <2>2 DEF P!StartTracing
    <3> HIDE DEF all
    <3>3. /\ g \in Seq(Traced) /\ Len(g) = Len(b) + 1 /\ g[Len(g)] = all
          /\ \A i \in 1..Len(b) : g[i] = b[i]
      BY <1>1, <3>1
    <3> HIDE DEF g
    <3>4. /\ object' \in TracerType /\ object'.on = TRUE /\ object'.events = e
          /\ object'.started = g /\ object'.categories = all
      BY <1>1, <1>3, <3>1, <3>2, <3>3 DEF TracerType
    <3>5. Len(b) = Len(e)
      BY <1>1, <2>2 DEF IsTracer
    <3>6. \A i \in 1..Len(e) : e[i] = g[i]
      BY <3>3, <3>5 DEF IsTracer
    <3>7. QED
      BY <1>1, <3>3, <3>4, <3>5, <3>6 DEF IsTracer
  <2>3. QED
    BY <2>1, <2>2
<1>5. ASSUME object' = P!StopTracing(object)
      PROVE  IsTracer(object')
  <2>1. CASE ~object.on
    BY <1>2, <1>3, <1>5, <2>1 DEF P!StopTracing
  <2>2. CASE object.on
    <3> DEFINE f == Append(e, object.categories)
    <3>1. object.categories \in Traced
      BY <1>1 DEF TracerType
    <3>2. /\ f \in Seq(Traced) /\ Len(f) = Len(e) + 1 /\ f[Len(f)] = object.categories
          /\ \A i \in 1..Len(e) : f[i] = e[i]
      BY <1>1, <3>1
    <3>3. object' = [object EXCEPT !.on = FALSE, !.events = f, !.ret = "ok"]
      BY <1>1, <1>5, <2>2 DEF P!StopTracing, P!Journal, TracerType
    <3> HIDE DEF f
    <3>4. object' \in TracerType /\ object'.on = FALSE /\ object'.events = f /\ object'.started = b
      BY <1>1, <1>3, <3>2, <3>3 DEF TracerType
    <3>5. Len(b) = Len(f) /\ object.categories = b[Len(b)]
      BY <1>1, <2>2, <3>2 DEF IsTracer
    <3>6. \A i \in 1..Len(f) : f[i] = b[i]
      <4>1. \A i \in 1..Len(f) : i \in 1..Len(e) \/ i = Len(f)
        BY <1>1, <3>2
      <4>2. QED
        BY <3>2, <3>5, <4>1 DEF IsTracer
    <3>7. QED
      BY <1>1, <3>4, <3>5, <3>6 DEF IsTracer
  <2>3. QED
    BY <2>1, <2>2
<1>6. QED
  BY <1>4, <1>5

CallsReporter ==
  \/ \E k \in AddedKeys : object' = P!AddExtraParameter(object, k)
  \/ \E k \in CrashKeys : object' = P!RemoveExtraParameter(object, k)
  \/ \E reason \in {"", "r"} : object' = P!Capture(object, reason)

LEMMA CrashStep ==
  ASSUME IsCrashReporter(object), CallsReporter
  PROVE  IsCrashReporter(object') /\ P!ReportsStay
<1> DEFINE e == object.events
<1>1. /\ object \in CrashType /\ e \in Seq(Parameters) /\ Len(e) \in Nat
      /\ object.given \in Parameters /\ object.added \in Parameters
  <2>1. object \in CrashType
    BY DEF IsCrashReporter
  <2>2. e \in Seq(Parameters) /\ object.given \in Parameters /\ object.added \in Parameters
    BY <2>1 DEF CrashType
  <2>3. Len(e) \in Nat
    BY <2>2
  <2>4. QED
    BY <2>1, <2>2, <2>3
<1>2. \A i \in DOMAIN e : object.given \subseteq e[i]
  <2>1. DOMAIN e = 1..Len(e)
    BY <1>1
  <2>2. QED
    BY <2>1 DEF IsCrashReporter
<1>3. ASSUME NEW added \in Parameters, NEW r \in ServiceResults,
             object' = [object EXCEPT !.added = added, !.ret = r]
      PROVE  IsCrashReporter(object') /\ P!ReportsStay
  <2>1. object' \in CrashType /\ object'.events = e /\ object'.given = object.given
    BY <1>1, <1>3 DEF CrashType
  <2>2. SubSeq(e, 1, Len(e)) = e
    BY <1>1
  <2>3. QED
    BY <1>2, <2>1, <2>2 DEF IsCrashReporter, P!ReportsStay
<1>4. {"ok", "ErrInvalidCrashReporter"} \subseteq ServiceResults
  BY DEF ServiceResults
<1>5. ASSUME NEW r \in ServiceResults, object' = P!Refuse(object, r)
      PROVE  IsCrashReporter(object') /\ P!ReportsStay
  <2>1. object' = [object EXCEPT !.added = object.added, !.ret = r]
    BY <1>1, <1>5 DEF P!Refuse, CrashType
  <2>2. QED
    BY <1>1, <1>3, <2>1
<1>6. ASSUME NEW k \in AddedKeys, object' = P!AddExtraParameter(object, k)
      PROVE  IsCrashReporter(object') /\ P!ReportsStay
  <2>1. CASE k = ""
    BY <1>4, <1>5, <1>6, <2>1 DEF P!AddExtraParameter
  <2>2. CASE k # ""
    <3> DEFINE added == object.added \cup {k}
    <3>1. added \in Parameters
      BY <1>1 DEF Parameters
    <3>2. object' = [object EXCEPT !.added = added, !.ret = "ok"]
      BY <1>6, <2>2 DEF P!AddExtraParameter
    <3> HIDE DEF added
    <3>3. QED
      BY <1>3, <1>4, <3>1, <3>2
  <2>3. QED
    BY <2>1, <2>2
<1>7. ASSUME NEW k \in CrashKeys, object' = P!RemoveExtraParameter(object, k)
      PROVE  IsCrashReporter(object') /\ P!ReportsStay
  <2> DEFINE added == object.added \ {k}
  <2>1. added \in Parameters /\ object.ret \in ServiceResults
    BY <1>1 DEF CrashType, Parameters
  <2>2. object' = [object EXCEPT !.added = added, !.ret = object.ret]
    BY <1>1, <1>7 DEF P!RemoveExtraParameter, CrashType
  <2> HIDE DEF added
  <2>3. QED
    BY <1>3, <2>1, <2>2
<1>8. ASSUME NEW reason, object' = P!Capture(object, reason)
      PROVE  IsCrashReporter(object') /\ P!ReportsStay
  <2>1. CASE reason = ""
    BY <1>4, <1>5, <1>8, <2>1 DEF P!Capture
  <2>2. CASE reason # ""
    <3> DEFINE x == P!Parameters(object)
               f == Append(e, x)
    <3>1. x \in Parameters /\ object.given \subseteq x
      BY <1>1 DEF P!Parameters, Parameters
    <3> HIDE DEF x
    <3>2. /\ f \in Seq(Parameters) /\ Len(f) = Len(e) + 1 /\ f[Len(f)] = x
          /\ \A i \in 1..Len(e) : f[i] = e[i]
      BY <1>1, <3>1
    <3>3. object' = [object EXCEPT !.events = f, !.ret = "ok"]
      BY <1>8, <2>2 DEF P!Capture, P!Journal, x
    <3>4. SubSeq(f, 1, Len(e)) = e
      BY <1>1, <3>1
    <3> HIDE DEF f
    <3>5. object' \in CrashType /\ object'.events = f /\ object'.given = object.given
      BY <1>1, <1>4, <3>2, <3>3 DEF CrashType
    <3>6. \A i \in 1..Len(f) : object.given \subseteq f[i]
      <4>1. \A i \in 1..Len(f) : i \in 1..Len(e) \/ i = Len(f)
        BY <1>1, <3>2
      <4>2. QED
        BY <3>1, <3>2, <4>1 DEF IsCrashReporter
    <3>7. QED
      BY <1>2, <3>4, <3>5, <3>6 DEF IsCrashReporter, P!ReportsStay
  <2>3. QED
    BY <2>1, <2>2
<1>9. QED
  BY <1>6, <1>7, <1>8 DEF CallsReporter

LEMMA ServiceStep ==
  ASSUME IsService(object), [P!Next]_object
  PROVE  IsService(object') /\ [P!ReportsStay]_object
<1>1. CASE UNCHANGED object
  BY <1>1
<1>2. CASE P!Next /\ IsProcess(object)
  <2>1. object.kind = "process"
    BY <1>2 DEF IsProcess, ProcessType
  <2>2. P!ReportsStay
    BY <2>1 DEF P!ReportsStay
  <2>3. QED
    BY <1>2, <2>1, <2>2, ProcessStep DEF P!Next, P!Is, IsService
<1>3. CASE P!Next /\ IsNetLog(object)
  <2>1. object.kind = "netlog"
    BY <1>3 DEF IsNetLog, NetLogType
  <2>2. P!ReportsStay
    BY <2>1 DEF P!ReportsStay
  <2>3. QED
    BY <1>3, <2>1, <2>2, NetLogStep DEF P!Next, P!Is, IsService, LogPaths
<1>4. CASE P!Next /\ IsTracer(object)
  <2>1. object.kind = "tracer"
    BY <1>4 DEF IsTracer, TracerType
  <2>2. P!ReportsStay
    BY <2>1 DEF P!ReportsStay
  <2>3. QED
    BY <1>4, <2>1, <2>2, TracerStep DEF P!Next, P!Is, IsService
<1>5. CASE P!Next /\ IsCrashReporter(object)
  <2>1. object.kind = "crash"
    BY <1>5 DEF IsCrashReporter, CrashType
  <2>2. QED
    BY <1>5, <2>1, CrashStep DEF P!Next, P!Is, IsService, AddedKeys, CallsReporter
<1>6. QED
  BY <1>1, <1>2, <1>3, <1>4, <1>5 DEF IsService

LEMMA ServiceAlternates == IsService(object) => P!Alternates
<1> DEFINE e == object.events
<1>1. CASE IsProcess(object)
  <2>1. object.kind = "process" /\ e \in Seq(ProcessEvents) /\ object.on \in BOOLEAN
    BY <1>1 DEF IsProcess, ProcessType
  <2>2. DOMAIN e = 1..Len(e)
    BY <2>1
  <2>3. \A i \in DOMAIN e : (e[i] = "spawn") = (i = 1 \/ e[i-1] = "exit")
    BY <1>1, <2>2 DEF IsProcess
  <2>4. object.on = (e # <<>> /\ e[Len(e)] # "exit")
    BY <1>1, <2>1 DEF IsProcess
  <2>5. QED
    BY <2>1, <2>3, <2>4 DEF P!Alternates
<1>2. CASE IsNetLog(object)
  <2>1. object.kind = "netlog" /\ e \in Seq(LogEvents)
    BY <1>2 DEF IsNetLog, NetLogType
  <2>2. DOMAIN e = 1..Len(e)
    BY <2>1
  <2>3. QED
    BY <1>2, <2>1, <2>2 DEF IsNetLog, P!Alternates
<1>3. CASE IsTracer(object)
  <2>1. object.kind = "tracer" /\ e \in Seq(Traced)
    BY <1>3 DEF IsTracer, TracerType
  <2>2. DOMAIN e = 1..Len(e)
    BY <2>1
  <2>3. QED
    BY <1>3, <2>1, <2>2 DEF IsTracer, P!Alternates
<1>4. CASE IsCrashReporter(object)
  <2>1. object.kind = "crash"
    BY <1>4 DEF IsCrashReporter, CrashType
  <2>2. QED
    BY <2>1 DEF P!Alternates
<1>5. QED
  BY <1>1, <1>2, <1>3, <1>4 DEF IsService

-----------------------------------------------------------------------------
\* A ciphertext that an app kept is one that its storage made of its text.
IsStored(c) ==
  /\ c.by.available
  /\ c.cipher = [backend |-> c.by.backend, plain |-> c.of,
                 mac |-> <<c.by.key, c.by.backend, c.of>>]

DesktopType(X) ==
  [clipboard : X, shell : X, capturer : X, shown : X, dialog : X, stored : X]

IsDesktop(d) ==
  /\ \E X : d \in DesktopType(X)
  /\ \A c \in d.stored : IsStored(c)

LEMMA NewDesktopIsOne == D!Init => IsDesktop(object)
<1> SUFFICES ASSUME D!Init PROVE IsDesktop(object)
  OBVIOUS
<1> DEFINE X == {D!NewClipboard, D!NewShell, <<>>, FALSE, {}}
<1>1. object = [clipboard |-> D!NewClipboard, shell |-> D!NewShell, capturer |-> <<>>,
                shown |-> <<>>, dialog |-> FALSE, stored |-> {}]
  BY DEF D!Init
<1>2. D!NewClipboard \in X /\ D!NewShell \in X /\ <<>> \in X /\ FALSE \in X /\ {} \in X
  OBVIOUS
<1> HIDE DEF X
<1>3. object \in DesktopType(X) /\ object.stored = {}
  BY <1>1, <1>2 DEF DesktopType
<1>4. QED
  BY <1>3 DEF IsDesktop

LEMMA DesktopStep ==
  ASSUME IsDesktop(object), [D!Next]_object
  PROVE  IsDesktop(object')
<1>1. PICK X : object \in DesktopType(X)
  BY DEF IsDesktop
<1>2. ASSUME NEW v,
             \/ object' = [object EXCEPT !.clipboard = v] \/ object' = [object EXCEPT !.shell = v]
             \/ object' = [object EXCEPT !.capturer = v] \/ object' = [object EXCEPT !.shown = v]
             \/ object' = [object EXCEPT !.dialog = v]
      PROVE  IsDesktop(object')
  <2>1. object' \in DesktopType(X \cup {v}) /\ object'.stored = object.stored
    BY <1>1, <1>2 DEF DesktopType
  <2>2. QED
    BY <2>1 DEF IsDesktop
<1>3. ASSUME NEW s \in D!Storages, NEW t \in Texts, NEW ended \in BOOLEAN,
             object' = [object EXCEPT !.stored =
                 {[by |-> s, of |-> t, cipher |-> c[1]] :
                      c \in {D!EncryptStringAsync(s, t, ended)} \ {<<>>}}]
      PROVE  IsDesktop(object')
  <2> DEFINE k == D!EncryptStringAsync(s, t, ended)
             made == [by |-> s, of |-> t, cipher |-> k[1]]
             all == {[by |-> s, of |-> t, cipher |-> c[1]] : c \in {k} \ {<<>>}}
  <2>1. \A x \in all : x = made /\ k # <<>>
    OBVIOUS
  <2>2. k # <<>> => IsStored(made)
    <3>1. SUFFICES ASSUME k # <<>> PROVE IsStored(made)
      OBVIOUS
    <3>2. s.available /\ k = D!EncryptString(s, t)
      BY <3>1 DEF D!EncryptStringAsync, D!EncryptString
    <3>3. k = <<[backend |-> s.backend, plain |-> t, mac |-> <<s.key, s.backend, t>>]>>
      BY <3>2 DEF D!EncryptString
    <3>4. k[1] = [backend |-> s.backend, plain |-> t, mac |-> <<s.key, s.backend, t>>]
      BY <3>3
    <3> HIDE DEF k
    <3>5. QED
      BY <3>2, <3>4 DEF IsStored
  <2>3. \A x \in all : IsStored(x)
    <3> HIDE DEF made, all
    <3>1. QED
      BY <2>1, <2>2
  <2> HIDE DEF all
  <2>4. object' = [object EXCEPT !.stored = all]
    BY <1>3 DEF all
  <2>5. object' \in DesktopType(X \cup {all}) /\ object'.stored = all
    BY <1>1, <2>4 DEF DesktopType
  <2>6. QED
    BY <2>3, <2>5 DEF IsDesktop
<1>4. CASE UNCHANGED object
  BY <1>4
<1>5. CASE D!UsesClipboard
  <2>1. CASE \E a \in D!Slots, t \in Texts :
                object' = [object EXCEPT !.clipboard = D!Write(object.clipboard, a, t)]
    BY <1>2, <2>1
  <2>2. CASE \E a \in {"", "f"}, t \in Texts :
                object' = [object EXCEPT !.clipboard = D!WriteBuffer(object.clipboard, a, t)]
    BY <1>2, <2>2
  <2>3. QED
    BY <1>5, <2>1, <2>2 DEF D!UsesClipboard
<1>6. CASE D!UsesShell
  <2>1. \E v : object' = [object EXCEPT !.shell = v]
    BY <1>6 DEF D!UsesShell
  <2>2. QED
    BY <1>2, <2>1
<1>7. CASE D!Captures
  <2>1. \E v : \/ object' = [object EXCEPT !.capturer = v]
               \/ object' = [object EXCEPT !.shown = v]
    BY <1>7, Zenon DEF D!Captures
  <2>2. QED
    BY <1>2, <2>1
<1>8. CASE D!ShowsDialog
  <2>1. \E v : object' = [object EXCEPT !.dialog = v]
    BY <1>8, Zenon DEF D!ShowsDialog
  <2>2. QED
    BY <1>2, <2>1
<1>9. CASE D!StoresText
  BY <1>3, <1>9 DEF D!StoresText
<1>10. QED
  BY <1>4, <1>5, <1>6, <1>7, <1>8, <1>9 DEF D!Next

LEMMA DesktopDecrypts == IsDesktop(object) => D!OnlyItsOwnerDecrypts
<1> SUFFICES ASSUME IsDesktop(object), NEW c \in object.stored, NEW s \in D!Storages
             PROVE  LET plain == D!DecryptString(s, c.cipher)
                        owner == s.available /\ s.backend = c.by.backend /\ s.key = c.by.key
                    IN IF owner THEN plain = c.of
                       ELSE plain \in {"ErrUnavailable", "ErrInvalidCiphertext"}
  BY DEF D!OnlyItsOwnerDecrypts
<1>1. c.cipher = [backend |-> c.by.backend, plain |-> c.of,
                  mac |-> <<c.by.key, c.by.backend, c.of>>]
  BY DEF IsDesktop, IsStored
<1>2. /\ c.cipher.backend = c.by.backend /\ c.cipher.plain = c.of
      /\ c.cipher.mac = <<c.by.key, c.by.backend, c.of>>
  BY <1>1
<1>3. s.key # c.by.key => c.cipher.mac # <<s.key, s.backend, c.cipher.plain>>
  BY <1>2
<1>4. QED
  BY <1>2, <1>3 DEF D!DecryptString

-----------------------------------------------------------------------------
(* Windows: what the bounds, the modes and their events say of each other. *)

Modes == [visible : BOOLEAN, minimized : BOOLEAN, maximized : BOOLEAN, fullscreen : BOOLEAN]
Rects == [x : Origins \cup {0}, y : Origins \cup {0}, w : Int, h : Int]
WindowResults == {"ok", "ErrInvalidBounds", "ErrWindowClosed", "TRUE", "FALSE"}
Titles == {""}

WindowType ==
  [bounds : Rects, normal : Rects, modes : Modes, last : Modes, enabled : BOOLEAN,
   title : Titles, closed : BOOLEAN, closedEvents : Nat,
   calls : Seq({"close", "prevented", "closed"}), ret : WindowResults]

Books(w) ==
  /\ ~w.modes.maximized /\ ~w.modes.fullscreen => w.bounds = w.normal
  /\ ~w.closed => w.last = w.modes
  /\ w.bounds.w > 0 /\ w.normal.w > 0
  /\ w.closed => ~w.modes.visible

Counted(w) == w.closed <=> w.closedEvents # 0

IsWindow(w) == w \in WindowType /\ Books(w) /\ Counted(w)

\* A step of a window keeps it one, and is none of a closed one.
WindowMoves(w, t) ==
  /\ IsWindow(t)
  /\ w.closed => /\ t.closed /\ t.bounds = w.bounds
                 /\ t.modes = w.modes /\ t.enabled = w.enabled

\* Options of which only the place, the width and whether to show are given.
SomeOptions(x, width, show, prefs) ==
  [width |-> width, height |-> <<>>, x |-> x, y |-> x, show |-> show, parentID |-> 0,
   modal |-> FALSE, title |-> "", prefs |-> prefs]

LEMMA OptionsGiven ==
  ASSUME NEW x, NEW width, NEW show
  PROVE  [W!NoOptions EXCEPT !.x = x, !.y = x, !.width = width, !.show = show]
             = SomeOptions(x, width, show, W!NoPreferences)
<1> DEFINE nil == <<>>
           no == FALSE
           zero == 0
           empty == ""
           prefs == W!NoPreferences
           o == W!NoOptions
           ox == [o EXCEPT !.x = x]
           oy == [ox EXCEPT !.y = x]
           ow == [oy EXCEPT !.width = width]
           os == [ow EXCEPT !.show = show]
<1>1. o = [width |-> nil, height |-> nil, x |-> nil, y |-> nil, show |-> nil,
             parentID |-> zero, modal |-> no, title |-> empty, prefs |-> prefs]
  BY Zenon DEF W!NoOptions, W!Nil
<1> HIDE DEF nil, prefs, no, zero, empty, o
<1>2. ox = [width |-> nil, height |-> nil, x |-> x, y |-> nil, show |-> nil,
             parentID |-> zero, modal |-> no, title |-> empty, prefs |-> prefs]
  BY <1>1
<1> HIDE DEF ox
<1>3. oy = [width |-> nil, height |-> nil, x |-> x, y |-> x, show |-> nil,
             parentID |-> zero, modal |-> no, title |-> empty, prefs |-> prefs]
  BY <1>2
<1> HIDE DEF oy
<1>4. ow = [width |-> width, height |-> nil, x |-> x, y |-> x, show |-> nil,
             parentID |-> zero, modal |-> no, title |-> empty, prefs |-> prefs]
  BY <1>3
<1> HIDE DEF ow
<1>5. os = [width |-> width, height |-> nil, x |-> x, y |-> x, show |-> show,
             parentID |-> zero, modal |-> no, title |-> empty, prefs |-> prefs]
  BY <1>4
<1>6. QED
  BY <1>5, Zenon DEF os, ow, oy, ox, o, prefs, no, zero, empty, nil, SomeOptions

LEMMA OrGiven ==
  ASSUME NEW value, NEW default
  PROVE  W!Or(<<value>>, default) = value
<1>1. <<value>> # <<>> /\ <<value>>[1] = value
  OBVIOUS
<1>2. QED
  BY <1>1 DEF W!Or, W!Nil

LEMMA OrDefault ==
  ASSUME NEW default
  PROVE  W!Or(<<>>, default) = default
BY DEF W!Or, W!Nil

\* What a window is made of; Shown is what says whether to show it.
Normal(n, Shown) ==
  /\ W!Or(n.x, 0) \in Origins \cup {0} /\ W!Or(n.y, 0) \in Origins \cup {0}
  /\ n.width \in Int /\ n.width > 0 /\ n.height \in Int
  /\ n.show \in Shown /\ n.title = ""

LEMMA OptionsNormalised ==
  ASSUME NEW x, NEW width, NEW Shown, NEW show \in Shown, NEW prefs, NEW some, some = <<show>>,
         W!Or(x, 0) \in Origins \cup {0}, W!Or(width, 800) \in Int, W!Or(width, 800) > 0
  PROVE  Normal(W!NormalizeOptions(SomeOptions(x, width, some, prefs)), Shown)
<1> DEFINE none == <<>>
           o == SomeOptions(x, width, some, prefs)
           wide == W!Or(o.width, 800)
           high == W!Or(o.height, 600)
           shown == W!Or(o.show, TRUE)
           norm == W!NormalPreferences(o.prefs)
           n == W!NormalizeOptions(o)
<1>1. n = [o EXCEPT !.width = wide, !.height = high, !.show = shown, !.prefs = norm]
  BY Zenon DEF W!NormalizeOptions
<1>2. o = [width |-> width, height |-> none, x |-> x, y |-> x, show |-> some, parentID |-> 0,
           modal |-> FALSE, title |-> "", prefs |-> prefs]
  BY Zenon DEF SomeOptions
<1>3. o.width = width /\ o.height = none /\ o.show = some
  <2> HIDE DEF o, none
  <2>1. QED
    BY <1>2
<1>4. wide = W!Or(width, 800)
  BY <1>3
<1>5. high = 600
  <2>1. high = W!Or(none, 600)
    BY <1>3
  <2>2. QED
    BY <2>1, OrDefault
<1>6. shown = show
  <2>1. shown = W!Or(some, TRUE)
    BY <1>3, Zenon
  <2>2. W!Or(<<show>>, TRUE) = show
    BY OrGiven, Zenon
  <2>3. QED
    BY <2>1, <2>2, Zenon
<1> HIDE DEF none, wide, high, norm, shown, n, o
<1>7. n = [width |-> wide, height |-> high, x |-> x, y |-> x, show |-> shown, parentID |-> 0,
           modal |-> FALSE, title |-> "", prefs |-> norm]
  BY <1>1, <1>2
<1>8. /\ n.x = x /\ n.y = x /\ n.title = "" /\ n.show = shown
  BY <1>7
<1>10. n.width = wide /\ n.height = high
  BY <1>7
<1>9. Normal(n, Shown)
  <2>1. W!Or(n.x, 0) \in Origins \cup {0} /\ W!Or(n.y, 0) \in Origins \cup {0}
    BY <1>8
  <2>2. n.width \in Int /\ n.width > 0 /\ n.height \in Int
    <3>1. wide \in Int /\ wide > 0
      BY <1>4
    <3>2. QED
      BY <1>5, <1>10, <3>1
  <2>3. n.show \in Shown /\ n.title = ""
    BY <1>6, <1>8
  <2>4. QED
    BY <2>1, <2>2, <2>3 DEF Normal
<1>11. QED
  BY <1>9 DEF n, o

LEMMA OptionsAccepted ==
  ASSUME NEW x, NEW width, NEW show, NEW prefs,
         ~W!Rejected(SomeOptions(x, width, show, prefs))
  PROVE  ~(W!Or(width, 800) <= 0)
BY DEF W!Rejected, SomeOptions

LEMMA WidthGiven ==
  ASSUME NEW width \in {<<>>} \cup {<<s>> : s \in Sizes}
  PROVE  W!Or(width, 800) \in Int
<1>1. CASE width = <<>>
  BY <1>1 DEF W!Or, W!Nil
<1>2. CASE width # <<>>
  <2>1. PICK s \in Sizes : width = <<s>>
    BY <1>2
  <2>2. W!Or(width, 800) = s
    BY <1>2, <2>1 DEF W!Or, W!Nil
  <2>3. QED
    BY <2>2, SizeAssumption
<1>3. QED
  BY <1>1, <1>2

LEMMA PlaceGiven ==
  ASSUME NEW x \in {<<>>} \cup {<<p>> : p \in Origins}
  PROVE  W!Or(x, 0) \in Origins \cup {0}
<1>1. CASE x = <<>>
  BY <1>1 DEF W!Or, W!Nil
<1>2. CASE x # <<>>
  <2>1. PICK p \in Origins : x = <<p>>
    BY <1>2
  <2>2. QED
    BY <1>2, <2>1 DEF W!Or, W!Nil
<1>3. QED
  BY <1>1, <1>2

LEMMA WindowMade ==
  ASSUME NEW modes \in Modes, ~modes.maximized, NEW bounds \in Rects, bounds.w > 0
  PROVE  IsWindow([bounds |-> bounds, normal |-> bounds, modes |-> modes, last |-> modes,
                   enabled |-> TRUE, title |-> "", closed |-> FALSE, closedEvents |-> 0,
                   calls |-> <<>>, ret |-> "ok"])
<1> DEFINE none == <<>>
           title == ""
           made == [bounds |-> bounds, normal |-> bounds, modes |-> modes, last |-> modes,
                    enabled |-> TRUE, title |-> title, closed |-> FALSE, closedEvents |-> 0,
                    calls |-> none, ret |-> "ok"]
<1>3. none \in Seq({"close", "prevented", "closed"})
  OBVIOUS
<1>1. title \in Titles
  BY Zenon DEF Titles
<1> HIDE DEF none, title
<1>4. made \in WindowType
  BY <1>1, <1>3 DEF WindowType, WindowResults
<1>5. Books(made) /\ Counted(made)
  BY DEF Books, Counted
<1> HIDE DEF made
<1>6. IsWindow(made)
  BY <1>4, <1>5 DEF IsWindow
<1>7. QED
  BY <1>6, Zenon DEF made, none, title

LEMMA NewWindowOf ==
  ASSUME NEW n, Normal(n, BOOLEAN)
  PROVE  IsWindow(W!NewWindow(n))
<1> DEFINE bounds == [x |-> W!Or(n.x, 0), y |-> W!Or(n.y, 0), w |-> n.width, h |-> n.height]
           modes  == [visible |-> n.show, minimized |-> FALSE, maximized |-> FALSE,
                      fullscreen |-> FALSE]
           made   == [bounds |-> bounds, normal |-> bounds, modes |-> modes, last |-> modes,
                      enabled |-> TRUE, title |-> n.title, closed |-> FALSE, closedEvents |-> 0,
                      calls |-> <<>>, ret |-> "ok"]
<1>1. W!NewWindow(n) = made
  BY Zenon DEF W!NewWindow
<1>2. modes \in Modes /\ ~modes.maximized
  BY DEF Modes, Normal
<1>3. bounds \in Rects /\ bounds.w > 0 /\ n.title = ""
  BY DEF Rects, Normal
<1> HIDE DEF bounds, modes
<1>4. IsWindow(made)
  BY <1>2, <1>3, WindowMade, Zenon
<1> HIDE DEF made
<1>5. QED
  BY <1>1, <1>4

LEMMA NewWindowIsOne == W!Init => IsWindow(object)
<1> SUFFICES ASSUME W!Init PROVE IsWindow(object)
  OBVIOUS
<1>1. PICK x \in {<<>>} \cup {<<p>> : p \in Origins}, width \in {<<>>} \cup {<<s>> : s \in Sizes},
           show \in BOOLEAN :
        LET o == [W!NoOptions EXCEPT !.x = x, !.y = x, !.width = width, !.show = <<show>>] IN
        ~W!Rejected(o) /\ object = W!NewWindow(W!NormalizeOptions(o))
  BY Zenon DEF W!Init, W!Nil
<1> DEFINE o == SomeOptions(x, width, <<show>>, W!NoPreferences)
<1>2. o = [W!NoOptions EXCEPT !.x = x, !.y = x, !.width = width, !.show = <<show>>]
  BY OptionsGiven, Zenon
<1>3. ~W!Rejected(o) /\ object = W!NewWindow(W!NormalizeOptions(o))
  BY <1>1, <1>2, Zenon
<1>4. W!Or(width, 800) \in Int /\ W!Or(width, 800) > 0
  <2>1. ~(W!Or(width, 800) <= 0)
    <3> DEFINE some == <<show>>
               prefs == W!NoPreferences
    <3>1. ~W!Rejected(SomeOptions(x, width, some, prefs))
      BY <1>3
    <3> HIDE DEF some, prefs
    <3>2. QED
      BY <3>1, OptionsAccepted
  <2>2. W!Or(width, 800) \in Int
    BY WidthGiven
  <2>3. QED
    BY <2>1, <2>2
<1>5. W!Or(x, 0) \in Origins \cup {0}
  BY PlaceGiven
<1> DEFINE prefs == W!NoPreferences
<1>6. o = SomeOptions(x, width, <<show>>, prefs)
  OBVIOUS
<1> HIDE DEF o, prefs
<1>7. Normal(W!NormalizeOptions(SomeOptions(x, width, <<show>>, prefs)), BOOLEAN)
  <2> DEFINE Shown == BOOLEAN
  <2>1. show \in Shown
    OBVIOUS
  <2> DEFINE some == <<show>>
  <2>2. some = <<show>>
    OBVIOUS
  <2> HIDE DEF Shown, some
  <2>3. Normal(W!NormalizeOptions(SomeOptions(x, width, some, prefs)), Shown)
    BY <1>4, <1>5, <2>1, <2>2, OptionsNormalised
  <2>4. QED
    BY <2>3, Zenon DEF Shown, some
<1>8. Normal(W!NormalizeOptions(o), BOOLEAN)
  BY <1>6, <1>7, Zenon
<1>9. QED
  BY <1>3, <1>8, NewWindowOf

\* What a method does that leaves the bounds and the closing alone.
LEMMA WindowRefuses ==
  ASSUME NEW w, IsWindow(w), NEW e \in WindowResults
  PROVE  WindowMoves(w, W!Refuse(w, e))
<1>1. W!Refuse(w, e) = [w EXCEPT !.ret = e]
  BY DEF W!Refuse
<1>2. [w EXCEPT !.ret = e] \in WindowType
  BY DEF IsWindow, WindowType
<1>3. /\ Books([w EXCEPT !.ret = e]) /\ Counted([w EXCEPT !.ret = e])
      /\ w.closed => WindowMoves(w, [w EXCEPT !.ret = e])
  BY <1>2 DEF IsWindow, WindowType, Books, Counted, WindowMoves
<1>4. QED
  BY <1>1, <1>2, <1>3 DEF WindowMoves, IsWindow

LEMMA ModesMove ==
  ASSUME NEW w, IsWindow(w), ~w.closed, NEW m \in Modes,
         ~m.maximized /\ ~m.fullscreen => w.bounds = w.normal
  PROVE  WindowMoves(w, [w EXCEPT !.modes = m, !.last = m, !.ret = "ok"])
<1> DEFINE t == [w EXCEPT !.modes = m, !.last = m, !.ret = "ok"]
<1>1. t \in WindowType
  BY DEF IsWindow, WindowType, WindowResults
<1>2. /\ t.bounds = w.bounds /\ t.normal = w.normal /\ t.modes = m /\ t.last = m
      /\ t.closedEvents = w.closedEvents
  BY DEF IsWindow, WindowType
<1>3. ~t.closed
  BY DEF IsWindow, WindowType
<1> HIDE DEF t
<1>4. Books(t)
  BY <1>2, <1>3 DEF IsWindow, Books
<1>5. Counted(t)
  BY <1>2, <1>3 DEF IsWindow, Counted
<1>6. QED
  BY <1>1, <1>4, <1>5 DEF IsWindow, WindowMoves, t

LEMMA WindowEnters ==
  ASSUME NEW w, IsWindow(w), NEW mode \in {"visible", "minimized", "maximized", "fullscreen"},
         NEW on \in BOOLEAN, mode \in {"maximized", "fullscreen"} => on
  PROVE  WindowMoves(w, W!Mode(w, mode, on))
<1>1. CASE w.closed
  BY <1>1, WindowRefuses DEF W!Mode, WindowResults
<1>2. CASE ~w.closed /\ w.modes[mode] = on
  <2>1. W!Mode(w, mode, on) = W!Refuse(w, "ok")
    BY <1>2, Zenon DEF W!Mode, W!Refuse
  <2>2. QED
    BY <2>1, WindowRefuses DEF WindowResults
<1>3. CASE ~w.closed /\ ~(w.modes[mode] = on)
  <2> DEFINE m == [w.modes EXCEPT ![mode] = on]
  <2>1. w.modes \in Modes /\ w.last = w.modes
    BY <1>3 DEF IsWindow, WindowType, Books
  <2>2. W!Mode(w, mode, on) = [w EXCEPT !.modes = m, !.last = m, !.ret = "ok"]
    <3>1. W!Mode(w, mode, on) = [w EXCEPT !.modes[mode] = on, !.last[mode] = on, !.ret = "ok"]
      BY <1>3, Zenon DEF W!Mode
    <3>2. QED
      BY <2>1, <3>1, Zenon
  <2>3. m \in Modes
    BY <2>1 DEF Modes
  <2>4. ~m.maximized /\ ~m.fullscreen => w.bounds = w.normal
    <3>1. CASE mode \in {"maximized", "fullscreen"}
      BY <2>1, <3>1 DEF Modes
    <3>2. CASE mode \notin {"maximized", "fullscreen"}
      <4>1. m.maximized = w.modes.maximized /\ m.fullscreen = w.modes.fullscreen
        BY <2>1, <3>2 DEF Modes
      <4>2. QED
        BY <4>1 DEF IsWindow, Books
    <3>3. QED
      BY <3>1, <3>2
  <2> HIDE DEF m
  <2>5. WindowMoves(w, [w EXCEPT !.modes = m, !.last = m, !.ret = "ok"])
    BY <1>3, <2>3, <2>4, ModesMove, Zenon
  <2>6. QED
    BY <2>2, <2>5, Zenon
<1>4. QED
  BY <1>1, <1>2, <1>3

LEMMA WindowLeaves ==
  ASSUME NEW w, IsWindow(w), NEW mode \in {"maximized", "fullscreen"}
  PROVE  WindowMoves(w, W!BackToNormal(w, mode))
<1>1. CASE w.closed
  <2>1. W!BackToNormal(w, mode) = W!Refuse(w, "ErrWindowClosed")
    BY <1>1, Zenon DEF W!BackToNormal, W!Mode
  <2>2. QED
    BY <2>1, WindowRefuses DEF WindowResults
<1>2. CASE ~w.closed /\ ~w.modes[mode]
  <2>0. w.modes[mode] = FALSE
    BY <1>2 DEF IsWindow, WindowType, Modes
  <2>1. W!BackToNormal(w, mode) = W!Refuse(w, "ok")
    BY <1>2, <2>0, Zenon DEF W!BackToNormal, W!Mode, W!Refuse
  <2>2. QED
    BY <2>1, WindowRefuses DEF WindowResults
<1>3. CASE ~w.closed /\ w.modes[mode]
  <2> DEFINE m == [w.modes EXCEPT ![mode] = FALSE]
             back == [w EXCEPT !.bounds = w.normal]
  <2>1. w.modes \in Modes /\ w.last = w.modes /\ w.normal \in Rects
    BY <1>3 DEF IsWindow, WindowType, Books
  <2>2. W!Mode(w, mode, FALSE) = [w EXCEPT !.modes = m, !.last = m, !.ret = "ok"]
    <3>1. ~(w.modes[mode] = FALSE)
      BY <1>3, Zenon
    <3>2. W!Mode(w, mode, FALSE)
            = [w EXCEPT !.modes[mode] = FALSE, !.last[mode] = FALSE, !.ret = "ok"]
      BY <1>3, <3>1, Zenon DEF W!Mode
    <3>3. QED
      BY <2>1, <3>2, Zenon
  <2>3. m \in Modes
    BY <2>1 DEF Modes
  <2> HIDE DEF m
  <2>4. W!BackToNormal(w, mode)
          = [[w EXCEPT !.modes = m, !.last = m, !.ret = "ok"] EXCEPT !.bounds = w.normal]
    BY <1>3, <2>2, Zenon DEF W!BackToNormal
  <2>5. [[w EXCEPT !.modes = m, !.last = m, !.ret = "ok"] EXCEPT !.bounds = w.normal]
          = [back EXCEPT !.modes = m, !.last = m, !.ret = "ok"]
    BY DEF IsWindow, WindowType
  <2>6. back \in WindowType /\ back.bounds = back.normal
    BY <2>1 DEF IsWindow, WindowType
  <2>7. IsWindow(back) /\ ~back.closed
    BY <1>3, <2>6 DEF IsWindow, WindowType, Books, Counted
  <2>8. WindowMoves(back, [back EXCEPT !.modes = m, !.last = m, !.ret = "ok"])
    <3> HIDE DEF back
    <3>1. QED
      BY <2>3, <2>6, <2>7, ModesMove
  <2>9. QED
    BY <1>3, <2>4, <2>5, <2>8, Zenon DEF WindowMoves
<1>4. QED
  BY <1>1, <1>2, <1>3

LEMMA WindowResized ==
  ASSUME NEW w, IsWindow(w), NEW b \in Rects
  PROVE  WindowMoves(w, W!SetBounds(w, b))
<1>1. CASE b.w <= 0 \/ b.h <= 0
  BY <1>1, WindowRefuses DEF W!SetBounds, WindowResults
<1>2. CASE ~(b.w <= 0 \/ b.h <= 0) /\ w.closed
  BY <1>2, WindowRefuses DEF W!SetBounds, WindowResults
<1>3. CASE ~(b.w <= 0 \/ b.h <= 0) /\ ~w.closed
  <2> DEFINE large == w.modes.maximized \/ w.modes.fullscreen
             kept == IF large THEN w.normal ELSE b
             t == [w EXCEPT !.bounds = b, !.ret = "ok", !.normal = kept]
  <2>1. W!SetBounds(w, b) = t
    BY <1>3, Zenon DEF W!SetBounds
  <2>2. b.w > 0
    BY <1>3 DEF Rects
  <2>3. kept \in Rects /\ kept.w > 0 /\ (~large => kept = b)
    BY <2>2 DEF IsWindow, WindowType, Books
  <2> HIDE DEF kept
  <2>4. t \in WindowType
    BY <2>3 DEF IsWindow, WindowType, WindowResults
  <2>5. /\ t.bounds = b /\ t.normal = kept /\ t.modes = w.modes /\ t.last = w.last
        /\ t.closedEvents = w.closedEvents
    BY DEF IsWindow, WindowType
  <2>6. ~t.closed
    BY <1>3 DEF IsWindow, WindowType
  <2> HIDE DEF t
  <2>7. Books(t)
    BY <1>3, <2>2, <2>3, <2>5, <2>6 DEF IsWindow, Books
  <2>8. Counted(t)
    BY <1>3, <2>5, <2>6 DEF IsWindow, Counted
  <2>9. QED
    BY <1>3, <2>1, <2>4, <2>7, <2>8 DEF IsWindow, WindowMoves
<1>4. QED
  BY <1>1, <1>2, <1>3

LEMMA WindowEnabled ==
  ASSUME NEW w, IsWindow(w), NEW on \in BOOLEAN
  PROVE  WindowMoves(w, W!SetEnabled(w, on))
<1>1. CASE w.closed
  BY <1>1, WindowRefuses DEF W!SetEnabled, WindowResults
<1>2. CASE ~w.closed
  <2> DEFINE t == [w EXCEPT !.enabled = on, !.ret = "ok"]
  <2>1. W!SetEnabled(w, on) = t
    BY <1>2, Zenon DEF W!SetEnabled
  <2>2. t \in WindowType
    BY DEF IsWindow, WindowType, WindowResults
  <2>3. /\ t.bounds = w.bounds /\ t.normal = w.normal /\ t.modes = w.modes /\ t.last = w.last
        /\ t.closedEvents = w.closedEvents
    BY DEF IsWindow, WindowType
  <2>4. ~t.closed
    BY <1>2 DEF IsWindow, WindowType
  <2> HIDE DEF t
  <2>5. Books(t)
    BY <1>2, <2>3, <2>4 DEF IsWindow, Books
  <2>6. Counted(t)
    BY <1>2, <2>3, <2>4 DEF IsWindow, Counted
  <2>7. QED
    BY <1>2, <2>1, <2>2, <2>5, <2>6 DEF IsWindow, WindowMoves
<1>3. QED
  BY <1>1, <1>2

LEMMA CallsMove ==
  ASSUME NEW w, IsWindow(w), NEW calls \in Seq({"close", "prevented", "closed"})
  PROVE  WindowMoves(w, [w EXCEPT !.calls = calls])
<1> DEFINE t == [w EXCEPT !.calls = calls]
<1>1. t \in WindowType
  BY DEF IsWindow, WindowType
<1>2. /\ t.bounds = w.bounds /\ t.normal = w.normal /\ t.modes = w.modes /\ t.last = w.last
      /\ t.closedEvents = w.closedEvents
  BY DEF IsWindow, WindowType
<1>3. (t.closed <=> w.closed) /\ t.enabled = w.enabled
  BY DEF IsWindow, WindowType
<1> HIDE DEF t
<1>4. Books(t)
  BY <1>2, <1>3 DEF IsWindow, Books
<1>5. Counted(t)
  BY <1>2, <1>3 DEF IsWindow, Counted
<1>6. WindowMoves(w, t)
  BY <1>1, <1>2, <1>3, <1>4, <1>5 DEF IsWindow, WindowMoves
<1>7. QED
  BY <1>6 DEF t

LEMMA WindowCloses ==
  ASSUME NEW w, IsWindow(w), NEW calls \in Seq({"close", "prevented", "closed"})
  PROVE  WindowMoves(w, [w EXCEPT !.closed = TRUE, !.modes.visible = FALSE,
                                  !.closedEvents = @ + 1, !.calls = calls])
<1> DEFINE m == [w.modes EXCEPT !.visible = FALSE]
           n == w.closedEvents + 1
           t == [w EXCEPT !.closed = TRUE, !.modes.visible = FALSE,
                          !.closedEvents = @ + 1, !.calls = calls]
<1>1. w.modes \in Modes /\ w.closedEvents \in Nat
  BY DEF IsWindow, WindowType
<1>2. /\ m \in Modes /\ m.maximized = w.modes.maximized /\ m.fullscreen = w.modes.fullscreen
      /\ ~m.visible
  BY <1>1 DEF Modes
<1>3. w.closed => m = w.modes
  <2>1. w.closed => ~w.modes.visible
    BY DEF IsWindow, Books
  <2>2. QED
    BY <1>1, <2>1 DEF Modes
<1>4. n \in Nat /\ n # 0
  BY <1>1
<1>5. t = [w EXCEPT !.closed = TRUE, !.modes = m, !.closedEvents = n, !.calls = calls]
  BY Zenon
<1> HIDE DEF m, n, t
<1>6. t \in WindowType
  BY <1>2, <1>4, <1>5 DEF IsWindow, WindowType
<1>7. /\ t.bounds = w.bounds /\ t.normal = w.normal /\ t.modes = m /\ t.closedEvents = n
  BY <1>5 DEF IsWindow, WindowType
<1>8. t.closed /\ t.enabled = w.enabled
  BY <1>5 DEF IsWindow, WindowType
<1>9. Books(t)
  BY <1>2, <1>7, <1>8 DEF IsWindow, Books
<1>10. Counted(t)
  BY <1>4, <1>7, <1>8 DEF Counted
<1>11. WindowMoves(w, t)
  BY <1>3, <1>6, <1>7, <1>8, <1>9, <1>10 DEF IsWindow, WindowMoves
<1>12. QED
  BY <1>11 DEF t

LEMMA CloseBegins ==
  ASSUME NEW w, IsWindow(w)
  PROVE  WindowMoves(w, W!BeginClose(w))
<1>1. CASE w.closed
  BY <1>1, WindowRefuses DEF W!BeginClose, WindowResults
<1>2. CASE ~w.closed
  <2> DEFINE calls == Append(w.calls, "close")
  <2>1. calls \in Seq({"close", "prevented", "closed"})
    BY DEF IsWindow, WindowType
  <2>2. W!BeginClose(w) = [w EXCEPT !.calls = calls]
    BY <1>2, Zenon DEF W!BeginClose
  <2> HIDE DEF calls
  <2>3. QED
    BY <2>1, <2>2, CallsMove
<1>3. QED
  BY <1>1, <1>2

LEMMA CallAnswered ==
  ASSUME NEW w, IsWindow(w), w.calls # <<>>, NEW answer \in WindowResults
  PROVE  WindowMoves(w, W!Done(w, answer))
<1> DEFINE calls == SubSeq(w.calls, 1, Len(w.calls) - 1)
           u == [w EXCEPT !.calls = calls]
<1>1. calls \in Seq({"close", "prevented", "closed"})
  BY DEF IsWindow, WindowType
<1>2. W!Done(w, answer) = W!Refuse(u, answer)
  BY DEF W!Done, W!Refuse, IsWindow, WindowType
<1> HIDE DEF calls
<1>3. WindowMoves(w, u)
  BY <1>1, CallsMove
<1> HIDE DEF u
<1>4. WindowMoves(u, W!Refuse(u, answer))
  BY <1>3, WindowRefuses DEF WindowMoves
<1>5. QED
  BY <1>2, <1>3, <1>4, Zenon DEF WindowMoves

LEMMA HandlersOfWindowReturn ==
  ASSUME NEW w, IsWindow(w), w.calls # <<>>
  PROVE  WindowMoves(w, W!HandlersReturn(w))
<1>0. Len(w.calls) \in 1..Len(w.calls) /\ w.calls \in Seq({"close", "prevented", "closed"})
  BY DEF IsWindow, WindowType
<1>1. CASE W!Innermost(w) = "prevented"
  <2>1. W!HandlersReturn(w) = W!Done(w, "FALSE")
    BY <1>1 DEF W!HandlersReturn
  <2>2. QED
    BY <2>1, CallAnswered DEF WindowResults
<1>2. CASE W!Innermost(w) = "close"
  <2> DEFINE calls == [w.calls EXCEPT ![Len(w.calls)] = "closed"]
  <2>1. calls \in Seq({"close", "prevented", "closed"})
    BY <1>0
  <2>2. W!HandlersReturn(w)
          = [w EXCEPT !.closed = TRUE, !.modes.visible = FALSE,
                      !.closedEvents = @ + 1, !.calls = calls]
    <3>1. "close" # "prevented"
      OBVIOUS
    <3>2. W!HandlersReturn(w)
          = [w EXCEPT !.closed = TRUE, !.modes.visible = FALSE,
                      !.closedEvents = @ + 1, !.calls[Len(w.calls)] = "closed"]
      BY <1>2, <3>1 DEF W!HandlersReturn
    <3>3. QED
      BY <3>2, Zenon
  <2> HIDE DEF calls
  <2> DEFINE t == [w EXCEPT !.closed = TRUE, !.modes.visible = FALSE,
                            !.closedEvents = @ + 1, !.calls = calls]
  <2>3. WindowMoves(w, t)
    BY <2>1, WindowCloses
  <2> HIDE DEF t
  <2>4. QED
    BY <2>2, <2>3, Zenon DEF t
<1>3. CASE W!Innermost(w) \notin {"prevented", "close"}
  <2>1. W!HandlersReturn(w) = W!Done(w, "TRUE")
    BY <1>3 DEF W!HandlersReturn
  <2>2. QED
    BY <2>1, CallAnswered DEF WindowResults
<1>4. QED
  BY <1>1, <1>2, <1>3

LEMMA CloseIsPrevented ==
  ASSUME NEW w, IsWindow(w), w.calls # <<>>
  PROVE  WindowMoves(w, W!PreventDefault(w))
<1> DEFINE calls == [w.calls EXCEPT ![Len(w.calls)] = "prevented"]
<1>1. calls \in Seq({"close", "prevented", "closed"})
  BY DEF IsWindow, WindowType
<1>2. W!PreventDefault(w) = [w EXCEPT !.calls = calls]
  BY Zenon DEF W!PreventDefault
<1> HIDE DEF calls
<1>3. QED
  BY <1>1, <1>2, CallsMove

LEMMA WindowStep ==
  ASSUME IsWindow(object), [W!Next]_object
  PROVE  IsWindow(object') /\ [W!ClosedIsFinal]_object
<1>1. CASE UNCHANGED object
  BY <1>1
<1>2. CASE W!Next
  <2> DEFINE w == object
  <2>1. ASSUME NEW x \in Origins, NEW s \in Sizes
        PROVE  WindowMoves(w, W!SetBounds(w, [x |-> x, y |-> 0, w |-> s, h |-> s]))
    <3>1. [x |-> x, y |-> 0, w |-> s, h |-> s] \in Rects
      BY SizeAssumption DEF Rects
    <3>2. QED
      BY <3>1, WindowResized
  <2>2. ASSUME NEW s \in Sizes
        PROVE  WindowMoves(w, W!SetSize(w, s, s))
    <3>1. [w.bounds EXCEPT !.w = s, !.h = s] \in Rects
      BY SizeAssumption DEF Rects, IsWindow, WindowType
    <3>2. QED
      BY <3>1, WindowResized DEF W!SetSize
  <2>3. /\ WindowMoves(w, W!Show(w)) /\ WindowMoves(w, W!Hide(w))
        /\ WindowMoves(w, W!Minimize(w)) /\ WindowMoves(w, W!Restore(w))
        /\ WindowMoves(w, W!Maximize(w))
    BY WindowEnters, Zenon DEF W!Show, W!Hide, W!Minimize, W!Restore, W!Maximize
  <2>4. WindowMoves(w, W!Unmaximize(w))
    BY WindowLeaves DEF W!Unmaximize
  <2>5. ASSUME NEW on \in BOOLEAN
        PROVE  WindowMoves(w, W!SetFullScreen(w, on))
    <3>1. WindowMoves(w, W!Mode(w, "fullscreen", TRUE)) /\ WindowMoves(w, W!BackToNormal(w, "fullscreen"))
      BY WindowEnters, WindowLeaves, Zenon
    <3>2. QED
      BY <3>1, Zenon DEF W!SetFullScreen
  <2>6. ASSUME NEW on \in BOOLEAN
        PROVE  WindowMoves(w, W!SetEnabled(w, on))
    BY WindowEnabled
  <2>7. WindowMoves(w, W!BeginClose(w))
    BY CloseBegins
  <2>8. w.calls # <<>> => WindowMoves(w, W!HandlersReturn(w)) /\ WindowMoves(w, W!PreventDefault(w))
    BY HandlersOfWindowReturn, CloseIsPrevented
  <2>9. WindowMoves(w, w')
    BY <1>2, <2>1, <2>2, <2>3, <2>4, <2>5, <2>6, <2>7, <2>8, Zenon DEF W!Next
  <2>10. QED
    BY <2>9 DEF WindowMoves, W!ClosedIsFinal
<1>3. QED
  BY <1>1, <1>2

LEMMA BooksAreKept == IsWindow(object) => W!BooksKept
BY DEF IsWindow, WindowType, Books, Counted, W!BooksKept

-----------------------------------------------------------------------------
(* Web contents: the history and the calls that stand at their events. *)

CallNames == {"LoadURL", "NavigateInPage", "FailLoad", "GoTo"}
Stage(call, at) == C!Stages[call][at]
Stops(call) == Len(C!Stages[call])
LoadingStages == {"did-start-loading", "did-frame-navigate", "did-navigate"}

Frames == {f \in [call : CallNames, url : Urls, at : Nat, cancelled : BOOLEAN] :
               f.at \in 1..Stops(f.call)}

\* X is what the last print job may be.
PageType(X) ==
  [history : Seq(Urls), index : Nat, current : Urls \cup {C!None}, loading : BOOLEAN,
   calls : Seq(Frames), targetID : BOOLEAN, lastPrint : X,
   ret : {"ok", "ErrInvalidURL", "ErrHistoryUnavailable", "ErrNavigationCancelled",
          "ErrInvalidPrintOptions"}]

Shows(wc) ==
  IF wc.history = <<>> THEN wc.index = 0 /\ wc.current = C!None
  ELSE wc.index \in 1..Len(wc.history) /\ wc.current = wc.history[wc.index]

IsLoading(call, at) == call # "GoTo" /\ Stage(call, at) \in LoadingStages
SomebodyLoads(calls) == \E i \in 1..Len(calls) : IsLoading(calls[i].call, calls[i].at)

HasHistory(wc) == (\E X : wc \in PageType(X)) /\ Shows(wc)
IsPage(wc) == HasHistory(wc) /\ (wc.loading => SomebodyLoads(wc.calls))

LEMMA StagesAre ==
  /\ Stops("LoadURL") = 8 /\ Stops("NavigateInPage") = 2 /\ Stops("FailLoad") = 3
  /\ Stops("GoTo") = 1
  /\ Stage("LoadURL", 1) = "did-start-navigation" /\ Stage("LoadURL", 2) = "will-frame-navigate"
  /\ Stage("LoadURL", 3) = "will-navigate" /\ Stage("LoadURL", 4) = "did-start-loading"
  /\ Stage("LoadURL", 5) = "did-frame-navigate" /\ Stage("LoadURL", 6) = "did-navigate"
  /\ Stage("LoadURL", 7) = "did-stop-loading" /\ Stage("LoadURL", 8) = "did-finish-load"
  /\ Stage("NavigateInPage", 1) = "did-start-navigation"
  /\ Stage("NavigateInPage", 2) = "did-navigate-in-page"
  /\ Stage("FailLoad", 1) = "did-start-loading" /\ Stage("FailLoad", 2) = "did-stop-loading"
  /\ Stage("FailLoad", 3) = "did-fail-load" /\ Stage("GoTo", 1) = "did-navigate"
<1>1. /\ C!Stages["LoadURL"] = <<"did-start-navigation", "will-frame-navigate", "will-navigate",
             "did-start-loading", "did-frame-navigate", "did-navigate", "did-stop-loading",
             "did-finish-load">>
      /\ C!Stages["NavigateInPage"] = <<"did-start-navigation", "did-navigate-in-page">>
      /\ C!Stages["FailLoad"] = <<"did-start-loading", "did-stop-loading", "did-fail-load">>
      /\ C!Stages["GoTo"] = <<"did-navigate">>
  BY DEF C!Stages
<1>2. QED
  BY <1>1 DEF Stage, Stops

\* A load goes on to its stop, and is not cancelled once it began.
LEMMA LoadsGoOn ==
  ASSUME NEW call \in CallNames, NEW at \in 1..Stops(call), IsLoading(call, at)
  PROVE  /\ at # Stops(call) /\ Stage(call, at) \notin C!Cancellable
         /\ IsLoading(call, at + 1) \/ Stage(call, at + 1) = "did-stop-loading"
<1>1. CASE call = "LoadURL"
  <2>1. at \in 1..8
    BY <1>1, StagesAre
  <2>2. at \in {4, 5, 6}
    BY <1>1, <2>1, StagesAre DEF IsLoading, LoadingStages
  <2>3. QED
    BY <1>1, <2>2, StagesAre DEF IsLoading, LoadingStages, C!Cancellable
<1>2. CASE call = "NavigateInPage"
  <2>1. at \in 1..2
    BY <1>2, StagesAre
  <2>2. QED
    BY <1>2, <2>1, StagesAre DEF IsLoading, LoadingStages
<1>3. CASE call = "FailLoad"
  <2>1. at \in 1..3
    BY <1>3, StagesAre
  <2>2. at = 1
    BY <1>3, <2>1, StagesAre DEF IsLoading, LoadingStages
  <2>3. QED
    BY <1>3, <2>2, StagesAre DEF IsLoading, LoadingStages, C!Cancellable
<1>4. QED
  BY <1>1, <1>2, <1>3 DEF CallNames, IsLoading

LEMMA StartsAreLoads ==
  ASSUME NEW call \in CallNames, NEW at \in 1..Stops(call), Stage(call, at) = "did-start-loading"
  PROVE  IsLoading(call, at)
<1>1. call # "GoTo"
  <2>1. call = "GoTo" => at = 1
    BY StagesAre
  <2>2. QED
    BY <2>1, StagesAre
<1>2. QED
  BY <1>1 DEF IsLoading, LoadingStages

LEMMA NewPageIsOne == IsPage(C!New)
<1> DEFINE none == <<>>
           wc == [history |-> none, index |-> 0, current |-> C!None, loading |-> FALSE,
                  calls |-> none, targetID |-> FALSE, lastPrint |-> none, ret |-> "ok"]
<1>1. C!New = wc
  BY Zenon DEF C!New
<1>2. none \in Seq(Urls) /\ none \in Seq(Frames)
  OBVIOUS
<1>3. wc.history = <<>> /\ wc.index = 0 /\ wc.current = C!None
  OBVIOUS
<1> HIDE DEF none
<1>4. wc \in PageType({none}) /\ ~wc.loading
  BY <1>2 DEF PageType
<1> HIDE DEF wc
<1>5. QED
  BY <1>1, <1>3, <1>4 DEF IsPage, HasHistory, Shows

LEMMA HistoryCommits ==
  ASSUME NEW wc, HasHistory(wc), NEW url \in Urls
  PROVE  /\ HasHistory(C!Commit(wc, url)) /\ C!Commit(wc, url).calls = wc.calls
         /\ C!Commit(wc, url).loading => wc.loading
<1>1. PICK X : wc \in PageType(X)
  BY DEF HasHistory
<1> DEFINE kept == SubSeq(wc.history, 1, wc.index)
           longer == Append(kept, url)
           at == Len(kept) + 1
           t == [wc EXCEPT !.history = longer, !.index = at, !.current = url]
<1>2. C!Commit(wc, url) = t
  BY Zenon DEF C!Commit
<1>3. wc.index \in 0..Len(wc.history)
  <2>1. wc.history = <<>> => wc.index = 0
    BY DEF HasHistory, Shows
  <2>2. wc.history # <<>> => wc.index \in 1..Len(wc.history)
    BY DEF HasHistory, Shows
  <2>3. wc.history \in Seq(Urls) /\ Len(wc.history) \in Nat
    BY <1>1 DEF PageType
  <2>4. QED
    BY <2>1, <2>2, <2>3
<1>4. kept \in Seq(Urls)
  BY <1>1, <1>3 DEF PageType
<1> HIDE DEF kept
<1>5. longer \in Seq(Urls) /\ at \in 1..Len(longer) /\ longer[at] = url /\ longer # <<>> /\ at \in Nat
  BY <1>4
<1> HIDE DEF longer, at
<1>6. t \in PageType(X) /\ t.history = longer /\ t.index = at /\ t.current = url
  BY <1>1, <1>5 DEF PageType
<1>7. t.calls = wc.calls /\ (t.loading => wc.loading)
  BY <1>1 DEF PageType
<1> HIDE DEF t
<1>8. HasHistory(t)
  BY <1>5, <1>6 DEF HasHistory, Shows
<1>9. QED
  BY <1>2, <1>7, <1>8

\* What is written before an event is emitted.
LEMMA WrittenBefore ==
  ASSUME NEW wc, HasHistory(wc), NEW url \in Urls, NEW event
  PROVE  /\ HasHistory(C!BeforeEmit(wc, event, url))
         /\ C!BeforeEmit(wc, event, url).calls = wc.calls
         /\ event = "did-stop-loading" => ~C!BeforeEmit(wc, event, url).loading
         /\ event # "did-start-loading" /\ C!BeforeEmit(wc, event, url).loading => wc.loading
<1>1. PICK X : wc \in PageType(X)
  BY DEF HasHistory
<1>2. ASSUME NEW b \in BOOLEAN
      PROVE  /\ HasHistory([wc EXCEPT !.loading = b]) /\ [wc EXCEPT !.loading = b].calls = wc.calls
             /\ [wc EXCEPT !.loading = b].loading => b
  <2> DEFINE t == [wc EXCEPT !.loading = b]
  <2>1. /\ t \in PageType(X) /\ t.history = wc.history /\ t.index = wc.index
        /\ t.current = wc.current /\ t.calls = wc.calls
    BY <1>1 DEF PageType
  <2>2. t.loading => b
    BY <1>1 DEF PageType
  <2> HIDE DEF t
  <2>3. HasHistory(t)
    BY <2>1 DEF HasHistory, Shows
  <2>4. QED
    BY <2>1, <2>2, <2>3 DEF t
<1>3. CASE event = "did-start-loading"
  <2>1. C!BeforeEmit(wc, event, url) = [wc EXCEPT !.loading = TRUE]
    BY <1>3, Zenon DEF C!BeforeEmit
  <2>2. HasHistory([wc EXCEPT !.loading = TRUE]) /\ [wc EXCEPT !.loading = TRUE].calls = wc.calls
    BY <1>2, Zenon
  <2>3. event # "did-stop-loading"
    BY <1>3
  <2>4. QED
    BY <1>3, <2>1, <2>2, <2>3, Zenon
<1>4. CASE event = "did-stop-loading"
  <2>1. C!BeforeEmit(wc, event, url) = [wc EXCEPT !.loading = FALSE]
    <3>1. event # "did-start-loading"
      BY <1>4
    <3>2. QED
      BY <1>4, <3>1, Zenon DEF C!BeforeEmit
  <2>2. /\ HasHistory([wc EXCEPT !.loading = FALSE]) /\ [wc EXCEPT !.loading = FALSE].calls = wc.calls
        /\ ~[wc EXCEPT !.loading = FALSE].loading
    BY <1>2, Zenon
  <2>3. QED
    BY <2>1, <2>2, Zenon
<1>5. CASE event \in {"did-frame-navigate", "did-navigate-in-page"}
  <2>1. event # "did-start-loading" /\ event # "did-stop-loading"
    BY <1>5
  <2>2. C!BeforeEmit(wc, event, url) = C!Commit(wc, url)
    BY <1>5, <2>1 DEF C!BeforeEmit
  <2>3. QED
    BY <2>1, <2>2, HistoryCommits, Zenon
<1>6. CASE event \notin {"did-start-loading", "did-stop-loading", "did-frame-navigate",
                         "did-navigate-in-page"}
  <2>1. C!BeforeEmit(wc, event, url) = wc
    BY <1>6 DEF C!BeforeEmit
  <2>2. QED
    BY <1>6, <2>1
<1>7. QED
  BY <1>3, <1>4, <1>5, <1>6

\* An event whose call keeps the promise, or another call does.
LEMMA PageEmits ==
  ASSUME NEW wc, HasHistory(wc), NEW call \in CallNames, NEW url \in Urls,
         NEW at \in 1..Stops(call),
         wc.loading => \/ SomebodyLoads(wc.calls) \/ IsLoading(call, at)
                       \/ Stage(call, at) = "did-stop-loading"
  PROVE  IsPage(C!Emit(wc, call, url, at))
<1> DEFINE event == Stage(call, at)
           before == C!BeforeEmit(wc, event, url)
           frame == [call |-> call, url |-> url, at |-> at, cancelled |-> FALSE]
           calls == Append(wc.calls, frame)
           t == [before EXCEPT !.calls = calls]
<1>1. /\ HasHistory(before) /\ before.calls = wc.calls
      /\ event = "did-stop-loading" => ~before.loading
      /\ event # "did-start-loading" /\ before.loading => wc.loading
  BY WrittenBefore, Zenon
<1>2. C!Emit(wc, call, url, at) = t
  BY <1>1, Zenon DEF C!Emit, Stage
<1>3. frame \in Frames /\ frame.call = call /\ frame.at = at
  <2>1. Stops(call) \in Nat
    BY StagesAre DEF CallNames
  <2>2. QED
    BY <2>1 DEF Frames
<1>4. event = "did-start-loading" => IsLoading(call, at)
  BY StartsAreLoads
<1> HIDE DEF frame, event, before
<1>5. PICK X : before \in PageType(X)
  BY <1>1 DEF HasHistory
<1>6. /\ calls \in Seq(Frames) /\ Len(calls) = Len(wc.calls) + 1 /\ Len(wc.calls) \in Nat
      /\ calls[Len(calls)] = frame /\ \A i \in 1..Len(wc.calls) : calls[i] = wc.calls[i]
  BY <1>1, <1>3, <1>5 DEF PageType
<1>7. /\ IsLoading(call, at) => SomebodyLoads(calls)
      /\ SomebodyLoads(wc.calls) => SomebodyLoads(calls)
  <2> HIDE DEF calls
  <2>1. QED
    BY <1>3, <1>6 DEF SomebodyLoads
<1> HIDE DEF calls
<1>8. /\ t \in PageType(X) /\ t.history = before.history /\ t.index = before.index
      /\ t.current = before.current /\ t.calls = calls
  BY <1>5, <1>6 DEF PageType
<1>9. t.loading => before.loading
  BY <1>5 DEF PageType
<1> HIDE DEF t
<1>10. HasHistory(t)
  BY <1>1, <1>8 DEF HasHistory, Shows
<1>11. t.loading => SomebodyLoads(calls)
  BY <1>1, <1>4, <1>7, <1>9, Zenon DEF event
<1>12. QED
  BY <1>2, <1>8, <1>10, <1>11 DEF IsPage

\* What a call returns, and what is not about navigation.
LEMMA PageReturns ==
  ASSUME NEW wc, HasHistory(wc),
         NEW e \in {"ok", "ErrInvalidURL", "ErrHistoryUnavailable", "ErrNavigationCancelled",
                    "ErrInvalidPrintOptions"}
  PROVE  /\ HasHistory([wc EXCEPT !.ret = e])
         /\ [wc EXCEPT !.ret = e].calls = wc.calls /\ ([wc EXCEPT !.ret = e].loading => wc.loading)
<1>1. PICK X : wc \in PageType(X)
  BY DEF HasHistory
<1> DEFINE t == [wc EXCEPT !.ret = e]
<1>2. /\ t \in PageType(X) /\ t.history = wc.history /\ t.index = wc.index
      /\ t.current = wc.current /\ t.calls = wc.calls
  BY <1>1 DEF PageType
<1>3. t.loading => wc.loading
  BY <1>1 DEF PageType
<1> HIDE DEF t
<1>4. HasHistory(t)
  BY <1>2 DEF HasHistory, Shows
<1>5. QED
  BY <1>2, <1>3, <1>4 DEF t

LEMMA PageRefuses ==
  ASSUME NEW wc, IsPage(wc),
         NEW e \in {"ok", "ErrInvalidURL", "ErrHistoryUnavailable", "ErrNavigationCancelled",
                    "ErrInvalidPrintOptions"}
  PROVE  IsPage([wc EXCEPT !.ret = e])
<1> DEFINE t == [wc EXCEPT !.ret = e]
<1>1. HasHistory(t) /\ t.calls = wc.calls /\ (t.loading => wc.loading)
  BY PageReturns, Zenon DEF IsPage
<1> HIDE DEF t
<1>2. IsPage(t)
  BY <1>1 DEF IsPage
<1>3. QED
  BY <1>2 DEF t

LEMMA PageBegins ==
  ASSUME NEW wc, IsPage(wc), NEW call \in CallNames, NEW url \in Urls
  PROVE  IsPage(C!Begin(wc, call, url))
<1>1. CASE url = Unparsable
  BY <1>1, PageRefuses DEF C!Begin
<1>2. CASE url # Unparsable
  <2>1. 1 \in 1..Stops(call)
    BY StagesAre DEF CallNames
  <2>2. C!Begin(wc, call, url) = C!Emit(wc, call, url, 1)
    BY <1>2 DEF C!Begin
  <2>3. IsPage(C!Emit(wc, call, url, 1))
    BY <2>1, PageEmits DEF IsPage
  <2>4. QED
    BY <2>2, <2>3
<1>3. QED
  BY <1>1, <1>2

LEMMA PageGoes ==
  ASSUME NEW wc, IsPage(wc), NEW by \in {-1, 1}
  PROVE  IsPage(C!GoTo(wc, by))
<1>1. PICK X : wc \in PageType(X)
  BY DEF IsPage, HasHistory
<1> DEFINE may == IF by < 0 THEN C!CanGoBack(wc) ELSE C!CanGoForward(wc)
<1>2. CASE ~may
  BY <1>2, PageRefuses DEF C!GoTo
<1>3. CASE may
  <2> DEFINE at == wc.index + by
             url == wc.history[at]
             t == [wc EXCEPT !.index = at, !.current = url]
  <2>1. C!GoTo(wc, by) = C!Emit(t, "GoTo", url, 1)
    BY <1>3 DEF C!GoTo
  <2>2. wc.history \in Seq(Urls) /\ Len(wc.history) \in Nat
    BY <1>1 DEF PageType
  <2>3. wc.history # <<>>
    <3>1. wc.history = <<>> => wc.index = 0
      BY DEF IsPage, HasHistory, Shows
    <3>2. wc.history = <<>> => ~may
      BY <3>1 DEF C!CanGoBack, C!CanGoForward
    <3>3. QED
      BY <1>3, <3>2
  <2>4. wc.index \in 1..Len(wc.history)
    BY <2>3 DEF IsPage, HasHistory, Shows
  <2>5. at \in 1..Len(wc.history) /\ at \in Nat
    <3>1. CASE by < 0
      <4>1. wc.index > 1 /\ by = -1
        BY <1>3, <3>1 DEF C!CanGoBack
      <4>2. QED
        BY <2>2, <2>4, <4>1
    <3>2. CASE ~(by < 0)
      <4>1. wc.index < Len(wc.history) /\ by = 1
        BY <1>3, <3>2 DEF C!CanGoForward
      <4>2. QED
        BY <2>2, <2>4, <4>1
    <3>3. QED
      BY <3>1, <3>2
  <2>6. url \in Urls
    BY <2>2, <2>5
  <2> HIDE DEF at, may
  <2>7. t \in PageType(X) /\ t.history = wc.history /\ t.index = at /\ t.current = url /\ t.calls = wc.calls
    <3> HIDE DEF url
    <3>1. QED
      BY <1>1, <2>5, <2>6 DEF PageType
  <2>8. t.loading => wc.loading
    BY <1>1 DEF PageType
  <2> DEFINE u == url
  <2>9. u = wc.history[at]
    OBVIOUS
  <2> HIDE DEF t, u
  <2>10. HasHistory(t)
    BY <2>3, <2>5, <2>7 DEF HasHistory, Shows
  <2>11. 1 \in 1..Stops("GoTo") /\ "GoTo" \in CallNames
    BY StagesAre DEF CallNames
  <2>12. t.loading => SomebodyLoads(t.calls)
    BY <2>7, <2>8 DEF IsPage
  <2> HIDE DEF url
  <2>13. IsPage(C!Emit(t, "GoTo", url, 1))
    BY <2>6, <2>10, <2>11, <2>12, PageEmits
  <2>14. QED
    BY <2>1, <2>13 DEF t
<1>4. QED
  BY <1>2, <1>3

LEMMA FrameCancelled ==
  ASSUME NEW f \in Frames
  PROVE  /\ [f EXCEPT !.cancelled = TRUE] \in Frames
         /\ [f EXCEPT !.cancelled = TRUE].call = f.call /\ [f EXCEPT !.cancelled = TRUE].at = f.at
<1>1. f \in [call : CallNames, url : Urls, at : Nat, cancelled : BOOLEAN] /\ f.at \in 1..Stops(f.call)
  BY Zenon DEF Frames
<1> DEFINE g == [f EXCEPT !.cancelled = TRUE]
<1>2. /\ g \in [call : CallNames, url : Urls, at : Nat, cancelled : BOOLEAN]
      /\ g.call = f.call /\ g.at = f.at
  BY <1>1
<1> HIDE DEF g
<1>3. g.at \in 1..Stops(g.call)
  BY <1>1, <1>2
<1>4. g \in Frames
  BY <1>2, <1>3, Zenon DEF Frames
<1>5. QED
  BY <1>2, <1>4 DEF g

LEMMA PageIsPrevented ==
  ASSUME NEW wc, IsPage(wc), wc.calls # <<>>
  PROVE  IsPage(C!PreventDefault(wc))
<1>1. PICK X : wc \in PageType(X)
  BY DEF IsPage, HasHistory
<1> DEFINE n == Len(wc.calls)
           frame == [wc.calls[n] EXCEPT !.cancelled = TRUE]
           calls == [wc.calls EXCEPT ![n] = frame]
           t == [wc EXCEPT !.calls = calls]
<1>2. C!PreventDefault(wc) = t
  BY Zenon DEF C!PreventDefault
<1>3. n \in 1..Len(wc.calls) /\ wc.calls \in Seq(Frames) /\ Len(wc.calls) \in Nat
  BY <1>1 DEF PageType
<1>4. frame \in Frames /\ frame.call = wc.calls[n].call /\ frame.at = wc.calls[n].at
  <2>1. wc.calls[n] \in Frames
    BY <1>3
  <2>2. QED
    BY <2>1, FrameCancelled, Zenon
<1> HIDE DEF frame
<1>5. /\ calls \in Seq(Frames) /\ Len(calls) = Len(wc.calls)
      /\ \A i \in 1..Len(wc.calls) : calls[i] = IF i = n THEN frame ELSE wc.calls[i]
  BY <1>3, <1>4
<1> HIDE DEF calls
<1>6. SomebodyLoads(wc.calls) => SomebodyLoads(calls)
  <2>1. ASSUME NEW i \in 1..Len(wc.calls)
        PROVE  calls[i].call = wc.calls[i].call /\ calls[i].at = wc.calls[i].at
    BY <1>4, <1>5
  <2>2. QED
    BY <1>5, <2>1 DEF SomebodyLoads
<1>7. /\ t \in PageType(X) /\ t.history = wc.history /\ t.index = wc.index
      /\ t.current = wc.current /\ t.calls = calls
  BY <1>1, <1>5 DEF PageType
<1>8. t.loading => wc.loading
  BY <1>1 DEF PageType
<1> HIDE DEF t
<1>9. HasHistory(t)
  BY <1>7 DEF IsPage, HasHistory, Shows
<1>10. t.loading => SomebodyLoads(t.calls)
  BY <1>6, <1>7, <1>8 DEF IsPage
<1>11. QED
  BY <1>2, <1>9, <1>10 DEF IsPage

LEMMA PageHandlersReturn ==
  ASSUME NEW wc, IsPage(wc), wc.calls # <<>>
  PROVE  IsPage(C!HandlersReturn(wc))
<1>1. PICK X : wc \in PageType(X)
  BY DEF IsPage, HasHistory
<1> DEFINE n == Len(wc.calls)
           top == wc.calls[n]
           calls == SubSeq(wc.calls, 1, n - 1)
           popped == [wc EXCEPT !.calls = calls]
<1>2. n \in 1..Len(wc.calls) /\ wc.calls \in Seq(Frames) /\ n \in Nat
  BY <1>1 DEF PageType
<1>3. /\ calls \in Seq(Frames) /\ Len(calls) = n - 1
      /\ \A i \in 1..n - 1 : calls[i] = wc.calls[i]
  BY <1>2
<1>4. /\ top \in Frames /\ top.call \in CallNames /\ top.url \in Urls
      /\ top.at \in 1..Stops(top.call) /\ Stops(top.call) \in Nat
  <2>1. top \in Frames
    BY <1>2
  <2>2. QED
    BY <2>1, StagesAre DEF Frames, CallNames
<1>5. SomebodyLoads(wc.calls) => SomebodyLoads(calls) \/ IsLoading(top.call, top.at)
  <2> HIDE DEF calls, top
  <2>1. ASSUME NEW i \in 1..Len(wc.calls), IsLoading(wc.calls[i].call, wc.calls[i].at)
        PROVE  SomebodyLoads(calls) \/ IsLoading(top.call, top.at)
    <3>1. CASE i = n
      BY <2>1, <3>1 DEF top
    <3>2. CASE i # n
      <4>1. i \in 1..Len(calls) /\ calls[i] = wc.calls[i]
        BY <1>2, <1>3, <3>2
      <4>2. QED
        BY <2>1, <4>1 DEF SomebodyLoads
    <3>3. QED
      BY <3>1, <3>2
  <2>2. QED
    BY <2>1 DEF SomebodyLoads
<1> HIDE DEF calls
<1>6. /\ popped \in PageType(X) /\ popped.history = wc.history /\ popped.index = wc.index
      /\ popped.current = wc.current /\ popped.calls = calls
  BY <1>1, <1>3 DEF PageType
<1>7. popped.loading => wc.loading
  BY <1>1 DEF PageType
<1>8. HasHistory(popped)
  <2> HIDE DEF popped
  <2>1. QED
    BY <1>6 DEF IsPage, HasHistory, Shows
<1>9. popped.loading => SomebodyLoads(popped.calls) \/ IsLoading(top.call, top.at)
  BY <1>5, <1>6, <1>7 DEF IsPage
<1>10. C!Innermost(wc) = top
  BY DEF C!Innermost
<1>11. CASE top.cancelled /\ Stage(top.call, top.at) \in C!Cancellable
  <2>1. C!HandlersReturn(wc) = [popped EXCEPT !.ret = "ErrNavigationCancelled"]
    BY <1>10, <1>11, Zenon DEF C!HandlersReturn, Stage, calls
  <2>2. ~IsLoading(top.call, top.at)
    BY <1>4, <1>11, LoadsGoOn
  <2> HIDE DEF popped, top
  <2>3. IsPage(popped)
    BY <1>8, <1>9, <2>2 DEF IsPage
  <2>4. IsPage([popped EXCEPT !.ret = "ErrNavigationCancelled"])
    BY <2>3, PageRefuses
  <2>5. QED
    BY <2>1, <2>4, Zenon
<1>12. CASE ~(top.cancelled /\ Stage(top.call, top.at) \in C!Cancellable) /\ top.at = Stops(top.call)
  <2>1. C!HandlersReturn(wc) = [popped EXCEPT !.ret = "ok"]
    BY <1>10, <1>12, Zenon DEF C!HandlersReturn, Stage, Stops, calls
  <2>2. ~IsLoading(top.call, top.at)
    BY <1>4, <1>12, LoadsGoOn
  <2> HIDE DEF popped, top
  <2>3. IsPage(popped)
    BY <1>8, <1>9, <2>2 DEF IsPage
  <2>4. IsPage([popped EXCEPT !.ret = "ok"])
    BY <2>3, PageRefuses
  <2>5. QED
    BY <2>1, <2>4, Zenon
<1>13. CASE ~(top.cancelled /\ Stage(top.call, top.at) \in C!Cancellable) /\ top.at # Stops(top.call)
  <2>1. C!HandlersReturn(wc) = C!Emit(popped, top.call, top.url, top.at + 1)
    BY <1>10, <1>13, Zenon DEF C!HandlersReturn, Stage, Stops, calls
  <2>2. top.at + 1 \in 1..Stops(top.call)
    BY <1>4, <1>13
  <2>3. IsLoading(top.call, top.at) => \/ IsLoading(top.call, top.at + 1)
                                      \/ Stage(top.call, top.at + 1) = "did-stop-loading"
    BY <1>4, LoadsGoOn
  <2> DEFINE call == top.call url == top.url at == top.at + 1
  <2>4. popped.loading => \/ SomebodyLoads(popped.calls) \/ IsLoading(call, at)
                          \/ Stage(call, at) = "did-stop-loading"
    BY <1>9, <2>3, Zenon
  <2>5. call \in CallNames /\ url \in Urls /\ at \in 1..Stops(call)
    BY <1>4, <2>2
  <2> HIDE DEF popped, call, url, at
  <2>6. IsPage(C!Emit(popped, call, url, at))
    BY <1>8, <2>4, <2>5, PageEmits
  <2>7. QED
    BY <2>1, <2>6 DEF call, url, at
<1>14. QED
  BY <1>11, <1>12, <1>13, Zenon

LEMMA PagePrints ==
  ASSUME NEW wc, IsPage(wc), NEW job
  PROVE  IsPage([wc EXCEPT !.lastPrint = job, !.ret = "ok"]) /\ IsPage([wc EXCEPT !.targetID = TRUE])
<1>1. PICK X : wc \in PageType(X)
  BY DEF IsPage, HasHistory
<1>2. ASSUME NEW t, t \in PageType(X \cup {job}), t.history = wc.history, t.index = wc.index,
             t.current = wc.current, t.calls = wc.calls, t.loading => wc.loading
      PROVE  IsPage(t)
  BY <1>2 DEF IsPage, HasHistory, Shows
<1>3. IsPage([wc EXCEPT !.lastPrint = job, !.ret = "ok"])
  <2> DEFINE t == [wc EXCEPT !.lastPrint = job, !.ret = "ok"]
  <2>1. /\ t \in PageType(X \cup {job}) /\ t.history = wc.history /\ t.index = wc.index
        /\ t.current = wc.current /\ t.calls = wc.calls
    BY <1>1 DEF PageType
  <2>2. t.loading => wc.loading
    BY <1>1 DEF PageType
  <2> HIDE DEF t
  <2>3. IsPage(t)
    BY <1>2, <2>1, <2>2
  <2>4. QED
    BY <2>3 DEF t
<1>4. IsPage([wc EXCEPT !.targetID = TRUE])
  <2> DEFINE t == [wc EXCEPT !.targetID = TRUE]
  <2>1. /\ t \in PageType(X \cup {job}) /\ t.history = wc.history /\ t.index = wc.index
        /\ t.current = wc.current /\ t.calls = wc.calls
    BY <1>1 DEF PageType
  <2>2. t.loading => wc.loading
    BY <1>1 DEF PageType
  <2> HIDE DEF t
  <2>3. IsPage(t)
    BY <1>2, <2>1, <2>2
  <2>4. QED
    BY <2>3 DEF t
<1>5. QED
  BY <1>3, <1>4

LEMMA PageStep ==
  ASSUME IsPage(object), [C!Next]_object
  PROVE  IsPage(object')
<1>1. CASE UNCHANGED object
  BY <1>1
<1>2. CASE C!Next
  <2> DEFINE wc == object
  <2>1. ASSUME NEW url \in Urls
        PROVE  /\ IsPage(C!Begin(wc, "LoadURL", url)) /\ IsPage(C!Begin(wc, "NavigateInPage", url))
               /\ IsPage(C!Begin(wc, "FailLoad", url))
    BY PageBegins DEF CallNames
  <2>2. ASSUME NEW by \in {-1, 1} PROVE IsPage(C!GoTo(wc, by))
    BY PageGoes
  <2>3. wc.calls # <<>> => IsPage(C!PreventDefault(wc)) /\ IsPage(C!HandlersReturn(wc))
    BY PageIsPrevented, PageHandlersReturn
  <2>4. IsPage(C!GetOrCreateDevToolsTargetID(wc))
    BY PagePrints DEF C!GetOrCreateDevToolsTargetID
  <2>5. ASSUME NEW copies, NEW size, NEW default
        PROVE  IsPage(C!PrintPage(wc, copies, size, default))
    <3> DEFINE bad == copies < 0 \/ (default /\ size # <<>>) \/ (size # <<>> /\ size[1] <= 0)
               job == <<[copies |-> IF copies = 0 THEN 1 ELSE copies, pageSize |-> size]>>
    <3>1. C!PrintPage(wc, copies, size, default)
            = IF bad THEN [wc EXCEPT !.ret = "ErrInvalidPrintOptions"]
              ELSE [wc EXCEPT !.lastPrint = job, !.ret = "ok"]
      BY Zenon DEF C!PrintPage
    <3> HIDE DEF bad, job
    <3>2. /\ IsPage([wc EXCEPT !.ret = "ErrInvalidPrintOptions"])
          /\ IsPage([wc EXCEPT !.lastPrint = job, !.ret = "ok"])
      BY PageRefuses, PagePrints
    <3>3. QED
      BY <3>1, <3>2, Zenon
  <2>6. QED
    BY <1>2, <2>1, <2>2, <2>3, <2>4, <2>5, Zenon DEF C!Next
<1>3. QED
  BY <1>1, <1>2

LEMMA PageIsShown == IsPage(object) => C!ShowsHistory /\ C!LoadingIsSomebodys
<1> SUFFICES ASSUME IsPage(object) PROVE C!ShowsHistory /\ C!LoadingIsSomebodys
  OBVIOUS
<1>1. PICK X : object \in PageType(X)
  BY DEF IsPage, HasHistory
<1>2. DOMAIN object.history = 1..Len(object.history) /\ DOMAIN object.calls = 1..Len(object.calls)
  BY <1>1 DEF PageType
<1>3. C!ShowsHistory
  BY <1>2 DEF IsPage, HasHistory, Shows, C!ShowsHistory
<1>4. C!LoadingIsSomebodys
  BY <1>2 DEF IsPage, SomebodyLoads, IsLoading, Stage, LoadingStages, C!LoadingIsSomebodys
<1>5. QED
  BY <1>3, <1>4

-----------------------------------------------------------------------------
(* Views: lists in which a view is once, and the parents they go with. *)

Within(x, s) == \E i \in 1..Len(s) : s[i] = x
Once(s) == \A i, j \in 1..Len(s) : s[i] = s[j] => i = j

LEMMA SameList ==
  ASSUME NEW T, NEW s \in Seq(T), NEW t \in Seq(T), Len(s) = Len(t),
         \A i \in 1..Len(s) : s[i] = t[i]
  PROVE  s = t
OBVIOUS

LEMMA Joined ==
  ASSUME NEW T, NEW a \in Seq(T), NEW b \in Seq(T)
  PROVE  /\ a \o b \in Seq(T) /\ Len(a \o b) = Len(a) + Len(b)
         /\ \A i \in 1..Len(a) + Len(b) : (a \o b)[i] = IF i <= Len(a) THEN a[i] ELSE b[i - Len(a)]
OBVIOUS

\* Taking one place out of a list, and putting one in.
LEMMA PlaceRemoved ==
  ASSUME NEW T, NEW s \in Seq(T), NEW p \in 1..Len(s)
  PROVE  /\ V!RemoveAt(s, p) \in Seq(T) /\ Len(V!RemoveAt(s, p)) = Len(s) - 1
         /\ \A i \in 1..Len(s) - 1 : V!RemoveAt(s, p)[i] = IF i < p THEN s[i] ELSE s[i + 1]
<1> DEFINE a == SubSeq(s, 1, p - 1)
           b == SubSeq(s, p + 1, Len(s))
<1>1. /\ a \in Seq(T) /\ Len(a) = p - 1 /\ \A i \in 1..p - 1 : a[i] = s[i]
  OBVIOUS
<1>2. /\ b \in Seq(T) /\ Len(b) = Len(s) - p /\ \A i \in 1..Len(s) - p : b[i] = s[p + i]
  OBVIOUS
<1> HIDE DEF a, b
<1>3. /\ a \o b \in Seq(T) /\ Len(a \o b) = Len(s) - 1
      /\ \A i \in 1..Len(s) - 1 : (a \o b)[i] = IF i < p THEN a[i] ELSE b[i - (p - 1)]
  BY <1>1, <1>2
<1>4. ASSUME NEW i \in 1..Len(s) - 1
      PROVE  (a \o b)[i] = IF i < p THEN s[i] ELSE s[i + 1]
  <2>1. CASE i < p
    BY <1>1, <1>3, <2>1
  <2>2. CASE ~(i < p)
    <3>1. i - (p - 1) \in 1..Len(s) - p /\ p + (i - (p - 1)) = i + 1
      BY <2>2
    <3>2. QED
      BY <1>2, <1>3, <2>2, <3>1
  <2>3. QED
    BY <2>1, <2>2
<1>5. V!RemoveAt(s, p) = a \o b
  BY Zenon DEF V!RemoveAt, a, b
<1>6. QED
  BY <1>3, <1>4, <1>5

LEMMA PlaceInserted ==
  ASSUME NEW T, NEW s \in Seq(T), NEW p \in 1..Len(s) + 1, NEW c \in T
  PROVE  /\ V!InsertAt(s, p, c) \in Seq(T) /\ Len(V!InsertAt(s, p, c)) = Len(s) + 1
         /\ \A i \in 1..Len(s) + 1 :
               V!InsertAt(s, p, c)[i] = IF i < p THEN s[i] ELSE IF i = p THEN c ELSE s[i - 1]
<1> DEFINE a == SubSeq(s, 1, p - 1)
           m == <<c>>
           b == SubSeq(s, p, Len(s))
<1>1. /\ a \in Seq(T) /\ Len(a) = p - 1 /\ \A i \in 1..p - 1 : a[i] = s[i]
  OBVIOUS
<1>2. /\ b \in Seq(T) /\ Len(b) = Len(s) - p + 1 /\ \A i \in 1..Len(s) - p + 1 : b[i] = s[p + i - 1]
  OBVIOUS
<1>0. m \in Seq(T) /\ Len(m) = 1 /\ m[1] = c
  OBVIOUS
<1> HIDE DEF a, b, m
<1> DEFINE am == a \o m
<1>3. /\ am \in Seq(T) /\ Len(am) = p
      /\ \A i \in 1..p : am[i] = IF i < p THEN a[i] ELSE c
  <2>1. /\ am \in Seq(T) /\ Len(am) = Len(a) + Len(m)
        /\ \A i \in 1..Len(a) + Len(m) : am[i] = IF i <= Len(a) THEN a[i] ELSE m[i - Len(a)]
    BY <1>0, <1>1, Joined, Zenon
  <2> HIDE DEF am
  <2>2. Len(a) + Len(m) = p
    BY <1>0, <1>1
  <2>3. ASSUME NEW i \in 1..p
        PROVE  am[i] = IF i < p THEN a[i] ELSE c
    <3>1. CASE i < p
      <4>1. i <= Len(a) /\ i \in 1..Len(a) + Len(m)
        BY <1>1, <2>2, <3>1
      <4>2. am[i] = a[i]
        BY <2>1, <4>1
      <4>3. QED
        BY <3>1, <4>2
    <3>2. CASE ~(i < p)
      <4>1. i - Len(a) = 1 /\ ~(i <= Len(a)) /\ i \in 1..Len(a) + Len(m)
        BY <1>1, <2>2, <3>2
      <4>2. am[i] = m[i - Len(a)]
        BY <2>1, <4>1
      <4>3. QED
        BY <1>0, <3>2, <4>1, <4>2
    <3>3. QED
      BY <3>1, <3>2
  <2>4. QED
    BY <2>1, <2>2, <2>3
<1> HIDE DEF am
<1>4. /\ am \o b \in Seq(T) /\ Len(am \o b) = Len(s) + 1
      /\ \A i \in 1..Len(s) + 1 : (am \o b)[i] = IF i <= p THEN am[i] ELSE b[i - p]
  <2>1. /\ am \o b \in Seq(T) /\ Len(am \o b) = Len(am) + Len(b)
        /\ \A i \in 1..Len(am) + Len(b) :
              (am \o b)[i] = IF i <= Len(am) THEN am[i] ELSE b[i - Len(am)]
    BY <1>2, <1>3, Joined, Zenon
  <2>2. Len(am) + Len(b) = Len(s) + 1
    BY <1>2, <1>3
  <2>3. QED
    BY <1>3, <2>1, <2>2
<1>5. ASSUME NEW i \in 1..Len(s) + 1
      PROVE  (am \o b)[i] = IF i < p THEN s[i] ELSE IF i = p THEN c ELSE s[i - 1]
  <2>1. CASE i < p
    BY <1>1, <1>3, <1>4, <2>1
  <2>2. CASE i = p
    BY <1>3, <1>4, <2>2
  <2>3. CASE i > p
    <3>1. i - p \in 1..Len(s) - p + 1 /\ p + (i - p) - 1 = i - 1
      BY <2>3
    <3>2. QED
      BY <1>2, <1>4, <2>3, <3>1
  <2>4. i \in Nat /\ p \in Nat
    OBVIOUS
  <2>5. CASE i < p
    BY <2>1, <2>4, <2>5
  <2>6. CASE i = p
    BY <2>2, <2>4, <2>6
  <2>7. CASE i > p
    <3>1. ~(i < p) /\ i # p
      BY <2>4, <2>7
    <3>2. QED
      BY <2>3, <2>7, <3>1
  <2>8. i < p \/ i = p \/ i > p
    BY <2>4
  <2>9. QED
    BY <2>5, <2>6, <2>7, <2>8, Zenon
<1>6. V!InsertAt(s, p, c) = am \o b
  BY Zenon DEF V!InsertAt, a, b, am, m
<1>7. QED
  BY <1>4, <1>5, <1>6

LEMMA FirstRemoved ==
  ASSUME NEW T, NEW s \in Seq(T), NEW c
  PROVE  /\ ~Within(c, s) => V!RemoveFirst(s, c) = s
         /\ Within(c, s) => \E p \in 1..Len(s) : s[p] = c /\ V!RemoveFirst(s, c) = V!RemoveAt(s, p)
<1>1. ~Within(c, s) => V!RemoveFirst(s, c) = s
  BY DEF V!RemoveFirst, Within
<1>2. ASSUME Within(c, s)
      PROVE  \E p \in 1..Len(s) : s[p] = c /\ V!RemoveFirst(s, c) = V!RemoveAt(s, p)
  <2> DEFINE I == {i \in 1..Len(s) : s[i] = c}
             p == CHOOSE x \in I : \A y \in I : x <= y
  <2>1. I # {} /\ I \subseteq Nat
    BY <1>2 DEF Within
  <2>2. V!RemoveFirst(s, c) = V!RemoveAt(s, p)
    BY <1>2, <2>1 DEF V!RemoveFirst, V!SelectInSeq, V!Min, Within
  <2> HIDE DEF I
  <2>3. p \in I
    BY <2>1, LeastOfNaturals
  <2>4. QED
    BY <2>2, <2>3 DEF I
<1>3. QED
  BY <1>1, <1>2

LEMMA RemovedOnce ==
  ASSUME NEW T, NEW s \in Seq(T), Once(s), NEW c
  PROVE  /\ V!RemoveFirst(s, c) \in Seq(T) /\ Once(V!RemoveFirst(s, c))
         /\ \A x : Within(x, V!RemoveFirst(s, c)) <=> x # c /\ Within(x, s)
<1>1. CASE ~Within(c, s)
  <2>1. V!RemoveFirst(s, c) = s
    BY <1>1, FirstRemoved
  <2>2. QED
    BY <1>1, <2>1
<1>2. CASE Within(c, s)
  <2>1. PICK p \in 1..Len(s) : s[p] = c /\ V!RemoveFirst(s, c) = V!RemoveAt(s, p)
    BY <1>2, FirstRemoved
  <2> DEFINE r == V!RemoveAt(s, p)
  <2>2. /\ r \in Seq(T) /\ Len(r) = Len(s) - 1
        /\ \A i \in 1..Len(s) - 1 : r[i] = IF i < p THEN s[i] ELSE s[i + 1]
    BY PlaceRemoved
  <2> HIDE DEF r
  <2>3. Once(r)
    <3>1. SUFFICES ASSUME NEW i \in 1..Len(r), NEW j \in 1..Len(r), r[i] = r[j]
                   PROVE  i = j
      BY DEF Once
    <3> DEFINE at(n) == IF n < p THEN n ELSE n + 1
    <3>2. /\ r[i] = s[at(i)] /\ at(i) \in 1..Len(s)
          /\ r[j] = s[at(j)] /\ at(j) \in 1..Len(s)
      BY <2>2
    <3>3. at(i) = at(j)
      BY <3>1, <3>2 DEF Once
    <3>4. QED
      BY <3>3
  <2>4. ASSUME NEW x
        PROVE  Within(x, r) <=> x # c /\ Within(x, s)
    <3>1. ASSUME NEW i \in 1..Len(r), r[i] = x
          PROVE  x # c /\ Within(x, s)
      <4> DEFINE at == IF i < p THEN i ELSE i + 1
      <4>1. x = s[at] /\ at \in 1..Len(s) /\ at # p
        BY <2>2, <3>1
      <4> HIDE DEF at
      <4>2. QED
        BY <2>1, <4>1 DEF Once, Within
    <3>2. ASSUME NEW i \in 1..Len(s), s[i] = x, x # c
          PROVE  Within(x, r)
      <4> DEFINE at == IF i < p THEN i ELSE i - 1
      <4>1. i # p
        BY <2>1, <3>2
      <4>2. at \in 1..Len(r) /\ r[at] = x
        BY <2>2, <3>2, <4>1
      <4> HIDE DEF at
      <4>3. QED
        BY <4>2 DEF Within
    <3>3. QED
      BY <3>1, <3>2 DEF Within
  <2>5. QED
    BY <2>1, <2>2, <2>3, <2>4 DEF r
<1>3. QED
  BY <1>1, <1>2

LEMMA InsertedOnce ==
  ASSUME NEW T, NEW s \in Seq(T), Once(s), NEW c \in T, ~Within(c, s), NEW p \in 1..Len(s) + 1
  PROVE  /\ V!InsertAt(s, p, c) \in Seq(T) /\ Once(V!InsertAt(s, p, c))
         /\ \A x : Within(x, V!InsertAt(s, p, c)) <=> x = c \/ Within(x, s)
         /\ V!RemoveFirst(V!InsertAt(s, p, c), c) = s
<1> DEFINE t == V!InsertAt(s, p, c)
<1>1. /\ t \in Seq(T) /\ Len(t) = Len(s) + 1
      /\ \A i \in 1..Len(s) + 1 : t[i] = IF i < p THEN s[i] ELSE IF i = p THEN c ELSE s[i - 1]
  BY PlaceInserted
<1> HIDE DEF t
<1>2. \A i \in 1..Len(s) : s[i] # c
  BY DEF Within
<1>3. ASSUME NEW i \in 1..Len(t), t[i] = c
      PROVE  i = p
  <2>1. CASE i < p
    BY <1>1, <1>2, <1>3, <2>1
  <2>2. CASE i > p
    <3>1. t[i] = s[i - 1] /\ i - 1 \in 1..Len(s)
      BY <1>1, <2>2
    <3>2. QED
      BY <1>2, <1>3, <3>1
  <2>3. QED
    BY <2>1, <2>2
<1>4. Once(t)
  <2>1. SUFFICES ASSUME NEW i \in 1..Len(t), NEW j \in 1..Len(t), t[i] = t[j]
                 PROVE  i = j
    BY DEF Once
  <2> DEFINE at(n) == IF n < p THEN n ELSE n - 1
  <2>2. CASE i = p \/ j = p
    BY <1>1, <1>3, <2>1, <2>2
  <2>3. CASE i # p /\ j # p
    <3>1. /\ t[i] = s[at(i)] /\ at(i) \in 1..Len(s)
          /\ t[j] = s[at(j)] /\ at(j) \in 1..Len(s)
      BY <1>1, <2>3
    <3>2. at(i) = at(j)
      BY <2>1, <3>1 DEF Once
    <3>3. QED
      BY <2>3, <3>2
  <2>4. QED
    BY <2>2, <2>3
<1>5. ASSUME NEW x
      PROVE  Within(x, t) <=> x = c \/ Within(x, s)
  <2>1. ASSUME NEW i \in 1..Len(t), t[i] = x
        PROVE  x = c \/ Within(x, s)
    <3>1. CASE i = p
      BY <1>1, <2>1, <3>1
    <3>2. CASE i # p
      <4> DEFINE at == IF i < p THEN i ELSE i - 1
      <4>1. at \in 1..Len(s) /\ s[at] = x
        BY <1>1, <2>1, <3>2
      <4> HIDE DEF at
      <4>2. QED
        BY <4>1 DEF Within
    <3>3. QED
      BY <3>1, <3>2
  <2>2. ASSUME NEW i \in 1..Len(s), s[i] = x
        PROVE  Within(x, t)
    <3> DEFINE at == IF i < p THEN i ELSE i + 1
    <3>1. at \in 1..Len(t) /\ t[at] = x
      BY <1>1, <2>2
    <3> HIDE DEF at
    <3>2. QED
      BY <3>1 DEF Within
  <2>3. Within(c, t)
    BY <1>1 DEF Within
  <2>4. QED
    BY <2>1, <2>2, <2>3 DEF Within
<1>6. V!RemoveFirst(t, c) = s
  <2>1. PICK q \in 1..Len(t) : t[q] = c /\ V!RemoveFirst(t, c) = V!RemoveAt(t, q)
    <3>1. Within(c, t)
      BY <1>5
    <3>2. QED
      BY <1>1, <3>1, FirstRemoved
  <2>2. q = p
    BY <1>3, <2>1
  <2> DEFINE r == V!RemoveAt(t, p)
  <2>3. /\ r \in Seq(T) /\ Len(r) = Len(t) - 1
        /\ \A i \in 1..Len(t) - 1 : r[i] = IF i < p THEN t[i] ELSE t[i + 1]
    BY <1>1, <2>1, <2>2, PlaceRemoved
  <2> HIDE DEF r
  <2>4. Len(r) = Len(s)
    BY <1>1, <2>3
  <2>5. ASSUME NEW i \in 1..Len(s)
        PROVE  r[i] = s[i]
    <3>1. CASE i < p
      <4>1. r[i] = t[i]
        BY <1>1, <2>3, <3>1
      <4>2. t[i] = s[i]
        BY <1>1, <3>1
      <4>3. QED
        BY <4>1, <4>2
    <3>2. CASE ~(i < p)
      <4>1. r[i] = t[i + 1]
        BY <1>1, <2>3, <3>2
      <4>2. i + 1 \in 1..Len(s) + 1 /\ ~(i + 1 < p) /\ i + 1 # p /\ (i + 1) - 1 = i
        BY <3>2
      <4>3. t[i + 1] = s[i]
        BY <1>1, <4>2
      <4>4. QED
        BY <4>1, <4>3
    <3>3. QED
      BY <3>1, <3>2
  <2>6. r = s
    BY <2>3, <2>4, <2>5, SameList
  <2>7. QED
    BY <2>1, <2>2, <2>6 DEF r
<1>7. QED
  BY <1>1, <1>4, <1>5, <1>6 DEF t

\* X is what the rest of the state may be.
TreeType(X) ==
  [children : [Views -> Seq(Views)], parent : [Views -> Views \cup {NoView}],
   width : X, animated : X, changed : X, ret : X]

Agree(t) ==
  \A v \in Views : /\ Once(t.children[v])
                   /\ \A c \in Views : Within(c, t.children[v]) <=> t.parent[c] = v

IsTree(t) == (\E X : t \in TreeType(X)) /\ Agree(t)

MovesOnly(t, u, moved) ==
  /\ \A c \in Views \ {moved} : u.parent[c] = t.parent[c]
  /\ \A v \in Views : V!RemoveFirst(u.children[v], moved) = V!RemoveFirst(t.children[v], moved)

TreeMoves(t, u) == IsTree(u) /\ \E moved \in Views : MovesOnly(t, u, moved)

LEMMA NewTreeIsOne == IsTree(V!NewTree)
<1> DEFINE none == <<>>
           children == [v \in Views |-> none]
           parent == [v \in Views |-> NoView]
           a == [v \in Views |-> 0]
           b == [v \in Views |-> FALSE]
           t == [children |-> children, parent |-> parent, width |-> a, animated |-> b,
                 changed |-> {}, ret |-> "ok"]
<1>1. V!NewTree = t
  BY Zenon DEF V!NewTree
<1>2. none \in Seq(Views) /\ ~(\E i \in 1..Len(none) : TRUE)
  <2>1. none \in Seq(Views) /\ Len(none) = 0
    OBVIOUS
  <2> HIDE DEF none
  <2>2. QED
    BY <2>1
<1> HIDE DEF none
<1>3. /\ children \in [Views -> Seq(Views)] /\ parent \in [Views -> Views \cup {NoView}]
      /\ \A v \in Views : children[v] = none /\ parent[v] = NoView
  BY <1>2
<1> HIDE DEF children, parent, a, b
<1>4. t \in TreeType({a, b, {}, "ok"}) /\ t.children = children /\ t.parent = parent
  BY <1>3 DEF TreeType
<1> HIDE DEF t
<1>5. Agree(t)
  BY <1>2, <1>3, <1>4, ViewAssumption DEF Agree, Once, Within
<1>6. QED
  BY <1>1, <1>4, <1>5 DEF IsTree

\* Neither half of the tree changes.
LEMMA TreeStays ==
  ASSUME NEW t, IsTree(t), NEW u, NEW X, u \in TreeType(X),
         u.children = t.children, u.parent = t.parent, NEW v \in Views
  PROVE  TreeMoves(t, u)
<1>1. IsTree(u)
  BY DEF IsTree, Agree
<1>2. MovesOnly(t, u, v)
  BY DEF MovesOnly
<1>3. QED
  BY <1>1, <1>2 DEF TreeMoves

LEMMA TreeRefuses ==
  ASSUME NEW t, IsTree(t), NEW e, NEW v \in Views
  PROVE  TreeMoves(t, [t EXCEPT !.ret = e])
<1>1. PICK X : t \in TreeType(X)
  BY DEF IsTree
<1> DEFINE u == [t EXCEPT !.ret = e]
<1>2. u \in TreeType(X \cup {e}) /\ u.children = t.children /\ u.parent = t.parent
  BY <1>1 DEF TreeType
<1> HIDE DEF u
<1>3. TreeMoves(t, u)
  BY <1>2, TreeStays
<1>4. QED
  BY <1>3 DEF u

LEMMA ViewResized ==
  ASSUME NEW t, IsTree(t), NEW v \in Views, NEW width, NEW animate
  PROVE  TreeMoves(t, V!SetBounds(t, v, width, animate))
<1>1. PICK X : t \in TreeType(X)
  BY DEF IsTree
<1> DEFINE widths == [t.width EXCEPT ![v] = width]
           animated == [t.animated EXCEPT ![v] = animate]
           changed == t.changed \cup {v}
           u == [t EXCEPT !.width = widths, !.animated = animated, !.changed = changed, !.ret = "ok"]
           same == t.width[v] = width /\ t.animated[v] = animate
<1>2. V!SetBounds(t, v, width, animate)
        = IF width < 0 THEN [t EXCEPT !.ret = "ErrInvalidBounds"]
          ELSE IF same THEN [t EXCEPT !.ret = "ok"] ELSE u
  BY Zenon DEF V!SetBounds
<1> HIDE DEF widths, animated, changed, same
<1>3. /\ u \in TreeType(X \cup {widths, animated, changed, "ok"})
      /\ u.children = t.children /\ u.parent = t.parent
  BY <1>1 DEF TreeType
<1> HIDE DEF u
<1>4. TreeMoves(t, u)
  BY <1>3, TreeStays
<1>5. TreeMoves(t, [t EXCEPT !.ret = "ErrInvalidBounds"]) /\ TreeMoves(t, [t EXCEPT !.ret = "ok"])
  BY TreeRefuses
<1>6. QED
  BY <1>2, <1>4, <1>5, Zenon

\* One view changes its parent, and is in the list of the new one.
LEMMA TreeRelinked ==
  ASSUME NEW t, IsTree(t), NEW c \in Views, NEW u, NEW X, u \in TreeType(X),
         MovesOnly(t, u, c),
         \A v \in Views : Once(u.children[v]),
         \A v \in Views : \A x \in Views :
             Within(x, u.children[v]) <=>
                 IF x = c THEN u.parent[c] = v ELSE Within(x, t.children[v])
  PROVE  TreeMoves(t, u)
<1>1. ASSUME NEW v \in Views, NEW x \in Views
      PROVE  Within(x, u.children[v]) <=> u.parent[x] = v
  <2>1. CASE x = c
    BY <2>1
  <2>2. CASE x # c
    BY <2>2 DEF IsTree, Agree, MovesOnly
  <2>3. QED
    BY <2>1, <2>2
<1>2. QED
  BY <1>1 DEF TreeMoves, IsTree, Agree

\* A view that nobody holds, the rest of the tree where it was.
Frees(t, u, c) ==
  /\ IsTree(u) /\ u.parent[c] = NoView
  /\ \A v \in Views : u.children[v] = V!RemoveFirst(t.children[v], c)
  /\ \A x \in Views \ {c} : u.parent[x] = t.parent[x]

LEMMA ChildRemoved ==
  ASSUME NEW t, IsTree(t), NEW p \in Views, NEW c \in Views, Within(c, t.children[p])
  PROVE  Frees(t, V!RemoveChild(t, p, c), c) /\ TreeMoves(t, V!RemoveChild(t, p, c))
<1>1. PICK X : t \in TreeType(X)
  BY DEF IsTree
<1> DEFINE without == V!RemoveFirst(t.children[p], c)
           children == [t.children EXCEPT ![p] = without]
           parent == [t.parent EXCEPT ![c] = NoView]
           u == [t EXCEPT !.children = children, !.parent = parent]
<1>2. V!RemoveChild(t, p, c) = u
  <2>1. V!Contains(t.children[p], c) /\ c # NoView
    BY ViewAssumption DEF V!Contains, Within
  <2>2. QED
    BY <2>1, Zenon DEF V!RemoveChild
<1>3. /\ \A v \in Views : t.children[v] \in Seq(Views) /\ Once(t.children[v])
      /\ t.parent[c] = p
      /\ \A v \in Views : v # p => ~Within(c, t.children[v])
  BY <1>1 DEF TreeType, IsTree, Agree
<1>4. /\ without \in Seq(Views) /\ Once(without)
      /\ \A x : Within(x, without) <=> x # c /\ Within(x, t.children[p])
  BY <1>3, RemovedOnce
<1>5. \A v \in Views : v # p => V!RemoveFirst(t.children[v], c) = t.children[v]
  BY <1>3, FirstRemoved
<1>6. without = V!RemoveFirst(t.children[p], c)
  OBVIOUS
<1> HIDE DEF without
<1>7. /\ children \in [Views -> Seq(Views)] /\ parent \in [Views -> Views \cup {NoView}]
      /\ \A v \in Views : children[v] = IF v = p THEN without ELSE t.children[v]
      /\ parent[c] = NoView /\ \A x \in Views \ {c} : parent[x] = t.parent[x]
  BY <1>1, <1>4 DEF TreeType
<1> HIDE DEF children, parent
<1>8. u \in TreeType(X) /\ u.children = children /\ u.parent = parent
  BY <1>1, <1>7 DEF TreeType
<1> HIDE DEF u
<1>9. \A v \in Views : u.children[v] = V!RemoveFirst(t.children[v], c)
  BY <1>5, <1>6, <1>7, <1>8
<1>10. MovesOnly(t, u, c)
  <2>1. ASSUME NEW v \in Views
        PROVE  V!RemoveFirst(u.children[v], c) = V!RemoveFirst(t.children[v], c)
    <3>1. u.children[v] \in Seq(Views) /\ ~Within(c, u.children[v])
      BY <1>3, <1>9, RemovedOnce
    <3>2. V!RemoveFirst(u.children[v], c) = u.children[v]
      BY <3>1, FirstRemoved
    <3>3. QED
      BY <1>9, <3>2
  <2>2. QED
    BY <1>7, <1>8, <2>1 DEF MovesOnly
<1>11. /\ \A v \in Views : Once(u.children[v])
       /\ \A v \in Views : \A x \in Views :
             Within(x, u.children[v]) <=>
                 IF x = c THEN u.parent[c] = v ELSE Within(x, t.children[v])
  <2>1. u.parent[c] = NoView
    BY <1>7, <1>8
  <2>2. ASSUME NEW v \in Views
        PROVE  /\ Once(u.children[v])
               /\ \A x : Within(x, u.children[v]) <=> x # c /\ Within(x, t.children[v])
    BY <1>3, <1>9, RemovedOnce
  <2>3. QED
    BY <2>1, <2>2, ViewAssumption
<1>12. TreeMoves(t, u)
  BY <1>8, <1>10, <1>11, TreeRelinked
<1>13. Frees(t, u, c)
  BY <1>7, <1>8, <1>9, <1>12 DEF Frees, TreeMoves
<1>14. QED
  BY <1>2, <1>12, <1>13

LEMMA ChildInserted ==
  ASSUME NEW t, NEW f, IsTree(t), NEW c \in Views, Frees(t, f, c),
         NEW v \in Views, NEW at \in 0..Len(f.children[v])
  PROVE  TreeMoves(t, [f EXCEPT !.children[v] = V!InsertAt(f.children[v], at + 1, c),
                                !.parent[c] = v, !.ret = "ok"])
<1>1. PICK X : f \in TreeType(X)
  BY DEF Frees, IsTree
<1> DEFINE list == V!InsertAt(f.children[v], at + 1, c)
           children == [f.children EXCEPT ![v] = list]
           parent == [f.parent EXCEPT ![c] = v]
           u == [f EXCEPT !.children = children, !.parent = parent, !.ret = "ok"]
<1>2. [f EXCEPT !.children[v] = V!InsertAt(f.children[v], at + 1, c),
                !.parent[c] = v, !.ret = "ok"] = u
  BY Zenon
<1>3. \A w \in Views : /\ f.children[w] \in Seq(Views) /\ Once(f.children[w])
                        /\ ~Within(c, f.children[w])
                        /\ V!RemoveFirst(f.children[w], c) = f.children[w]
  <2>1. f.parent[c] = NoView /\ Agree(f)
    BY DEF Frees, IsTree
  <2>2. ASSUME NEW w \in Views
        PROVE  /\ f.children[w] \in Seq(Views) /\ Once(f.children[w])
               /\ ~Within(c, f.children[w])
    BY <1>1, <2>1, ViewAssumption DEF TreeType, Agree
  <2>3. QED
    BY <2>2, FirstRemoved
<1>4. at + 1 \in 1..Len(f.children[v]) + 1
  OBVIOUS
<1>5. /\ list \in Seq(Views) /\ Once(list)
      /\ \A x : Within(x, list) <=> x = c \/ Within(x, f.children[v])
      /\ V!RemoveFirst(list, c) = f.children[v]
  BY <1>3, <1>4, InsertedOnce
<1> HIDE DEF list
<1>6. /\ children \in [Views -> Seq(Views)] /\ parent \in [Views -> Views \cup {NoView}]
      /\ \A w \in Views : children[w] = IF w = v THEN list ELSE f.children[w]
      /\ parent[c] = v /\ \A x \in Views \ {c} : parent[x] = f.parent[x]
  BY <1>1, <1>5 DEF TreeType
<1> HIDE DEF children, parent
<1>7. u \in TreeType(X \cup {"ok"}) /\ u.children = children /\ u.parent = parent
  BY <1>1, <1>6 DEF TreeType
<1> HIDE DEF u
<1>8. MovesOnly(t, u, c)
  <2>1. ASSUME NEW w \in Views
        PROVE  V!RemoveFirst(u.children[w], c) = V!RemoveFirst(t.children[w], c)
    <3>1. V!RemoveFirst(u.children[w], c) = f.children[w]
      BY <1>3, <1>5, <1>6, <1>7
    <3>2. QED
      BY <3>1 DEF Frees
  <2>2. QED
    BY <1>6, <1>7, <2>1 DEF MovesOnly, Frees
<1>9. ASSUME NEW w \in Views, NEW x \in Views
      PROVE  /\ Once(u.children[w])
             /\ Within(x, u.children[w]) <=>
                 IF x = c THEN u.parent[c] = w ELSE Within(x, t.children[w])
  <2>1. Within(x, f.children[w]) <=> x # c /\ Within(x, t.children[w])
    <3>1. PICK Y : t \in TreeType(Y)
      BY DEF IsTree
    <3>2. t.children[w] \in Seq(Views) /\ Once(t.children[w])
      BY <3>1 DEF TreeType, IsTree, Agree
    <3>3. f.children[w] = V!RemoveFirst(t.children[w], c)
      BY DEF Frees
    <3>4. QED
      BY <3>2, <3>3, RemovedOnce
  <2>2. CASE w = v
    BY <1>5, <1>6, <1>7, <2>1, <2>2
  <2>3. CASE w # v
    BY <1>3, <1>6, <1>7, <2>1, <2>3
  <2>4. QED
    BY <2>2, <2>3
<1>10. TreeMoves(t, u)
  BY <1>7, <1>8, <1>9, TreeRelinked
<1>11. QED
  BY <1>2, <1>10

LEMMA FreedAlready ==
  ASSUME NEW t, IsTree(t), NEW c \in Views, t.parent[c] = NoView
  PROVE  Frees(t, t, c)
<1>1. ASSUME NEW v \in Views
      PROVE  t.children[v] = V!RemoveFirst(t.children[v], c)
  <2>1. PICK X : t \in TreeType(X)
    BY DEF IsTree
  <2>2. t.children[v] \in Seq(Views) /\ ~Within(c, t.children[v])
    BY <2>1, ViewAssumption DEF TreeType, IsTree, Agree
  <2>3. QED
    BY <2>2, FirstRemoved
<1>2. QED
  BY <1>1 DEF Frees

LEMMA ChildAdded ==
  ASSUME NEW t, IsTree(t), NEW v \in Views, NEW c \in Views \cup {NoView}, NEW index \in Int
  PROVE  TreeMoves(t, V!AddChild(t, v, c, index))
<1> DEFINE f == IF t.parent[c] = NoView THEN t ELSE V!RemoveChild(t, t.parent[c], c)
           others == V!RemoveFirst(f.children[v], c)
           at == V!Clamp(index, Len(others))
           refused == [t EXCEPT !.ret = "ErrInvalidChild"]
           u == [f EXCEPT !.children[v] = V!InsertAt(others, at + 1, c), !.parent[c] = v,
                          !.ret = "ok"]
<1>1. V!AddChild(t, v, c, index) = IF c = NoView \/ c = v THEN refused ELSE u
  BY Zenon DEF V!AddChild
<1>2. TreeMoves(t, refused)
  BY TreeRefuses
<1> HIDE DEF refused
<1>3. ASSUME c # NoView, c # v
      PROVE  TreeMoves(t, u)
  <2>1. c \in Views
    BY <1>3
  <2>2. Frees(t, f, c)
    <3>1. CASE t.parent[c] = NoView
      BY <2>1, <3>1, FreedAlready
    <3>2. CASE t.parent[c] # NoView
      <4>1. PICK X : t \in TreeType(X)
        BY DEF IsTree
      <4>2. t.parent[c] \in Views
        BY <2>1, <3>2, <4>1 DEF TreeType
      <4>3. Within(c, t.children[t.parent[c]])
        BY <2>1, <4>2 DEF IsTree, Agree
      <4>4. QED
        BY <2>1, <3>2, <4>2, <4>3, ChildRemoved
    <3>3. QED
      BY <3>1, <3>2
  <2> HIDE DEF f
  <2>3. f.children[v] \in Seq(Views) /\ ~Within(c, f.children[v])
    <3>1. f.parent[c] = NoView /\ Agree(f) /\ \E X : f \in TreeType(X)
      BY <2>2 DEF Frees, IsTree
    <3>2. QED
      BY <2>1, <3>1, ViewAssumption DEF TreeType, Agree
  <2>4. others = f.children[v]
    BY <2>3, FirstRemoved
  <2>5. at \in 0..Len(f.children[v])
    BY <2>3, <2>4 DEF V!Clamp
  <2> HIDE DEF others, at
  <2>6. TreeMoves(t, [f EXCEPT !.children[v] = V!InsertAt(f.children[v], at + 1, c),
                                !.parent[c] = v, !.ret = "ok"])
    BY <2>1, <2>2, <2>5, ChildInserted
  <2>7. u = [f EXCEPT !.children[v] = V!InsertAt(f.children[v], at + 1, c),
                       !.parent[c] = v, !.ret = "ok"]
    BY <2>4, Zenon
  <2>8. QED
    BY <2>6, <2>7, Zenon
<1> HIDE DEF u
<1>4. QED
  BY <1>1, <1>2, <1>3, Zenon

LEMMA ChildTaken ==
  ASSUME NEW t, IsTree(t), NEW v \in Views, NEW c \in Views \cup {NoView}
  PROVE  TreeMoves(t, V!RemoveChild(t, v, c))
<1>1. CASE c \in Views /\ Within(c, t.children[v])
  BY <1>1, ChildRemoved
<1>2. CASE ~(c \in Views /\ Within(c, t.children[v]))
  <2>1. PICK X : t \in TreeType(X)
    BY DEF IsTree
  <2>2. t.children[v] \in Seq(Views)
    BY <2>1 DEF TreeType
  <2>3. c = NoView \/ ~V!Contains(t.children[v], c)
    BY <1>2, <2>2 DEF V!Contains, Within
  <2>4. V!RemoveChild(t, v, c) = t
    BY <2>3 DEF V!RemoveChild
  <2>5. TreeMoves(t, t)
    BY <2>1, TreeStays
  <2>6. QED
    BY <2>4, <2>5
<1>3. QED
  BY <1>1, <1>2

LEMMA TreeStep ==
  ASSUME IsTree(object), [V!Next]_object
  PROVE  IsTree(object') /\ [V!OneMoves]_object
<1>1. CASE UNCHANGED object
  BY <1>1
<1>2. CASE V!Next
  <2>1. TreeMoves(object, object')
    <3>1. CASE \E v \in Views, width \in Widths, animate \in BOOLEAN :
                   object' = V!SetBounds(object, v, width, animate)
      BY <3>1, ViewResized
    <3>2. CASE \E v \in Views, c \in Views \cup {NoView}, index \in -1..1 :
                   object' = V!AddChild(object, v, c, index)
      <4>1. PICK v \in Views, c \in Views \cup {NoView}, index \in -1..1 :
                   object' = V!AddChild(object, v, c, index)
        BY <3>2
      <4>2. index \in Int
        OBVIOUS
      <4>3. QED
        BY <4>1, <4>2, ChildAdded
    <3>3. CASE \E v \in Views, c \in Views : object' = V!AddLast(object, v, c)
      <4>1. PICK v \in Views, c \in Views : object' = V!AddLast(object, v, c)
        BY <3>3
      <4>2. PICK X : object \in TreeType(X)
        BY DEF IsTree
      <4>3. Len(object.children[v]) \in Int
        BY <4>2 DEF TreeType
      <4>4. object' = V!AddChild(object, v, c, Len(object.children[v]))
        BY <4>1 DEF V!AddLast
      <4>5. QED
        BY <4>3, <4>4, ChildAdded
    <3>4. CASE \E v \in Views, c \in Views \cup {NoView} : object' = V!RemoveChild(object, v, c)
      BY <3>4, ChildTaken
    <3>5. QED
      BY <1>2, <3>1, <3>2, <3>3, <3>4, Zenon DEF V!Next
  <2>2. QED
    BY <2>1, Zenon DEF TreeMoves, MovesOnly, V!OneMoves
<1>3. QED
  BY <1>1, <1>2

\* A view that is once in a list is there at one place.
LEMMA ParentsKept ==
  ASSUME IsTree(object)
  PROVE  V!ParentsAgree
<1>1. SUFFICES ASSUME NEW v \in Views, NEW c \in Views
               PROVE  V!Cardinality({i \in DOMAIN object.children[v] : object.children[v][i] = c})
                         = IF object.parent[c] = v THEN 1 ELSE 0
  BY Zenon DEF V!ParentsAgree
<1> DEFINE s == object.children[v]
           places == {i \in DOMAIN s : s[i] = c}
<1>2. PICK X : object \in TreeType(X)
  BY DEF IsTree
<1>3. s \in Seq(Views) /\ Once(s) /\ (Within(c, s) <=> object.parent[c] = v)
  BY <1>2 DEF TreeType, IsTree, Agree
<1> HIDE DEF s
<1>4. CASE Within(c, s)
  <2>1. PICK p \in 1..Len(s) : s[p] = c
    BY <1>4 DEF Within
  <2>2. places = {p}
    BY <1>3, <2>1 DEF Once
  <2>3. V!Cardinality({p}) = 1
    BY FS_Singleton DEF V!Cardinality, Cardinality
  <2>4. QED
    BY <1>3, <1>4, <2>2, <2>3 DEF s
<1>5. CASE ~Within(c, s)
  <2>1. places = {}
    BY <1>3, <1>5 DEF Within
  <2>2. V!Cardinality({}) = 0
    BY FS_EmptySet DEF V!Cardinality, Cardinality
  <2>3. QED
    BY <1>3, <1>5, <2>1, <2>2 DEF s
<1>6. QED
  BY <1>4, <1>5

-----------------------------------------------------------------------------
(* Archives: where the header says that the contents are. *)

IsData(map) == \A f \in DOMAIN map : map[f] \in Seq(Int)

\* File f holds s: at its offset in the content, or beside the archive.
Holds(h, c, s, f) ==
  \E o \in Nat : /\ f \in DOMAIN h /\ h[f] = Z!FileNode(o, Len(s), FALSE)
                 /\ o + Len(s) <= Len(c) /\ \A i \in 1..Len(s) : c[o + i] = s[i]

HoldsBeside(h, b, s, f) ==
  /\ f \in DOMAIN h /\ \E o, n : h[f] = Z!FileNode(o, n, TRUE)
  /\ f \in DOMAIN b /\ b[f] = s

Packs(sofar, map, fs) ==
  /\ sofar.content \in Seq(Int)
  /\ \A f \in fs : Holds(sofar.header, sofar.content, map[f], f)

LEMMA HeaderAdded ==
  ASSUME NEW h, NEW path, NEW node
  PROVE  /\ path \in DOMAIN Z!AddHeaderFile(h, path, node)
         /\ Z!AddHeaderFile(h, path, node)[path] = node
         /\ \A f \in DOMAIN h : f # path /\ ~Z!Under(f, path) =>
               /\ f \in DOMAIN Z!AddHeaderFile(h, path, node)
               /\ Z!AddHeaderFile(h, path, node)[f] = h[f]
<1> DEFINE kept == {p \in DOMAIN h : p # path /\ ~Z!Under(p, path)}
           dirs == {SubSeq(path, 1, n) : n \in 1..Len(path) - 1}
           g == [p \in kept \cup dirs \cup {path} |->
                    IF p = path THEN node ELSE IF p \in kept THEN h[p] ELSE Z!DirNode]
<1>1. Z!AddHeaderFile(h, path, node) = g
  BY Zenon DEF Z!AddHeaderFile
<1>2. \A f \in DOMAIN h : f # path /\ ~Z!Under(f, path) => f \in kept /\ f # path
  OBVIOUS
<1> HIDE DEF kept, dirs
<1>3. /\ path \in DOMAIN g /\ g[path] = node
      /\ \A f \in kept : f # path => f \in DOMAIN g /\ g[f] = h[f]
  OBVIOUS
<1> HIDE DEF g
<1>4. QED
  BY <1>1, <1>2, <1>3

PackOne(map, sofar, path) ==
  [header  |-> Z!AddHeaderFile(sofar.header, path,
                   Z!FileNode(Len(sofar.content), Len(map[path]), FALSE)),
   content |-> sofar.content \o map[path]]

LEMMA OnePacked ==
  ASSUME NEW map, IsData(map), NEW sofar, NEW fs, Packs(sofar, map, fs),
         NEW path \in DOMAIN map, \A f \in fs : f # path /\ ~Z!Under(f, path)
  PROVE  Packs(PackOne(map, sofar, path), map, fs \cup {path})
<1> DEFINE c == sofar.content
           s == map[path]
           h == sofar.header
           node == Z!FileNode(Len(c), Len(s), FALSE)
           d == c \o s
           g == Z!AddHeaderFile(h, path, node)
           r == PackOne(map, sofar, path)
<1>1. r.header = g /\ r.content = d
  BY DEF PackOne
<1>2. c \in Seq(Int) /\ s \in Seq(Int)
  BY DEF Packs, IsData
<1>4. \A f \in fs : Holds(h, c, map[f], f)
  BY DEF Packs
<1>5. node = Z!FileNode(Len(c), Len(s), FALSE) /\ s = map[path]
  OBVIOUS
<1>10. r = PackOne(map, sofar, path)
  OBVIOUS
<1> HIDE DEF r, h, c, s, node
<1>11. /\ path \in DOMAIN Z!AddHeaderFile(h, path, node)
       /\ Z!AddHeaderFile(h, path, node)[path] = node
       /\ \A f \in DOMAIN h : f # path /\ ~Z!Under(f, path) =>
             /\ f \in DOMAIN Z!AddHeaderFile(h, path, node)
             /\ Z!AddHeaderFile(h, path, node)[f] = h[f]
  BY HeaderAdded
<1>3. /\ path \in DOMAIN g /\ g[path] = node
      /\ \A f \in DOMAIN h : f # path /\ ~Z!Under(f, path) => f \in DOMAIN g /\ g[f] = h[f]
  BY <1>11, Zenon DEF g
<1> HIDE DEF g
<1>6. /\ d \in Seq(Int) /\ Len(d) = Len(c) + Len(s)
      /\ \A i \in 1..Len(c) + Len(s) : d[i] = IF i <= Len(c) THEN c[i] ELSE s[i - Len(c)]
  BY <1>2, Joined
<1> HIDE DEF d
<1>7. Holds(g, d, s, path)
  <2>1. ASSUME NEW i \in 1..Len(s)
        PROVE  d[Len(c) + i] = s[i]
    <3>1. /\ Len(c) + i \in 1..Len(c) + Len(s) /\ ~(Len(c) + i <= Len(c))
          /\ (Len(c) + i) - Len(c) = i
      BY <1>2
    <3>2. QED
      BY <1>6, <3>1
  <2>2. Len(c) \in Nat /\ Len(c) + Len(s) <= Len(d)
    BY <1>2, <1>6
  <2>3. QED
    BY <1>3, <1>5, <2>1, <2>2 DEF Holds
<1>8. ASSUME NEW f \in fs
      PROVE  Holds(g, d, map[f], f)
  <2>1. f # path /\ ~Z!Under(f, path)
    OBVIOUS
  <2> DEFINE q == map[f]
  <2>2. PICK o \in Nat : /\ f \in DOMAIN h /\ h[f] = Z!FileNode(o, Len(q), FALSE)
                         /\ o + Len(q) <= Len(c) /\ \A i \in 1..Len(q) : c[o + i] = q[i]
    BY <1>4 DEF Holds
  <2>3. f \in DOMAIN g /\ g[f] = Z!FileNode(o, Len(q), FALSE)
    BY <1>3, <2>1, <2>2
  <2>4. q \in Seq(Int) \/ f \notin DOMAIN map
    BY DEF IsData
  <2>5. CASE Len(q) \in Nat
    <3> HIDE DEF q
    <3>1. ASSUME NEW i \in 1..Len(q)
          PROVE  d[o + i] = q[i]
      <4>1. o + i \in 1..Len(c) + Len(s) /\ o + i <= Len(c)
        BY <1>2, <2>2, <2>5
      <4>2. QED
        BY <1>6, <2>2, <4>1
    <3>2. o + Len(q) <= Len(d)
      BY <1>2, <1>6, <2>2, <2>5
    <3>3. QED
      BY <2>3, <3>1, <3>2 DEF Holds, q
  <2>6. QED
    BY <2>4, <2>5
<1>9. Packs(r, map, fs \cup {path})
  <2>1. \A f \in fs \cup {path} : Holds(r.header, r.content, map[f], f)
    BY <1>1, <1>5, <1>7, <1>8
  <2>2. r.content \in Seq(Int)
    BY <1>1, <1>6
  <2>3. QED
    BY <2>1, <2>2 DEF Packs
<1>12. QED
  BY <1>9, <1>10

\* The files are packed one after the other (the library's fold is unfolded).
LEMMA PackedInOrder ==
  ASSUME NEW map, NEW order, NEW n \in 0..2, DOMAIN order = 1..n
  PROVE  LET none == [header |-> Z!NoHeader, content |-> <<>>]
             one  == PackOne(map, none, order[1])
         IN Z!Pack(map, order) = IF n = 0 THEN none ELSE IF n = 1 THEN one
                                 ELSE PackOne(map, one, order[2])
<1> DEFINE none == [header |-> Z!NoHeader, content |-> <<>>]
           Body(f) == [s \in SUBSET (1..n) |->
                          IF s = {} THEN none
                          ELSE PackOne(map, f[s \ {Z!Max(s)}], order[Z!Max(s)])]
           F == [s \in SUBSET (1..n) |->
                    IF s = {} THEN none
                    ELSE IF s = {1} THEN PackOne(map, none, order[1])
                    ELSE IF s = {2} THEN PackOne(map, none, order[2])
                    ELSE PackOne(map, PackOne(map, none, order[1]), order[2])]
           G == CHOOSE f : f = Body(f)
<1>0. Z!Pack(map, order) = G[1..n]
  BY DEF Z!Pack, Z!FoldLeft, Z!MapThenFoldSet, PackOne
<1> HIDE DEF none
<1>1. \A s \in SUBSET (1..n) : s = {} \/ s = {1} \/ s = {2} \/ s = {1, 2}
  <2>1. \A x \in 1..n : x = 1 \/ x = 2
    OBVIOUS
  <2>2. QED
    BY <2>1
<1>2. /\ {} \in SUBSET (1..n) /\ (n = 1 => {1} \in SUBSET (1..n) /\ 1..n = {1})
      /\ n = 2 => {1} \in SUBSET (1..n) /\ {1, 2} \in SUBSET (1..n) /\ 1..n = {1, 2}
      /\ n = 0 => 1..n = {}
  OBVIOUS
<1>3. Z!Max({1}) = 1 /\ Z!Max({2}) = 2 /\ Z!Max({1, 2}) = 2
  BY DEF Z!Max
<1>4. /\ {1} # {} /\ {2} # {} /\ {1, 2} # {} /\ {2} # {1} /\ {1, 2} # {1} /\ {1, 2} # {2}
      /\ {1} \ {1} = {} /\ {2} \ {2} = {} /\ {1, 2} \ {2} = {1}
  OBVIOUS
<1>5. F = Body(F)
  <2>1. ASSUME NEW s \in SUBSET (1..n)
        PROVE  F[s] = Body(F)[s]
    <3>1. CASE s = {}
      BY <3>1
    <3>2. CASE s = {1}
      <4>1. {1} \ {Z!Max({1})} = {}
        BY <1>3, <1>4
      <4>2. Body(F)[s] = PackOne(map, F[{}], order[1])
        BY <1>3, <1>4, <3>2, <4>1
      <4>3. QED
        BY <1>2, <1>4, <3>2, <4>2
    <3>3. CASE s = {2}
      <4>1. {2} \ {Z!Max({2})} = {}
        BY <1>3, <1>4
      <4>2. Body(F)[s] = PackOne(map, F[{}], order[2])
        BY <1>3, <1>4, <3>3, <4>1
      <4>3. QED
        BY <1>2, <1>4, <3>3, <4>2
    <3>4. CASE s = {1, 2}
      <4>1. {1, 2} \ {Z!Max({1, 2})} = {1} /\ {1} \in SUBSET (1..n)
        BY <1>3, <1>4, <3>4
      <4>2. Body(F)[s] = PackOne(map, F[{1}], order[2])
        BY <1>3, <1>4, <3>4, <4>1
      <4>3. QED
        BY <1>4, <3>4, <4>1, <4>2
    <3>5. QED
      BY <1>1, <3>1, <3>2, <3>3, <3>4
  <2>2. QED
    BY <2>1
<1>6. G = Body(G)
  <2> HIDE DEF F
  <2>1. QED
    BY <1>5
<1> HIDE DEF F, G
<1>7. G[{}] = none
  BY <1>2, <1>6
<1>8. ASSUME NEW s \in SUBSET (1..n), s # {}
      PROVE  G[s] = PackOne(map, G[s \ {Z!Max(s)}], order[Z!Max(s)])
  <2>1. ASSUME NEW f, f = Body(f)
        PROVE  f[s] = PackOne(map, f[s \ {Z!Max(s)}], order[Z!Max(s)])
    BY <1>8, <2>1
  <2>2. QED
    BY <1>6, <2>1
<1>9. ASSUME {1} \in SUBSET (1..n)
      PROVE  G[{1}] = PackOne(map, none, order[1])
  BY <1>3, <1>4, <1>7, <1>8, <1>9
<1>10. ASSUME {1} \in SUBSET (1..n), {1, 2} \in SUBSET (1..n)
       PROVE  G[{1, 2}] = PackOne(map, PackOne(map, none, order[1]), order[2])
  <2>1. G[{1, 2}] = PackOne(map, G[{1, 2} \ {2}], order[2])
    BY <1>3, <1>4, <1>8, <1>10
  <2>2. QED
    BY <1>4, <1>9, <1>10, <2>1
<1>11. CASE n = 0
  BY <1>0, <1>2, <1>7, <1>11 DEF none
<1>12. CASE n = 1
  BY <1>0, <1>2, <1>9, <1>12 DEF none
<1>13. CASE n = 2
  BY <1>0, <1>2, <1>10, <1>13 DEF none
<1>14. QED
  BY <1>11, <1>12, <1>13

\* An order is a list of all the files, each once, no directory behind what is in it.
LEMMA OrderIsList ==
  ASSUME NEW map, IsFiniteSet(DOMAIN map), NEW order \in Z!Orders(map)
  PROVE  /\ Cardinality(DOMAIN map) \in Nat /\ order \in Seq(DOMAIN map)
         /\ Len(order) = Cardinality(DOMAIN map) /\ Once(order)
         /\ \A f \in DOMAIN map : Within(f, order)
         /\ \A i, j \in 1..Len(order) : Z!Under(order[j], order[i]) => i < j
<1> DEFINE fs == DOMAIN map
           n == Cardinality(fs)
<1>1. n \in Nat
  BY FS_CardinalityType
<1>2. order \in {f \in [1..n -> fs] : \A i, j \in 1..n : i # j => f[i] # f[j]}
  <2>1. Z!Cardinality(fs) = Cardinality(fs)
    BY DEF Z!Cardinality, Cardinality
  <2>2. order \in Z!SetToSeqs(fs)
    BY DEF Z!Orders
  <2>3. QED
    BY <2>1, <2>2, Zenon DEF Z!SetToSeqs
<1>3. \A i, j \in DOMAIN order : Z!Under(order[j], order[i]) => i < j
  BY DEF Z!Orders
<1>4. order \in Injection(1..n, fs)
  BY <1>2 DEF Injection, IsInjective
<1>5. Cardinality(1..n) = n
  BY <1>1, FS_Interval
<1>6. order \in Surjection(1..n, fs)
  BY <1>4, <1>5, FS_Injection
<1> HIDE DEF n, fs
<1>7. order \in Seq(fs) /\ Len(order) = n /\ DOMAIN order = 1..n
  BY <1>1, <1>2
<1>8. Once(order)
  BY <1>2, <1>7 DEF Once
<1>9. \A f \in fs : Within(f, order)
  BY <1>6, <1>7 DEF Surjection, Within
<1>10. QED
  BY <1>1, <1>3, <1>7, <1>8, <1>9 DEF n, fs

LEMMA AllPacked ==
  ASSUME NEW map, IsData(map), IsFiniteSet(DOMAIN map), Cardinality(DOMAIN map) <= 2,
         NEW order \in Z!Orders(map), \A f, g \in DOMAIN map : ~Z!Under(f, g)
  PROVE  Packs(Z!Pack(map, order), map, DOMAIN map)
<1> DEFINE none == [header |-> Z!NoHeader, content |-> <<>>]
           fs == DOMAIN map
           n == Cardinality(fs)
           one == PackOne(map, none, order[1])
<1>1. /\ n \in Nat /\ order \in Seq(fs) /\ Len(order) = n /\ Once(order)
      /\ \A f \in fs : Within(f, order)
  BY OrderIsList
<1>2. n <= 2
  OBVIOUS
<1>3. Packs(none, map, {})
  BY DEF Packs
<1> HIDE DEF none, fs, n
<1>4. n \in 0..2 /\ DOMAIN order = 1..n
  BY <1>1, <1>2
<1>5. Z!Pack(map, order) = IF n = 0 THEN none ELSE IF n = 1 THEN one
                           ELSE PackOne(map, one, order[2])
  BY <1>4, PackedInOrder, Zenon DEF none
<1>6. \A f, g \in fs : ~Z!Under(f, g)
  BY DEF fs
<1>7. ASSUME n # 0
      PROVE  Packs(one, map, {order[1]}) /\ order[1] \in fs
  <2>1. order[1] \in fs
    BY <1>1, <1>4, <1>7
  <2>2. Packs(one, map, {} \cup {order[1]})
    BY <1>3, <2>1, OnePacked DEF fs
  <2>3. {} \cup {order[1]} = {order[1]}
    OBVIOUS
  <2>4. QED
    BY <2>1, <2>2, <2>3
<1> HIDE DEF one
<1>8. CASE n = 0
  <2>1. fs = {}
    BY <1>1, <1>8 DEF Within
  <2>2. QED
    BY <1>3, <1>5, <1>8, <2>1 DEF fs
<1>9. CASE n = 1
  <2>1. fs = {order[1]}
    BY <1>1, <1>7, <1>9 DEF Within
  <2>2. QED
    BY <1>5, <1>7, <1>9, <2>1 DEF fs
<1>10. CASE n = 2
  <2>1. order[2] \in fs /\ order[1] # order[2]
    BY <1>1, <1>10 DEF Once
  <2>2. fs = {order[1]} \cup {order[2]}
    BY <1>1, <1>7, <1>10, <2>1 DEF Within
  <2>3. \A f \in {order[1]} : f # order[2] /\ ~Z!Under(f, order[2])
    BY <1>6, <1>7, <1>10, <2>1
  <2>4. Packs(PackOne(map, one, order[2]), map, {order[1]} \cup {order[2]})
    BY <1>7, <1>10, <2>1, <2>3, OnePacked DEF fs
  <2>5. QED
    BY <1>5, <1>10, <2>2, <2>4 DEF fs
<1>11. QED
  BY <1>4, <1>8, <1>9, <1>10

ArchiveType(X) ==
  [disk : X, beside : X, handle : X,
   writer : [at : X, unpacked : X, header : X, content : X, todo : X],
   since : BOOLEAN, ok : BOOLEAN, writes : X, last : [packed : X, unpacked : X], ret : X]

\* The files of a Write that went to the disk, when todo is left.
Done(todo, map) == {f \in DOMAIN map : ~Within(f, todo)}

Stored(h, c, b, last, done) ==
  /\ c \in Seq(Int)
  /\ \A f \in DOMAIN last.packed :
        (\A g \in done : g # f /\ ~Z!Under(f, g)) => Holds(h, c, last.packed[f], f)
  /\ \A f \in done : HoldsBeside(h, b, last.unpacked[f], f)

Ahead(todo, map) ==
  /\ todo \in Seq(DOMAIN map) /\ Once(todo)
  /\ \A f \in Done(todo, map) : \A i \in 1..Len(todo) : ~Z!Under(f, todo[i])
  /\ \A i, j \in 1..Len(todo) : Z!Under(todo[j], todo[i]) => i < j

Writing(w, b, last) ==
  /\ w.at = "writing" /\ w.unpacked = last.unpacked /\ Ahead(w.todo, last.unpacked)
  /\ Stored(w.header, w.content, b, last, Done(w.todo, last.unpacked))

Written(disk, b, last) ==
  disk # <<>> /\ Stored(disk[1].header, disk[1].content, b, last, DOMAIN last.unpacked)

IsArchive(a) ==
  /\ \E X : a \in ArchiveType(X)
  /\ IsData(a.last.packed) /\ IsData(a.last.unpacked)
  /\ a.writer = Z!Idle \/ Writing(a.writer, a.beside, a.last)
  /\ a.writer = Z!Idle /\ a.ok => Written(a.disk, a.beside, a.last)
  /\ a.since => /\ a.writer = Z!Idle
                /\ a.handle # <<>> => a.disk # <<>> /\ a.handle[1] = a.disk[1].header

LEMMA IdleIsNotWriting == Z!Idle.at = "idle" /\ \A w, b, l : Writing(w, b, l) => w # Z!Idle
<1>1. Z!Idle.at = "idle"
  BY Zenon DEF Z!Idle
<1>2. QED
  BY <1>1 DEF Writing

LEMMA NewArchiveIsOne == IsArchive(Z!New)
<1> DEFINE none == <<>>
           nowhere == [p \in {} |-> none]
           last == [packed |-> none, unpacked |-> none]
           t == [disk |-> none, beside |-> nowhere, handle |-> none, writer |-> Z!Idle,
                 since |-> FALSE, ok |-> FALSE, writes |-> 0, last |-> last, ret |-> "ok"]
           X == {none, nowhere, 0, "ok", "idle", Z!NoHeader}
<1>1. Z!New = t
  BY Zenon DEF Z!New
<1>2. DOMAIN none = {}
  OBVIOUS
<1>3. Z!Idle = [at |-> "idle", unpacked |-> none, header |-> Z!NoHeader, content |-> none,
                todo |-> none]
  BY Zenon DEF Z!Idle
<1> HIDE DEF none, nowhere
<1>4. Z!Idle \in [at : X, unpacked : X, header : X, content : X, todo : X]
  BY <1>3
<1>5. last \in [packed : X, unpacked : X] /\ last.packed = none /\ last.unpacked = none
  OBVIOUS
<1> HIDE DEF last
<1>6. /\ t \in ArchiveType(X) /\ ~t.since /\ ~t.ok /\ t.writer = Z!Idle /\ t.last = last
  BY <1>4, <1>5 DEF ArchiveType
<1> HIDE DEF t, X
<1>7. IsArchive(t)
  BY <1>2, <1>5, <1>6 DEF IsArchive, IsData
<1>8. QED
  BY <1>1, <1>7

\* A Write that ends, well or not.
LEMMA WriteEnds ==
  ASSUME NEW a, NEW X, a \in ArchiveType(X), IsData(a.last.packed), IsData(a.last.unpacked),
         ~a.since, NEW e, e = "ok" => Written(a.disk, a.beside, a.last)
  PROVE  IsArchive(Z!Ends(a, e))
<1> DEFINE ok == (e = "ok")
           u == [a EXCEPT !.writer = Z!Idle, !.ok = ok, !.ret = e]
           Y == X \cup {e, "idle", <<>>, Z!NoHeader}
<1>1. Z!Ends(a, e) = u
  BY Zenon DEF Z!Ends
<1>2. Z!Idle \in [at : Y, unpacked : Y, header : Y, content : Y, todo : Y]
  BY DEF Z!Idle
<1>3. ok \in BOOLEAN /\ (ok => Written(a.disk, a.beside, a.last))
  BY Zenon
<1>4. X \subseteq Y /\ e \in Y
  OBVIOUS
<1> HIDE DEF ok, Y
<1>5. /\ u \in ArchiveType(Y) /\ u.writer = Z!Idle /\ u.ok = ok /\ u.since = a.since
      /\ u.last = a.last /\ u.disk = a.disk /\ u.beside = a.beside
  BY <1>2, <1>3, <1>4 DEF ArchiveType
<1> HIDE DEF u
<1>6. u.ok => Written(u.disk, u.beside, u.last)
  BY <1>3, <1>5, Zenon
<1>7. ~u.since
  BY <1>5, Zenon
<1>8. QED
  BY <1>1, <1>5, <1>6, <1>7 DEF IsArchive

LEMMA WriteBegins ==
  ASSUME NEW a, IsArchive(a), NEW packed, NEW unpacked, IsData(packed), IsData(unpacked),
         IsFiniteSet(DOMAIN packed), Cardinality(DOMAIN packed) <= 2,
         IsFiniteSet(DOMAIN unpacked),
         NEW order \in Z!Orders(packed), NEW todo \in Z!Orders(unpacked)
  PROVE  IsArchive(Z!BeginWrite(a, packed, unpacked, order, todo))
<1>1. PICK X : a \in ArchiveType(X)
  BY DEF IsArchive
<1> DEFINE last == [packed |-> packed, unpacked |-> unpacked]
           writes == a.writes + 1
           begun == [a EXCEPT !.since = FALSE, !.writes = writes, !.last = last]
           p == Z!Pack(packed, order)
           w == [at |-> "writing", unpacked |-> unpacked, header |-> p.header,
                 content |-> p.content, todo |-> todo]
           u == [begun EXCEPT !.writer = w]
           Y == X \cup {packed, unpacked, writes, "writing", p.header, p.content, todo}
<1>2. Z!BeginWrite(a, packed, unpacked, order, todo)
        = IF \E f, g \in DOMAIN packed : Z!Under(f, g) THEN Z!Ends(begun, "panic") ELSE u
  BY Zenon DEF Z!BeginWrite
<1>3. /\ X \subseteq Y /\ packed \in Y /\ unpacked \in Y /\ writes \in Y /\ "writing" \in Y
      /\ p.header \in Y /\ p.content \in Y /\ todo \in Y
  OBVIOUS
<1>4. last \in [packed : Y, unpacked : Y] /\ last.packed = packed /\ last.unpacked = unpacked
  OBVIOUS
<1> HIDE DEF writes, last, Y, p
<1>5. /\ w \in [at : Y, unpacked : Y, header : Y, content : Y, todo : Y]
      /\ w.at = "writing" /\ w.unpacked = unpacked /\ w.header = p.header
      /\ w.content = p.content /\ w.todo = todo
  BY <1>3
<1> HIDE DEF w
<1>6. begun \in ArchiveType(Y) /\ ~begun.since /\ begun.last = last
  BY <1>1, <1>3, <1>4 DEF ArchiveType
<1> HIDE DEF begun
<1>7. IsArchive(Z!Ends(begun, "panic"))
  <2>1. "panic" # "ok"
    OBVIOUS
  <2>2. IsData(begun.last.packed) /\ IsData(begun.last.unpacked)
    BY <1>4, <1>6
  <2>3. QED
    BY <1>6, <2>1, <2>2, WriteEnds
<1>8. u \in ArchiveType(Y) /\ u.since = begun.since /\ u.writer = w /\ u.last = begun.last
  BY <1>5, <1>6 DEF ArchiveType
<1> HIDE DEF u
<1>9. ASSUME \A f, g \in DOMAIN packed : ~Z!Under(f, g)
      PROVE  IsArchive(u)
  <2>1. Packs(p, packed, DOMAIN packed)
    BY <1>9, AllPacked DEF p
  <2>2. /\ todo \in Seq(DOMAIN unpacked) /\ Once(todo)
        /\ \A f \in DOMAIN unpacked : Within(f, todo)
        /\ \A i, j \in 1..Len(todo) : Z!Under(todo[j], todo[i]) => i < j
    BY OrderIsList
  <2>3. Done(todo, unpacked) = {}
    BY <2>2 DEF Done
  <2>4. Ahead(todo, unpacked)
    BY <2>2, <2>3 DEF Ahead
  <2>5. Stored(p.header, p.content, u.beside, last, {})
    BY <1>4, <2>1 DEF Stored, Packs
  <2>6. Writing(w, u.beside, last)
    BY <1>4, <1>5, <2>3, <2>4, <2>5, Zenon DEF Writing
  <2>7. u.writer # Z!Idle /\ Writing(u.writer, u.beside, u.last)
    BY <1>6, <1>8, <2>6, IdleIsNotWriting, Zenon
  <2>8. IsData(u.last.packed) /\ IsData(u.last.unpacked)
    BY <1>4, <1>6, <1>8
  <2>9. ~u.since
    BY <1>6, <1>8, Zenon
  <2>10. QED
    BY <1>8, <2>7, <2>8, <2>9 DEF IsArchive
<1>10. QED
  BY <1>2, <1>7, <1>9

LEMMA FileWritten ==
  ASSUME NEW a, IsArchive(a), a.writer.at = "writing", a.writer.todo # <<>>, NEW fails
  PROVE  IsArchive(Z!WriteUnpacked(a, fails))
<1>1. PICK X : a \in ArchiveType(X)
  BY DEF IsArchive
<1> DEFINE last == a.last
           map == last.unpacked
           w == a.writer
           todo == w.todo
           path == todo[1]
           node == Z!FileNode(0, Len(map[path]), TRUE)
           h == Z!AddHeaderFile(w.header, path, node)
           b == Z!Put(a.beside, path, map[path])
           rest == Tail(todo)
           done == Done(todo, map)
           u == [a EXCEPT !.beside = b, !.writer.todo = rest, !.writer.header = h]
           Y == X \cup {h, b, rest}
<1>2. /\ Writing(w, a.beside, last) /\ w # Z!Idle /\ ~a.since
      /\ IsData(last.packed) /\ IsData(map)
  BY IdleIsNotWriting DEF IsArchive
<1>3. w.unpacked = map
  BY <1>2 DEF Writing
<1>4. Z!WriteUnpacked(a, fails) = IF Z!Panics(w.header, path) THEN Z!Ends(a, "panic")
                                  ELSE IF fails THEN Z!Ends(a, "error") ELSE u
  BY <1>3, Zenon DEF Z!WriteUnpacked
<1>5. IsArchive(Z!Ends(a, "panic")) /\ IsArchive(Z!Ends(a, "error"))
  <2>1. "panic" # "ok" /\ "error" # "ok"
    OBVIOUS
  <2>2. QED
    BY <1>1, <1>2, <2>1, WriteEnds
<1>6. /\ X \subseteq Y /\ h \in Y /\ b \in Y /\ rest \in Y
  OBVIOUS
<1>25. h = Z!AddHeaderFile(w.header, path, node)
  OBVIOUS
<1>8. /\ path \in DOMAIN b /\ b[path] = map[path]
      /\ \A f \in DOMAIN a.beside : f # path => f \in DOMAIN b /\ b[f] = a.beside[f]
  BY DEF Z!Put
<1>9. \E o, n : node = Z!FileNode(o, n, TRUE)
  OBVIOUS
<1> HIDE DEF Y, h, b, rest, node
<1>10. /\ u \in ArchiveType(Y) /\ u.beside = b /\ u.writer.todo = rest /\ u.writer.header = h
       /\ u.writer.at = w.at /\ u.writer.unpacked = w.unpacked /\ u.writer.content = w.content
       /\ u.since = a.since /\ u.last = last
  BY <1>1, <1>6 DEF ArchiveType
<1> HIDE DEF u
<1>11. /\ todo \in Seq(DOMAIN map) /\ Once(todo) /\ todo # <<>>
       /\ \A f \in done : \A i \in 1..Len(todo) : ~Z!Under(f, todo[i])
       /\ \A i, j \in 1..Len(todo) : Z!Under(todo[j], todo[i]) => i < j
  BY <1>2 DEF Writing, Ahead
<1>12. Stored(w.header, w.content, a.beside, last, done)
  BY <1>2 DEF Writing
<1> HIDE DEF todo, map, done, last, w, path
<1>7. /\ path \in DOMAIN h /\ h[path] = node
      /\ \A f \in DOMAIN w.header : f # path /\ ~Z!Under(f, path) =>
            f \in DOMAIN h /\ h[f] = w.header[f]
  BY <1>25, HeaderAdded
<1>13. /\ 1 \in 1..Len(todo) /\ rest \in Seq(DOMAIN map) /\ Len(rest) = Len(todo) - 1
       /\ \A i \in 1..Len(rest) : i + 1 \in 1..Len(todo) /\ rest[i] = todo[i + 1]
  BY <1>11 DEF rest
<1>14. path = todo[1]
  BY DEF path
<1>15. Once(rest) /\ ~Within(path, rest)
  BY <1>11, <1>13, <1>14 DEF Once, Within
<1>16. path \in DOMAIN map /\ Within(path, todo)
  BY <1>11, <1>13, <1>14 DEF Within
<1>17. \A f : Within(f, todo) <=> f = path \/ Within(f, rest)
  <2>1. ASSUME NEW i \in 1..Len(todo)
        PROVE  todo[i] = path \/ Within(todo[i], rest)
    <3>1. CASE i = 1
      BY <1>14, <3>1
    <3>2. CASE i # 1
      <4>1. i - 1 \in 1..Len(rest) /\ (i - 1) + 1 = i
        BY <1>11, <1>13, <3>2
      <4>2. rest[i - 1] = todo[i]
        BY <1>13, <4>1
      <4>3. QED
        BY <4>1, <4>2 DEF Within
    <3>3. QED
      BY <3>1, <3>2
  <2>2. QED
    BY <1>13, <1>16, <2>1 DEF Within
<1>18. Done(rest, map) = done \cup {path} /\ path \notin done
  BY <1>15, <1>16, <1>17 DEF Done, done
<1>19. Ahead(rest, map)
  <2>1. ASSUME NEW f \in done \cup {path}, NEW i \in 1..Len(rest)
        PROVE  ~Z!Under(f, rest[i])
    <3>1. CASE f \in done
      BY <1>11, <1>13, <3>1
    <3>2. CASE f = path
      <4>1. Z!Under(todo[1], todo[i + 1]) => i + 1 < 1
        BY <1>11, <1>13
      <4>2. ~(i + 1 < 1)
        OBVIOUS
      <4>3. QED
        BY <1>13, <1>14, <3>2, <4>1, <4>2
    <3>3. QED
      BY <3>1, <3>2
  <2>2. ASSUME NEW i \in 1..Len(rest), NEW j \in 1..Len(rest), Z!Under(rest[j], rest[i])
        PROVE  i < j
    <3>1. Z!Under(todo[j + 1], todo[i + 1]) => i + 1 < j + 1
      BY <1>11, <1>13
    <3>2. QED
      BY <1>13, <2>2, <3>1
  <2>3. QED
    BY <1>13, <1>15, <1>18, <2>1, <2>2 DEF Ahead
<1>20. Stored(h, w.content, b, last, done \cup {path})
  <2>1. ASSUME NEW f \in DOMAIN last.packed, \A g \in done \cup {path} : g # f /\ ~Z!Under(f, g)
        PROVE  Holds(h, w.content, last.packed[f], f)
    <3>1. f # path /\ ~Z!Under(f, path) /\ \A g \in done : g # f /\ ~Z!Under(f, g)
      BY <2>1
    <3>2. Holds(w.header, w.content, last.packed[f], f)
      BY <1>12, <3>1 DEF Stored
    <3>3. QED
      BY <1>7, <3>1, <3>2 DEF Holds
  <2>2. ASSUME NEW f \in done
        PROVE  HoldsBeside(h, b, last.unpacked[f], f)
    <3>1. f # path /\ ~Z!Under(f, path)
      BY <1>11, <1>13, <1>14, <1>18
    <3>2. HoldsBeside(w.header, a.beside, last.unpacked[f], f)
      BY <1>12 DEF Stored
    <3>3. QED
      BY <1>7, <1>8, <3>1, <3>2 DEF HoldsBeside
  <2>3. HoldsBeside(h, b, last.unpacked[path], path)
    BY <1>7, <1>8, <1>9 DEF HoldsBeside, map
  <2>4. w.content \in Seq(Int)
    BY <1>12 DEF Stored
  <2>5. QED
    BY <2>1, <2>2, <2>3, <2>4 DEF Stored
<1>21. w.at = "writing" /\ w.unpacked = last.unpacked /\ map = last.unpacked
  BY <1>3, <1>2 DEF map, w, Writing
<1>22. Writing(u.writer, u.beside, u.last)
  BY <1>10, <1>18, <1>19, <1>20, <1>21 DEF Writing
<1>23. IsArchive(u)
  <2>1. u.writer # Z!Idle
    BY <1>22, IdleIsNotWriting
  <2>2. ~u.since
    BY <1>2, <1>10, Zenon
  <2>3. IsData(u.last.packed) /\ IsData(u.last.unpacked)
    BY <1>2, <1>10, <1>21
  <2>4. QED
    BY <1>10, <1>22, <2>1, <2>2, <2>3 DEF IsArchive
<1>24. QED
  BY <1>4, <1>5, <1>23, Zenon

LEMMA ArchiveWritten ==
  ASSUME NEW a, IsArchive(a), a.writer.at = "writing", a.writer.todo = <<>>, NEW written
  PROVE  IsArchive(Z!WriteArchive(a, written))
<1>1. PICK X : a \in ArchiveType(X)
  BY DEF IsArchive
<1> DEFINE w == a.writer
           whole == <<[header |-> w.header, content |-> w.content]>>
           cut == IF written < 0 THEN <<>>
                  ELSE <<[header |-> w.header, content |-> SubSeq(w.content, 1, written)]>>
           u == [a EXCEPT !.disk = whole]
           v == [a EXCEPT !.disk = cut]
           Y == X \cup {whole, cut}
<1>2. Z!WriteArchive(a, written) = IF written = Len(w.content) THEN Z!Ends(u, "ok")
                                   ELSE Z!Ends(v, "error")
  BY Zenon DEF Z!WriteArchive
<1>3. /\ Writing(w, a.beside, a.last) /\ ~a.since
      /\ IsData(a.last.packed) /\ IsData(a.last.unpacked)
  BY IdleIsNotWriting DEF IsArchive
<1>4. whole # <<>> /\ whole[1].header = w.header /\ whole[1].content = w.content
  OBVIOUS
<1>5. X \subseteq Y /\ whole \in Y /\ cut \in Y
  OBVIOUS
<1> HIDE DEF whole, cut, Y
<1>6. /\ u \in ArchiveType(Y) /\ u.disk = whole /\ u.last = a.last /\ u.beside = a.beside
      /\ u.since = a.since
      /\ v \in ArchiveType(Y) /\ v.last = a.last /\ v.since = a.since
  BY <1>1, <1>5 DEF ArchiveType
<1> HIDE DEF u, v
<1>7. ~u.since /\ ~v.since
  BY <1>3, <1>6, Zenon
<1>8. Written(u.disk, u.beside, u.last)
  <2>1. Done(w.todo, a.last.unpacked) = DOMAIN a.last.unpacked
    BY DEF Done, Within
  <2>2. QED
    BY <1>3, <1>4, <1>6, <2>1 DEF Written, Writing
<1>9. IsArchive(Z!Ends(u, "ok"))
  BY <1>3, <1>6, <1>7, <1>8, WriteEnds
<1>10. IsArchive(Z!Ends(v, "error"))
  <2>1. "error" # "ok"
    OBVIOUS
  <2>2. QED
    BY <1>3, <1>6, <1>7, <2>1, WriteEnds
<1>11. QED
  BY <1>2, <1>9, <1>10, Zenon

LEMMA ArchiveOpened ==
  ASSUME NEW a, IsArchive(a)
  PROVE  IsArchive(Z!Open(a))
<1>1. PICK X : a \in ArchiveType(X)
  BY DEF IsArchive
<1> DEFINE refused(e) == [a EXCEPT !.ret = e]
           table == <<a.disk[1].header>>
           fresh == (a.writer = Z!Idle)
           u == [a EXCEPT !.handle = table, !.since = fresh, !.ret = "ok"]
           Y == X \cup {table, "ok"}
<1>2. Z!Open(a) = IF a.disk = <<>> THEN refused("error")
                  ELSE IF ~Z!HeaderIsReadable(a.disk[1].header) THEN refused("ErrInvalidPath")
                  ELSE u
  BY Zenon DEF Z!Open
<1>3. ASSUME NEW e
      PROVE  IsArchive(refused(e))
  <2> DEFINE r == refused(e)
  <2>1. /\ r \in ArchiveType(X \cup {e}) /\ r.disk = a.disk /\ r.beside = a.beside
        /\ r.handle = a.handle /\ r.writer = a.writer /\ r.since = a.since /\ r.ok = a.ok
        /\ r.last = a.last
    BY <1>1 DEF ArchiveType
  <2> HIDE DEF r
  <2>2. IsArchive(r)
    BY <2>1, Zenon DEF IsArchive
  <2>3. QED
    BY <2>2 DEF r
<1>4. ASSUME a.disk # <<>>
      PROVE  IsArchive(u)
  <2>1. X \subseteq Y /\ table \in Y /\ "ok" \in Y /\ table[1] = a.disk[1].header
    OBVIOUS
  <2>2. fresh \in BOOLEAN /\ (fresh => a.writer = Z!Idle)
    BY Zenon
  <2> HIDE DEF table, fresh, Y
  <2>3. /\ u \in ArchiveType(Y) /\ u.disk = a.disk /\ u.beside = a.beside
        /\ u.handle = table /\ u.writer = a.writer /\ u.since = fresh /\ u.ok = a.ok
        /\ u.last = a.last
    BY <1>1, <2>1, <2>2 DEF ArchiveType
  <2> HIDE DEF u
  <2>4. u.since => u.writer = Z!Idle
    BY <2>2, <2>3, Zenon
  <2>5. u.handle # <<>> => u.disk # <<>> /\ u.handle[1] = u.disk[1].header
    BY <1>4, <2>1, <2>3
  <2>6. u.writer = Z!Idle /\ u.ok => Written(u.disk, u.beside, u.last)
    BY <2>3, Zenon DEF IsArchive
  <2>7. /\ IsData(u.last.packed) /\ IsData(u.last.unpacked)
        /\ u.writer = Z!Idle \/ Writing(u.writer, u.beside, u.last)
    BY <2>3 DEF IsArchive
  <2>8. QED
    BY <2>3, <2>4, <2>5, <2>6, <2>7 DEF IsArchive
<1>5. QED
  BY <1>2, <1>3, <1>4, Zenon

LEMMA MapsAreData ==
  ASSUME NEW n \in Nat, NEW map \in Z!Maps(n)
  PROVE  IsData(map) /\ IsFiniteSet(DOMAIN map) /\ Cardinality(DOMAIN map) <= n
<1>1. PICK fs \in SUBSET Files : Z!Cardinality(fs) <= n /\ map \in [fs -> Contents]
  BY DEF Z!Maps
<1>2. Z!Cardinality(fs) = Cardinality(fs)
  BY DEF Z!Cardinality, Cardinality
<1>3. IsFiniteSet(fs)
  BY FileAssumption, FS_Subset
<1>4. QED
  BY <1>1, <1>2, <1>3, ContentAssumption DEF IsData

LEMMA ArchiveStep ==
  ASSUME IsArchive(object), [Z!Next]_object
  PROVE  IsArchive(object')
<1>1. CASE \E packed \in Z!Maps(2), unpacked \in Z!Maps(1) :
              /\ object.writer.at = "idle" /\ object.writes < MaxWrites
              /\ \E order \in Z!Orders(packed), todo \in Z!Orders(unpacked) :
                    object' = Z!BeginWrite(object, packed, unpacked, order, todo)
  <2>1. PICK packed \in Z!Maps(2), unpacked \in Z!Maps(1) :
           \E order \in Z!Orders(packed), todo \in Z!Orders(unpacked) :
              object' = Z!BeginWrite(object, packed, unpacked, order, todo)
    BY <1>1, Zenon
  <2>2. PICK order \in Z!Orders(packed), todo \in Z!Orders(unpacked) :
           object' = Z!BeginWrite(object, packed, unpacked, order, todo)
    BY <2>1, Zenon
  <2>3. 2 \in Nat /\ 1 \in Nat
    OBVIOUS
  <2>4. /\ IsData(packed) /\ IsFiniteSet(DOMAIN packed) /\ Cardinality(DOMAIN packed) <= 2
        /\ IsData(unpacked) /\ IsFiniteSet(DOMAIN unpacked)
    BY <2>3, MapsAreData, Zenon
  <2>5. IsArchive(Z!BeginWrite(object, packed, unpacked, order, todo))
    BY <2>4, WriteBegins, Zenon
  <2>6. QED
    BY <2>2, <2>5, Zenon
<1>2. CASE \E fails \in BOOLEAN : /\ object.writer.at = "writing" /\ object.writer.todo # <<>>
                                  /\ object' = Z!WriteUnpacked(object, fails)
  BY <1>2, FileWritten, Zenon
<1>3. CASE \E written \in -1..Len(object.writer.content) :
              /\ object.writer.at = "writing" /\ object.writer.todo = <<>>
              /\ object' = Z!WriteArchive(object, written)
  BY <1>3, ArchiveWritten, Zenon
<1>4. CASE object' = Z!Open(object)
  BY <1>4, ArchiveOpened, Zenon
<1>5. CASE UNCHANGED object
  BY <1>5
<1>6. QED
  BY <1>1, <1>2, <1>3, <1>4, <1>5, Zenon DEF Z!Next

LEMMA NodesAre ==
  ASSUME NEW o, NEW n, NEW node
  PROVE  /\ node = Z!FileNode(o, n, FALSE) =>
               node.dir = FALSE /\ node.offset = o /\ node.size = n /\ node.unpacked = FALSE
         /\ node = Z!FileNode(o, n, TRUE) => node.dir = FALSE /\ node.unpacked = TRUE
<1> DEFINE inside == Z!FileNode(o, n, FALSE)
           outside == Z!FileNode(o, n, TRUE)
<1>1. inside.dir = FALSE /\ inside.offset = o /\ inside.size = n /\ inside.unpacked = FALSE
  BY Zenon DEF Z!FileNode
<1>2. outside.dir = FALSE /\ outside.unpacked = TRUE
  BY Zenon DEF Z!FileNode
<1> HIDE DEF inside, outside
<1>3. /\ node = inside =>
            node.dir = FALSE /\ node.offset = o /\ node.size = n /\ node.unpacked = FALSE
      /\ node = outside => node.dir = FALSE /\ node.unpacked = TRUE
  BY <1>1, <1>2, Zenon
<1>4. QED
  BY <1>3 DEF inside, outside

LEMMA ArchiveReadsBack ==
  ASSUME IsArchive(object)
  PROVE  Z!ReadsBack
<1> DEFINE table == object.handle[1]
           last == object.last
           c == object.disk[1].content
           b == object.beside
<1>1. SUFFICES ASSUME object.handle # <<>> /\ object.since /\ object.ok
               PROVE  /\ \A f \in Z!Written(last.packed, last.unpacked) :
                            Z!ReadFile(object, f) = <<last.packed[f]>>
                      /\ \A f \in DOMAIN last.unpacked :
                            Z!ReadFile(object, f) = <<last.unpacked[f]>>
  BY DEF Z!ReadsBack
<1>2. object.writer = Z!Idle /\ object.disk # <<>> /\ table = object.disk[1].header
  BY <1>1 DEF IsArchive
<1>3. Stored(table, c, b, last, DOMAIN last.unpacked) /\ IsData(last.packed)
  BY <1>1, <1>2 DEF IsArchive, Written
<1>4. ASSUME NEW f \in Z!Written(last.packed, last.unpacked)
      PROVE  Z!ReadFile(object, f) = <<last.packed[f]>>
  <2> DEFINE s == last.packed[f]
  <2>1. /\ f \in DOMAIN last.packed
        /\ \A g \in DOMAIN last.unpacked : g # f /\ ~Z!Under(f, g)
    BY DEF Z!Written
  <2>2. s \in Seq(Int) /\ Holds(table, c, s, f) /\ c \in Seq(Int)
    BY <1>3, <2>1 DEF Stored, IsData
  <2> HIDE DEF s, c, table
  <2>3. PICK o \in Nat : /\ f \in DOMAIN table /\ table[f] = Z!FileNode(o, Len(s), FALSE)
                         /\ o + Len(s) <= Len(c) /\ \A i \in 1..Len(s) : c[o + i] = s[i]
    BY <2>2 DEF Holds
  <2> DEFINE bytes == [i \in 1..Len(s) |-> IF o + i <= Len(c) THEN c[o + i] ELSE 0]
  <2>4. Z!ReadFile(object, f) = <<bytes>>
    <3>1. /\ table[f].dir = FALSE /\ table[f].offset = o /\ table[f].size = Len(s)
          /\ table[f].unpacked = FALSE
      <4> DEFINE node == table[f]
                 m == Len(s)
      <4>1. node = Z!FileNode(o, m, FALSE)
        BY <2>3, Zenon
      <4> HIDE DEF node, m
      <4>2. node.dir = FALSE /\ node.offset = o /\ node.size = m /\ node.unpacked = FALSE
        BY <4>1, NodesAre, Zenon
      <4>3. QED
        BY <4>2, Zenon DEF node, m
    <3>2. QED
      BY <1>2, <2>3, <3>1 DEF Z!ReadFile, table, c
  <2>5. bytes = s
    <3>1. \A i \in 1..Len(s) : o + i <= Len(c)
      BY <2>2, <2>3
    <3>2. bytes = [i \in 1..Len(s) |-> s[i]]
      BY <2>3, <3>1
    <3>3. [i \in 1..Len(s) |-> s[i]] = s
      BY <2>2
    <3>4. QED
      BY <3>2, <3>3
  <2>6. QED
    BY <2>4, <2>5 DEF s
<1>5. ASSUME NEW f \in DOMAIN last.unpacked
      PROVE  Z!ReadFile(object, f) = <<last.unpacked[f]>>
  <2>1. HoldsBeside(table, b, last.unpacked[f], f)
    BY <1>3 DEF Stored
  <2>2. PICK o, n : table[f] = Z!FileNode(o, n, TRUE)
    BY <2>1 DEF HoldsBeside
  <2>3. table[f].dir = FALSE /\ table[f].unpacked = TRUE
    <3> DEFINE node == table[f]
    <3> HIDE DEF node
    <3>1. node = Z!FileNode(o, n, TRUE)
      BY <2>2, Zenon DEF node
    <3>2. node.dir = FALSE /\ node.unpacked = TRUE
      BY <3>1, NodesAre, Zenon
    <3>3. QED
      BY <3>2, Zenon DEF node
  <2>4. f \in DOMAIN table /\ f \in DOMAIN b /\ b[f] = last.unpacked[f]
    BY <2>1 DEF HoldsBeside
  <2>5. QED
    BY <2>3, <2>4 DEF Z!ReadFile
<1>6. QED
  BY <1>4, <1>5

LEMMA PicklesAreRead == Z!PicklesReadBack
<1>1. ASSUME NEW n \in Nat
      PROVE  Z!ReadPickle(Z!WritePickle(n)) = <<n>>
  <2> DEFINE size == Z!Align4(4 + n)
             p == Z!WritePickle(n)
  <2>1. size \in Nat /\ size >= 4 + n
    BY DEF Z!Align4
  <2>2. p.payload = size /\ p.length = n /\ p.buffer = 4 + size
    BY Zenon DEF Z!WritePickle
  <2> HIDE DEF p, size
  <2>3. ~(\/ p.buffer < 8 \/ p.payload < 4 \/ p.payload > p.buffer - 4
          \/ p.length > p.payload - 4 \/ 8 + p.length > p.buffer)
    BY <2>1, <2>2
  <2>4. Z!ReadPickle(p) = <<p.length>>
    BY <2>3 DEF Z!ReadPickle
  <2>5. QED
    BY <2>2, <2>4 DEF p
<1>2. \A n \in 0..MaxHeader : n \in Nat
  OBVIOUS
<1>3. QED
  BY <1>1, <1>2 DEF Z!PicklesReadBack

(* A behaviour of the composition is a behaviour of the module it picked. *)

LEMMA StepOfOne ==
  ASSUME [Next]_<<api, object>>
  PROVE  /\ UNCHANGED api
         /\ api = "window" => [W!Next]_object
         /\ api = "view" => [V!Next]_object
         /\ api = "webContents" => [C!Next]_object
         /\ api = "session" => [S!Next]_object
         /\ api = "globalShortcut" => [K!Next]_object
         /\ api = "menu" => [M!Next]_object
         /\ api = "notification" => [N!Next]_object
         /\ api = "autoUpdater" => [U!Next]_object
         /\ api = "service" => [P!Next]_object
         /\ api = "desktop" => [D!Next]_object
         /\ api = "protocol" => [R!Next]_object
         /\ api = "contextBridge" => [B!Next]_object
         /\ api = "app" => [A!Next]_object
         /\ api = "asar" => [Z!Next]_object
BY DEF Next

\* However the handlers of a window call back into it, a destroyed window stays
\* destroyed and its flags, its handlers and its events agree; whatever is
\* added and removed where, a view is once among the children of the parent it
\* names and nobody else moves; however loads, steps back and the handlers that
\* start more of them interleave, the page that is shown is the one of the
\* history and loading is set while a load is going on, and only then
\* (window.go, view.go, webcontents.go).
THEOREM WindowsAlwaysKept == Spec => WindowsKept
<1> DEFINE Inv == /\ api = "window" => IsWindow(object)
                  /\ api = "view" => IsTree(object)
                  /\ api = "webContents" => IsPage(object)
<1>1. Init => Inv
  BY NewWindowIsOne, NewTreeIsOne, NewPageIsOne DEF Init, V!Init, C!Init
<1>2. ASSUME Inv, [Next]_<<api, object>>
      PROVE  /\ Inv'
             /\ [api = "window" => W!ClosedIsFinal]_object
             /\ [api = "view" => V!OneMoves]_object
  <2>1. UNCHANGED api
    BY <1>2, StepOfOne
  <2>2. CASE api = "window"
    <3>1. IsWindow(object') /\ [W!ClosedIsFinal]_object
      BY <1>2, <2>2, StepOfOne, WindowStep
    <3>2. QED
      BY <2>1, <2>2, <3>1
  <2>3. CASE api = "view"
    <3>1. IsTree(object') /\ [V!OneMoves]_object
      BY <1>2, <2>3, StepOfOne, TreeStep
    <3>2. QED
      BY <2>1, <2>3, <3>1
  <2>4. CASE api = "webContents"
    <3>1. IsPage(object')
      BY <1>2, <2>4, StepOfOne, PageStep
    <3>2. QED
      BY <2>1, <2>4, <3>1
  <2>5. CASE api \notin {"window", "view", "webContents"}
    BY <2>1, <2>5
  <2>6. QED
    BY <2>2, <2>3, <2>4, <2>5
<1>3. Inv => /\ api = "window" => W!BooksKept
             /\ api = "view" => V!ParentsAgree
             /\ api = "webContents" => C!ShowsHistory /\ C!LoadingIsSomebodys
  BY BooksAreKept, ParentsKept, PageIsShown
<1>4. QED
  BY <1>1, <1>2, <1>3, PTL DEF Spec, WindowsKept

\* One who follows the events of a session's cookies has its jar, whatever was
\* set, deleted and cleared, in any number of sessions, and the jar has one
\* cookie of a key (session.go: Cookies.Set, Remove, ClearStorageData).
THEOREM SessionsAlwaysKept == Spec => []SessionsKept
<1> DEFINE Inv == api = "session" => SessionsInv
<1>1. Init => Inv
  BY SessionsInit DEF Init
<1>2. ASSUME Inv, [Next]_<<api, object>>
      PROVE  Inv'
  BY <1>2, StepOfOne, SessionsStep
<1>3. Inv => SessionsKept
  BY DEF SessionsInv, IsSession, SessionsKept, S!ChangesTellTheJar
<1>4. QED
  BY <1>1, <1>2, <1>3, PTL DEF Spec

\* A trigger calls the callback that is registered, or was when it looked it
\* up, and never a missing one, whatever other goroutines register and unregister after its unlocking
\* (globalshortcut.go: Trigger).
THEOREM ShortcutsAlwaysKept == Spec => []ShortcutsKept
<1> DEFINE Inv == api = "globalShortcut" => IsRegistry(object)
<1>1. Init => Inv
  BY NewRegistryIsOne DEF Init, K!Init
<1>2. ASSUME Inv, [Next]_<<api, object>>
      PROVE  Inv'
  BY <1>2, StepOfOne, ShortcutsStep
<1>3. Inv => ShortcutsKept
  BY DEF IsRegistry, CallIsOf, ShortcutsKept, K!CallsWhatIsRegistered
<1>4. QED
  BY <1>1, <1>2, <1>3, PTL DEF Spec

\* A list of schemes that is refused halfway keeps what it added, and still no
\* scheme has extensions without being standard, none loses a privilege and
\* none gains one once the app is ready; what a page was given is never taken
\* or changed; a path goes with the one it is made of until it is set itself, the
\* logs stay where they were asked for, and a protocol, a document and the key
\* of a login item are registered once (protocol.go,
\* contextbridge.go, apppaths.go).
THEOREM RegistriesAlwaysKept == Spec => RegistriesKept
<1> DEFINE Inv == /\ api = "protocol" => IsSchemes(object)
                  /\ api = "contextBridge" => IsBridge(object)
                  /\ api = "app" => IsStore(object)
<1>1. Init => Inv
  BY NewSchemes, NewBridge, NewStoreIsOne DEF Init, R!Init, B!Init, A!Init
<1>2. ASSUME Inv, [Next]_<<api, object>>
      PROVE  /\ Inv'
             /\ [api = "protocol" => R!PrivilegesStay]_object
             /\ [api = "contextBridge" => B!ExposuresStay]_object
             /\ [api = "app" => A!LogsStay]_object
  <2>1. UNCHANGED api
    BY <1>2, StepOfOne
  <2>2. CASE api = "protocol"
    <3>1. IsSchemes(object') /\ [R!PrivilegesStay]_object
      BY <1>2, <2>2, StepOfOne, SchemesStep
    <3>2. QED
      BY <2>1, <2>2, <3>1
  <2>3. CASE api = "contextBridge"
    <3>1. IsBridge(object') /\ [B!ExposuresStay]_object
      BY <1>2, <2>3, StepOfOne, BridgeStep
    <3>2. QED
      BY <2>1, <2>3, <3>1
  <2>4. CASE api = "app"
    <3>1. IsStore(object') /\ [A!LogsStay]_object
      BY <1>2, <2>4, StepOfOne, StoreStep
    <3>2. QED
      BY <2>1, <2>4, <3>1
  <2>5. CASE api \notin {"protocol", "contextBridge", "app"}
    BY <2>1, <2>5
  <2>6. QED
    BY <2>2, <2>3, <2>4, <2>5
<1>3. Inv => /\ api = "protocol" => R!ExtensionsAreStandard
             /\ api = "app" => A!PathsFollow /\ A!RegistrationsAgree
  BY StoreAgrees DEF IsSchemes, R!ExtensionsAreStandard
<1>4. QED
  BY <1>1, <1>2, <1>3, PTL DEF Spec, RegistriesKept

\* Every click on a menu is answered by what its item asks for, whatever was
\* popped up between; a notification is used while it shows, by the actions and
\* the reply its options offer; an update that is installed is the last one
\* downloaded, and was the last one announced when it was; what a service
\* reports never goes back and is started and stopped in turn; a stored text
\* comes back to the backend and key that encrypted it, and to nobody else
\* (menu.go, notification.go, updater.go, services.go, storage.go).
THEOREM JournalsAlwaysKept == Spec => JournalsKept
<1> DEFINE Inv == /\ api = "menu" => IsMenus(object)
                  /\ api = "notification" => IsNotice(object)
                  /\ api = "autoUpdater" => IsUpdater(object)
                  /\ api = "service" => IsService(object)
                  /\ api = "desktop" => IsDesktop(object)
<1>1. Init => Inv
  BY NewMenuIsOne, NewNoticeIsOne, NewUpdaterIsOne, NewServiceIsOne, NewDesktopIsOne
     DEF Init, M!Init, N!Init, U!Init
<1>2. ASSUME Inv, [Next]_<<api, object>>
      PROVE  /\ Inv'
             /\ [api = "menu" => M!ClicksAreAnswered]_object
             /\ [api = "service" => P!ReportsStay]_object
  <2>1. UNCHANGED api
    BY <1>2, StepOfOne
  <2>2. CASE api = "menu"
    <3>1. IsMenus(object') /\ [M!ClicksAreAnswered]_object
      BY <1>2, <2>2, StepOfOne, MenusStep
    <3>2. QED
      BY <2>1, <2>2, <3>1
  <2>3. CASE api = "notification"
    <3>1. IsNotice(object')
      BY <1>2, <2>3, StepOfOne, NoticeStep
    <3>2. QED
      BY <2>1, <2>3, <3>1
  <2>4. CASE api = "autoUpdater"
    <3>1. IsUpdater(object')
      BY <1>2, <2>4, StepOfOne, UpdaterStep
    <3>2. QED
      BY <2>1, <2>4, <3>1
  <2>5. CASE api = "service"
    <3>1. IsService(object') /\ [P!ReportsStay]_object
      BY <1>2, <2>5, StepOfOne, ServiceStep
    <3>2. QED
      BY <2>1, <2>5, <3>1
  <2>6. CASE api = "desktop"
    <3>1. IsDesktop(object')
      BY <1>2, <2>6, StepOfOne, DesktopStep
    <3>2. QED
      BY <2>1, <2>6, <3>1
  <2>7. CASE api \notin {"menu", "notification", "autoUpdater", "service", "desktop"}
    BY <2>1, <2>7
  <2>8. QED
    BY <2>2, <2>3, <2>4, <2>5, <2>6, <2>7
<1>3. Inv => /\ api = "notification" => N!JournalIsPossible
             /\ api = "autoUpdater" => U!InstallsTheLastDownloaded
             /\ api = "service" => P!Alternates
             /\ api = "desktop" => D!OnlyItsOwnerDecrypts
  BY NoticeIsPossible, UpdaterInstalls, ServiceAlternates, DesktopDecrypts
<1>4. QED
  BY <1>1, <1>2, <1>3, PTL DEF Spec, JournalsKept

\* Whatever one or two files are packed and one put beside, in whatever order
\* the directories list them, whatever was left beside the archive and whichever
\* write failed where, an archive that was written without an error and opened
\* since gives back every file as it was, from the content or from beside; and
\* the length of a header is read back from its pickle (archive.go: Write, Open,
\* ReadFile).
THEOREM ArchivesAlwaysKept == Spec => []AsarKept
<1> DEFINE Inv == api = "asar" => IsArchive(object)
<1>1. Init => Inv
  BY NewArchiveIsOne DEF Init, Z!Init
<1>2. ASSUME Inv, [Next]_<<api, object>>
      PROVE  Inv'
  BY <1>2, StepOfOne, ArchiveStep
<1>3. Inv => AsarKept
  BY ArchiveReadsBack, PicklesAreRead DEF AsarKept
<1>4. QED
  BY <1>1, <1>2, <1>3, PTL DEF Spec
=============================================================================
