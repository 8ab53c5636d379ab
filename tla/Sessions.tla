------------------------------ MODULE Sessions ------------------------------
(* Sessions by partition (internal/session): permissions, cookies with their  *)
(* change events, clearing of storage, and the choice of a WebAuthn account.  *)
(* The journal of cookie changes is kept as what it says to one who replays   *)
(* it. Trimming, letter case and the text of URLs are left out: a URL is its  *)
(* scheme and host, a partition a name that was trimmed.                      *)
EXTENDS Integers, Sequences, FiniteSets

CONSTANTS Partitions,     \* names asked for; Default and Malformed among them
          Default,        \* the empty name
          Malformed,      \* a name with control characters
          Persistent,     \* the names with the persist: prefix
          Hosts, NoHost,  \* host names; the host of a URL that has none
          MaxSessions,    \* bound: sessions made
          Cookies         \* what is set: name, value, host and scheme of the URL,
                          \* secure, domain (NoHost when none is given) and whether
                          \* it starts with a dot, path

VARIABLE sessions         \* the partitions asked for so far and their sessions
-----------------------------------------------------------------------------
NewSession(partition) ==
    [persistent |-> partition = Default \/ partition \in Persistent,
     handler |-> <<>>, check |-> <<>>,      \* at most one answer: the handler's
     jar |-> {}, replayed |-> {}, cacheCleared |-> FALSE, ret |-> "ok"]

\* DefaultSession is FromPartition(Default).
FromPartition(ss, partition) ==
    IF partition = Malformed \/ partition \in DOMAIN ss THEN ss
    ELSE [p \in DOMAIN ss \cup {partition} |->
             IF p = partition THEN NewSession(p) ELSE ss[p]]

CheckPermission(s) == IF s.check # <<>> THEN s.check[1]
                      ELSE s.handler # <<>> /\ s.handler[1]

\* A request goes to the request handler; without one the check decides.
RequestPermission(s) ==
    LET granted == IF s.handler # <<>> THEN s.handler[1] ELSE CheckPermission(s) IN
    [s EXCEPT !.ret = IF granted THEN "ok" ELSE "ErrPermissionDenied"]
-----------------------------------------------------------------------------
\* What the session makes of the cookie it is given: the domain is the host of
\* the URL when none is given. No check relates a given domain to the host.
BadCookie(c)       == c.name = "" \/ c.host = NoHost \/ (c.secure /\ c.scheme # "https")
NormalizeCookie(c) == [c EXCEPT !.domain = IF @ = NoHost THEN c.host ELSE @,
                                !.path = IF @ = "" THEN "/" ELSE @]
CookieKey(c)       == <<c.dotted, c.domain, c.path, c.name>>

\* Takes cookies away without an event.
FaultyRemoved(s, gone) == [s EXCEPT !.jar = @ \ gone, !.ret = "ok"]

Removed(s, gone) == [s EXCEPT !.jar = @ \ gone, !.replayed = @ \ gone, !.ret = "ok"]

SetCookie(s, cookie) ==
    IF BadCookie(cookie) THEN [s EXCEPT !.ret = "ErrInvalidCookie"]
    ELSE LET c   == NormalizeCookie(cookie)
             old == {d \in s.jar : CookieKey(d) = CookieKey(c)}
             s2  == [s EXCEPT !.replayed = @ \ old]      \* the overwrite event
         IN [s2 EXCEPT !.jar = (@ \ old) \cup {c}, !.replayed = @ \cup {c}, !.ret = "ok"]

\* Every path, and the domain with the leading dot and without.
DeleteCookie(s, host, name) ==
    IF host = NoHost \/ name = "" THEN [s EXCEPT !.ret = "ErrInvalidCookie"]
    ELSE Removed(s, {c \in s.jar : c.name = name /\ c.domain = host})

ClearCache(s) == [s EXCEPT !.cacheCleared = TRUE]

ShouldClear(storages, target) == storages = {} \/ target \in storages

\* A malformed origin refuses the call before anything is cleared. Quotas are
\* dropped from what is kept of the call.
ClearStorageData(s, storages, origins) ==
    IF NoHost \in origins THEN [s EXCEPT !.ret = "ErrUnsupportedClearOption"]
    ELSE IF ~ShouldClear(storages, "cookies") THEN [s EXCEPT !.ret = "ok"]
    ELSE Removed(s, {c \in s.jar : origins = {} \/ c.domain \in origins})

\* The handler's answer has to be one of the credentials offered; NoAnswer is a
\* handler that fails, no handler is <<>>.
SelectWebAuthnAccount(s, request, ids, handler) ==
    LET bad == \/ request = "" \/ ids = <<>> \/ \E i \in DOMAIN ids : ids[i] = ""
               \/ \E i, j \in DOMAIN ids : i # j /\ ids[i] = ids[j]
    IN [s EXCEPT !.ret = IF bad \/ handler = <<>> THEN "ErrInvalidWebAuthnSelection"
                         ELSE IF \E i \in DOMAIN ids : ids[i] = handler[1] THEN handler[1]
                         ELSE "ErrInvalidWebAuthnSelection"]
-----------------------------------------------------------------------------
Init == sessions = [p \in {} |-> NewSession(p)]

\* One call on the session of partition p.
On(p, session) == sessions' = [sessions EXCEPT ![p] = session]

Next ==
    \/ \E p \in Partitions :
           /\ p \in DOMAIN sessions \/ Cardinality(DOMAIN sessions) < MaxSessions
           /\ sessions' = FromPartition(sessions, p)
    \/ \E p \in DOMAIN sessions, answer \in {<<>>, <<FALSE>>, <<TRUE>>} :
           On(p, [sessions[p] EXCEPT !.handler = answer])
    \/ \E p \in DOMAIN sessions, answer \in {<<>>, <<FALSE>>, <<TRUE>>} :
           On(p, [sessions[p] EXCEPT !.check = answer])
    \/ \E p \in DOMAIN sessions : On(p, RequestPermission(sessions[p]))
    \/ \E p \in DOMAIN sessions, c \in Cookies : On(p, SetCookie(sessions[p], c))
    \/ \E p \in DOMAIN sessions, h \in Hosts \cup {NoHost}, name \in {"", "sid"} :
           On(p, DeleteCookie(sessions[p], h, name))
    \/ \E p \in DOMAIN sessions : On(p, ClearCache(sessions[p]))
    \/ \E p \in DOMAIN sessions, origins \in SUBSET (Hosts \cup {NoHost}),
          storages \in {{}, {"cookies"}, {"localstorage"}} :
           On(p, ClearStorageData(sessions[p], storages, origins))
    \/ \E p \in DOMAIN sessions, ids \in {<<>>, <<"a">>, <<"a", "b">>, <<"a", "a">>},
          handler \in {<<>>, <<"b">>} :
           On(p, SelectWebAuthnAccount(sessions[p], "r", ids, handler))

Spec == Init /\ [][Next]_sessions
-----------------------------------------------------------------------------
\* One who follows the change events has the jar, overwrites, deletions over
\* several paths and clearings included; and the jar has one cookie of a key.
ChangesTellTheJar ==
    \A p \in DOMAIN sessions :
        /\ sessions[p].replayed = sessions[p].jar
        /\ \A c, d \in sessions[p].jar : CookieKey(c) = CookieKey(d) => c = d
=============================================================================
