----------------------------- MODULE Protocols ------------------------------
(* Custom protocols (internal/protocol): privileges of schemes, which are     *)
(* frozen at a point of the start-up, and handlers, which come and go.        *)
(* A scheme is a name or the one that NormalizeScheme refuses.                *)
EXTENDS Integers, Sequences

CONSTANTS Schemes,      \* names of schemes, BadScheme among them
          BadScheme

VARIABLE registry
-----------------------------------------------------------------------------
NewRegistry == [locked |-> FALSE, privileges |-> [s \in {} |-> {}],
                handlers |-> [s \in {} |-> ""], ret |-> "ok"]

Refuse(r, error) == [r EXCEPT !.ret = error]

Put(f, key, value) == [k \in DOMAIN f \cup {key} |-> IF k = key THEN value ELSE f[k]]

\* Does not look whether the scheme has privileges.
FaultyRefusal(r, entry) ==
    IF entry.scheme = BadScheme THEN "ErrInvalidScheme"
    ELSE IF "allowExtensions" \in entry.privileges /\ "standard" \notin entry.privileges
    THEN "ErrInvalidPrivileges"
    ELSE "ok"

\* One entry of the list: [scheme, privileges], the latter a set of names.
Refusal(r, entry) ==
    IF entry.scheme = BadScheme THEN "ErrInvalidScheme"
    ELSE IF entry.scheme \in DOMAIN r.privileges THEN "ErrAlreadyRegistered"
    ELSE IF "allowExtensions" \in entry.privileges /\ "standard" \notin entry.privileges
    THEN "ErrInvalidPrivileges"
    ELSE "ok"

\* The list is taken entry by entry up to the first that is refused: those
\* before it stay registered although the call fails.
RegisterSchemesAsPrivileged(r, list) ==
    LET after[n \in 0..Len(list)] ==
            IF n = 0 THEN [r EXCEPT !.ret = "ok"]
            ELSE LET so == after[n-1] refusal == Refusal(so, list[n]) IN
                 IF so.ret # "ok" THEN so
                 ELSE IF refusal # "ok" THEN Refuse(so, refusal)
                 ELSE [so EXCEPT !.privileges = Put(@, list[n].scheme, list[n].privileges)]
    IN IF r.locked THEN Refuse(r, "ErrRegistryLocked") ELSE after[Len(list)]

LockPrivileges(r)        == [r EXCEPT !.locked = TRUE]
IsProtocolHandled(r, s)  == s \in DOMAIN r.handlers
PrivilegesFor(r, scheme) == IF scheme \in DOMAIN r.privileges THEN <<r.privileges[scheme]>>
                            ELSE <<>>

\* A handler is its responder: what it answers, or "none" for a handler that
\* has none. An empty kind is refused.
RegisterHandler(r, scheme, kind, responder) ==
    IF scheme = BadScheme THEN Refuse(r, "ErrInvalidScheme")
    ELSE IF kind = "" THEN Refuse(r, "ErrNotRegistered")
    ELSE IF scheme \in DOMAIN r.handlers THEN Refuse(r, "ErrAlreadyRegistered")
    ELSE [r EXCEPT !.handlers = Put(@, scheme, responder), !.ret = "ok"]

UnregisterProtocol(r, scheme) ==
    IF scheme = BadScheme THEN Refuse(r, "ErrInvalidScheme")
    ELSE IF scheme \notin DOMAIN r.handlers THEN Refuse(r, "ErrNotRegistered")
    ELSE [r EXCEPT !.handlers = [s \in DOMAIN @ \ {scheme} |-> @[s]], !.ret = "ok"]

\* The handler of the scheme answers; an answer with a status outside 100-599
\* or a malformed header is not handed on. Privileges are not asked for.
Dispatch(r, scheme) ==
    Refuse(r, IF scheme = BadScheme THEN "ErrInvalidScheme"
              ELSE IF scheme \notin DOMAIN r.handlers THEN "ErrNotRegistered"
              ELSE IF r.handlers[scheme] = "none" THEN "ErrNotRegistered"
              ELSE IF r.handlers[scheme] \in {"status 99", "status 600", "header"}
              THEN "ErrInvalidResponse"
              ELSE r.handlers[scheme])
-----------------------------------------------------------------------------
Init == registry = NewRegistry

Entries == [scheme : Schemes, privileges : SUBSET {"standard", "allowExtensions"}]
Answers == {"none", "status 99", "ok a", "ok b"}

Next ==
    \/ \E e, f \in Entries : registry' = RegisterSchemesAsPrivileged(registry, <<e, f>>)
    \/ registry' = LockPrivileges(registry)
    \/ \E s \in Schemes, kind \in {"", "string"}, a \in Answers :
           registry' = RegisterHandler(registry, s, kind, a)
    \/ \E s \in Schemes : registry' = UnregisterProtocol(registry, s)
    \/ \E s \in Schemes : registry' = Dispatch(registry, s)

Spec == Init /\ [][Next]_registry
-----------------------------------------------------------------------------
\* Privileges are for good: a scheme keeps those it was given, also by a call
\* that failed further on, none is added once they are locked, and no handler
\* comes or goes with them; a handler is replaced only by way of unregistering.
PrivilegesStay ==
    /\ \A s \in DOMAIN registry.privileges :
          s \in DOMAIN registry'.privileges /\ registry'.privileges[s] = registry.privileges[s]
    /\ registry.locked => registry'.locked /\ registry'.privileges = registry.privileges
    /\ registry'.privileges # registry.privileges => registry'.handlers = registry.handlers
    /\ \A s \in DOMAIN registry.handlers \cap DOMAIN registry'.handlers :
          registry'.handlers[s] = registry.handlers[s]

\* However the lists were cut short, no scheme has extensions that is not a
\* standard one.
ExtensionsAreStandard ==
    \A s \in DOMAIN registry.privileges :
        "allowExtensions" \in registry.privileges[s] => "standard" \in registry.privileges[s]
=============================================================================
