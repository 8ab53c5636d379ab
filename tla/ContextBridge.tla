--------------------------- MODULE ContextBridge ----------------------------
(* The context bridge (internal/contextbridge): values that the preload       *)
(* script exposes to worlds, deep copies in and out, so that a value is what  *)
(* it was when it was copied. Values are trees of two levels.                 *)
EXTENDS Integers, Sequences

CONSTANTS Worlds,      \* world ids asked for, a negative one among them
          Keys,        \* API keys; "" and "a.b" are refused
          Values       \* what is exposed: kind, text, children

VARIABLE bridge
-----------------------------------------------------------------------------
New == [complete |-> FALSE, exposures |-> [w \in {} |-> {}], ret |-> "ok"]

Refuse(b, error) == [b EXCEPT !.ret = error]

\* A value: its kind, and what it holds of its own: text for a scalar and the
\* name of a function, children (named by a key in an object) for the others.
BadKey(key) == key \in {"", "a.b"}

\* cloneValue refuses unknown kinds, functions without a name and objects with
\* an empty key, at any depth; values here are two levels deep.
BadLeaf(v)  == v.kind = "unknown" \/ (v.kind = "function" /\ v.text = "")
BadValue(v) == \/ BadLeaf(v)
               \/ v.kind \in {"object", "array"}
                    /\ \E i \in DOMAIN v.children :
                          BadLeaf(v.children[i]) \/ (v.kind = "object" /\ v.children[i].key = "")

Exposed(b, world) == IF world \in DOMAIN b.exposures THEN b.exposures[world] ELSE {}

\* An exposure is <<key, value>>.
HasKey(b, world, key) == \E e \in Exposed(b, world) : e[1] = key

ExposeInIsolatedWorld(b, world, key, value) ==
    IF b.complete THEN Refuse(b, "ErrPreloadOrder")
    ELSE IF world < 0 THEN Refuse(b, "ErrInvalidWorld")
    ELSE IF BadKey(key) THEN Refuse(b, "ErrInvalidAPIKey")
    ELSE IF BadValue(value) THEN Refuse(b, "ErrInvalidValue")
    ELSE IF HasKey(b, world, key) THEN Refuse(b, "ErrAlreadyExposed")
    ELSE [b EXCEPT !.ret = "ok",
                   !.exposures = [w \in DOMAIN @ \cup {world} |->
                       Exposed(b, w) \cup IF w = world THEN {<<key, value>>} ELSE {}]]

ExposeInMainWorld(b, key, value) == ExposeInIsolatedWorld(b, 0, key, value)
CompletePreload(b)               == [b EXCEPT !.complete = TRUE]

\* What is exposed cannot be written, whatever its kind.
MutateExposure(b, world, key) ==
    Refuse(b, IF HasKey(b, world, key) THEN "ErrMutationNotAllowed" ELSE "ErrInvalidAPIKey")
-----------------------------------------------------------------------------
Init == bridge = New

Next ==
    \/ \E w \in Worlds, k \in Keys, v \in Values :
           bridge' = ExposeInIsolatedWorld(bridge, w, k, v)
    \/ \E k \in Keys, v \in Values : bridge' = ExposeInMainWorld(bridge, k, v)
    \/ bridge' = CompletePreload(bridge)
    \/ \E w \in Worlds, k \in Keys : bridge' = MutateExposure(bridge, w, k)

Spec == Init /\ [][Next]_bridge
-----------------------------------------------------------------------------
\* What was exposed stays as it was exposed, under a key that is the only one
\* of its name in its world; and nothing is exposed after the preload script.
ExposuresStay ==
    /\ \A w \in DOMAIN bridge.exposures : Exposed(bridge, w) \subseteq Exposed(bridge', w)
    /\ \A w \in DOMAIN bridge'.exposures : \A d, e \in Exposed(bridge', w) : d[1] = e[1] => d = e
    /\ bridge.complete => bridge'.complete /\ bridge'.exposures = bridge.exposures
=============================================================================
