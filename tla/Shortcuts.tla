----------------------------- MODULE Shortcuts ------------------------------
(* Global shortcuts (internal/globalshortcut): accelerators are parsed to a   *)
(* canonical form, under which one callback is registered; Trigger looks it   *)
(* up under the lock and calls the hook and the callback after unlocking, so  *)
(* other goroutines unregister and register in between.                       *)
EXTENDS Integers, SequencesExt

CONSTANTS Accelerators,  \* what callers write: sequences of the tokens of "A+B+C"
          Callbacks,
          Goroutines

VARIABLE registry
-----------------------------------------------------------------------------
\* canonicalModifier, of a token in lower case without spaces.
Modifiers ==
    [commandorcontrol |-> "CommandOrControl", cmdorctrl |-> "CommandOrControl",
     command |-> "Command", cmd |-> "Command", control |-> "Control", ctrl |-> "Control",
     alt |-> "Alt", option |-> "Alt", altgr |-> "AltGr", shift |-> "Shift",
     super |-> "Super", meta |-> "Super"]

IsModifier(token) == token \in DOMAIN Modifiers

\* canonicalKey: a single letter is written as a capital.
Capitals == [x |-> "X", y |-> "Y", z |-> "Z"]
CanonicalKey(token) == IF token \in DOMAIN Capitals THEN Capitals[token] ELSE token

\* The canonical tokens, or <<>> where ParseAccelerator refuses: an empty
\* token, a key that is not last or is missing, a modifier twice. The order of
\* the modifiers is kept, and is part of the canonical form.
Parse(tokens) ==
    LET n    == Len(tokens)
        mods == [i \in 1..n-1 |-> IF IsModifier(tokens[i]) THEN Modifiers[tokens[i]] ELSE ""]
    IN IF \/ n = 0 \/ IsModifier(tokens[n]) \/ tokens[n] = ""
          \/ \E i \in 1..n-1 : mods[i] = "" \/ (\E j \in 1..i-1 : mods[i] = mods[j])
       THEN <<>> ELSE Append(mods, CanonicalKey(tokens[n]))

NoCallback == "nil"

Idle == [at |-> "idle", key |-> <<>>, callback |-> NoCallback, unregistered |-> FALSE, ret |-> TRUE]

\* unregistered: a history of whether the key was unregistered since the look-up.
NewRegistry == [callbacks |-> [k \in {} |-> <<>>], suspended |-> FALSE,
                hook |-> FALSE, go |-> [g \in Goroutines |-> Idle], ret |-> TRUE]

\* Takes a registered accelerator over.
FaultyRegister(r, tokens, callback) ==
    LET key == Parse(tokens) IN
    IF key = <<>> \/ callback = NoCallback THEN [r EXCEPT !.ret = FALSE]
    ELSE [r EXCEPT !.callbacks = [k \in DOMAIN @ \cup {key} |->
                                     IF k = key THEN callback ELSE @[k]], !.ret = TRUE]

\* Register refuses what does not parse, a callback that is missing and an
\* accelerator that is taken.
Register(r, tokens, callback) ==
    LET key == Parse(tokens) IN
    IF key = <<>> \/ callback = NoCallback \/ key \in DOMAIN r.callbacks
    THEN [r EXCEPT !.ret = FALSE]
    ELSE [r EXCEPT !.callbacks = [k \in DOMAIN @ \cup {key} |->
                                     IF k = key THEN callback ELSE @[k]], !.ret = TRUE]

\* One after the other; what is refused does not keep the rest from it.
RegisterAll(r, list, callback) ==
    FoldLeft(LAMBDA reg, tokens : Register(reg, tokens, callback), r, list)

IsRegistered(r, tokens) == Parse(tokens) \in DOMAIN r.callbacks

Forget(r, keys) ==
    [r EXCEPT !.callbacks = [k \in DOMAIN @ \ keys |-> @[k]],
              !.go = [g \in Goroutines |->
                         [r.go[g] EXCEPT !.unregistered = @ \/ r.go[g].key \in keys]]]

Unregister(r, tokens) == Forget(r, {Parse(tokens)})
UnregisterAll(r)      == Forget(r, DOMAIN r.callbacks)

SetSuspended(r, suspended) == [r EXCEPT !.suspended = suspended]
SetTriggerHook(r, hook)    == [r EXCEPT !.hook = hook]

\* Trigger until it unlocks: where it is to go on, and with what.
LookUp(r, g, tokens) ==
    LET key == Parse(tokens) IN
    IF key \notin DOMAIN r.callbacks THEN [r EXCEPT !.go[g] = [Idle EXCEPT !.ret = FALSE]]
    ELSE IF r.suspended THEN [r EXCEPT !.go[g] = Idle]
    ELSE [r EXCEPT !.go[g] = [Idle EXCEPT !.at = IF r.hook THEN "hook" ELSE "callback",
                                          !.key = key, !.callback = r.callbacks[key]]]

HookReturns(r, g)     == [r EXCEPT !.go[g].at = "callback"]
CallbackReturns(r, g) == [r EXCEPT !.go[g] = Idle]
-----------------------------------------------------------------------------
Init == registry = NewRegistry

Next ==
    \/ \E a \in Accelerators, c \in Callbacks \cup {NoCallback} :
           registry' = Register(registry, a, c)
    \/ \E a, b \in Accelerators, c \in Callbacks \cup {NoCallback} :
           registry' = RegisterAll(registry, <<a, b>>, c)
    \/ \E a \in Accelerators : registry' = Unregister(registry, a)
    \/ registry' = UnregisterAll(registry)
    \/ \E on \in BOOLEAN : registry' = SetSuspended(registry, on)
    \/ \E on \in BOOLEAN : registry' = SetTriggerHook(registry, on)
    \/ \E g \in Goroutines, a \in Accelerators :
           registry.go[g].at = "idle" /\ registry' = LookUp(registry, g, a)
    \/ \E g \in Goroutines : registry.go[g].at = "hook" /\ registry' = HookReturns(registry, g)
    \/ \E g \in Goroutines :
           registry.go[g].at = "callback" /\ registry' = CallbackReturns(registry, g)

Spec == Init /\ [][Next]_registry
-----------------------------------------------------------------------------
\* The callback that a trigger is about to call is still the one registered,
\* unless its shortcut was unregistered after the look-up: registering, with
\* another spelling too, never takes a shortcut over. It is never a missing one.
CallsWhatIsRegistered ==
    \A g \in Goroutines :
        LET t == registry.go[g] IN
        /\ t.at # "idle" => t.callback # NoCallback
        /\ t.at # "idle" /\ ~t.unregistered =>
              t.key \in DOMAIN registry.callbacks /\ registry.callbacks[t.key] = t.callback
=============================================================================
