------------------------------ MODULE Services ------------------------------
(* What an app starts and stops: a utility process (internal/utilityprocess), *)
(* the net log (internal/netrequest), the tracer and the crash reporter       *)
(* (internal/diagnostics). One behaviour is about one of them, its kind.      *)
(* Payloads are left out; a malformed text is one that the code refuses.      *)
EXTENDS Integers, Sequences

CONSTANTS Keys,          \* of crash parameters
          MaxEvents      \* bound: length of the journals

VARIABLE service
-----------------------------------------------------------------------------
Journal(s, event) == [s EXCEPT !.events = Append(@, event), !.ret = "ok"]
Refuse(s, error)  == [s EXCEPT !.ret = error]

\* Fork: the options a process may have. A stdio that is not named is a pipe.
BadProcess(o) == o.module = "" \/ o.stdio \notin {"", "pipe", "ignore", "inherit"} \/ o.badEnv

Fork(o) == [kind |-> "process", on |-> FALSE, ret |-> "ok", events |-> <<>>,
            stdio |-> IF o.stdio = "" THEN "pipe" ELSE o.stdio, stdin |-> 0]

\* A process that was killed may be started again.
Start(p) == IF p.on THEN Refuse(p, "ErrAlreadyRunning")
            ELSE Journal([p EXCEPT !.on = TRUE], "spawn")

PostMessage(p) == IF p.on THEN Journal(p, "message") ELSE Refuse(p, "ErrNotRunning")

WriteStdin(p) == IF ~p.on THEN Refuse(p, "ErrNotRunning")
                 ELSE IF p.stdio # "pipe" THEN Refuse(p, "ErrInvalidOptions")
                 ELSE [p EXCEPT !.stdin = @ + 1, !.ret = "ok"]

Kill(p) == IF p.on THEN Journal([p EXCEPT !.on = FALSE], "exit") ELSE Refuse(p, "ErrNotRunning")

\* The net log; its events carry the path.
NetLog == [kind |-> "netlog", on |-> FALSE, ret |-> "ok", events |-> <<>>, path |-> ""]

StartLogging(n, path) ==
    IF path = "" THEN Refuse(n, "ErrInvalidRequest")
    ELSE IF n.on THEN Refuse(n, "ErrNetLogActive")
    ELSE Journal([n EXCEPT !.on = TRUE, !.path = path], <<"start", path>>)

StopLogging(n) == IF ~n.on THEN Refuse(n, "ErrNetLogInactive")
                  ELSE Journal([n EXCEPT !.on = FALSE], <<"stop", n.path>>)

\* The tracer: a result has the categories of its own start.
Tracer == [kind |-> "tracer", on |-> FALSE, ret |-> "ok", events |-> <<>>,
           categories |-> {}, started |-> <<>>]

StartTracing(t, categories) ==
    IF t.on THEN Refuse(t, "ErrTracingActive")
    ELSE LET all == IF categories = {} THEN {"*"} ELSE categories IN
         [t EXCEPT !.on = TRUE, !.categories = all, !.started = Append(@, all), !.ret = "ok"]

StopTracing(t) == IF ~t.on THEN Refuse(t, "ErrTracingInactive")
                  ELSE Journal([t EXCEPT !.on = FALSE], t.categories)

\* The crash reporter: parameters given at the start, and those added since,
\* which hide them and are the only ones that can be removed.
StartCrashReporter(keys) == [kind |-> "crash", ret |-> "ok", events |-> <<>>,
                             given |-> keys, added |-> {}]

BadReporter(upload, submitURL, keys) == (upload /\ submitURL = "") \/ "" \in keys

Parameters(c) == c.given \cup c.added

AddExtraParameter(c, key) == IF key = "" THEN Refuse(c, "ErrInvalidCrashReporter")
                             ELSE [c EXCEPT !.added = @ \cup {key}, !.ret = "ok"]
RemoveExtraParameter(c, key) == [c EXCEPT !.added = @ \ {key}]

\* A report keeps the parameters of its moment.
Capture(c, reason) == IF reason = "" THEN Refuse(c, "ErrInvalidCrashReporter")
                      ELSE Journal(c, Parameters(c))
-----------------------------------------------------------------------------
Forks == {o \in [module : {"", "m"}, stdio : {"", "ignore", "file"}, badEnv : BOOLEAN] :
             ~BadProcess(o)}

Init ==
    \/ \E o \in Forks : service = Fork(o)
    \/ service \in {NetLog, Tracer}
    \/ \E upload \in BOOLEAN, url \in {"", "u"}, keys \in SUBSET (Keys \cup {""}) :
           ~BadReporter(upload, url, keys) /\ service = StartCrashReporter(keys)

Is(kind) == service.kind = kind /\ Len(service.events) < MaxEvents

Next ==
    \/ Is("process") /\ service' = Start(service)
    \/ Is("process") /\ service' = PostMessage(service)
    \/ Is("process") /\ service.stdin < MaxEvents /\ service' = WriteStdin(service)
    \/ Is("process") /\ service' = Kill(service)
    \/ \E path \in {"", "a", "b"} : Is("netlog") /\ service' = StartLogging(service, path)
    \/ Is("netlog") /\ service' = StopLogging(service)
    \/ \E c \in SUBSET Keys : Is("tracer") /\ service' = StartTracing(service, c)
    \/ Is("tracer") /\ service' = StopTracing(service)
    \/ \E k \in Keys \cup {""} : Is("crash") /\ service' = AddExtraParameter(service, k)
    \/ \E k \in Keys : Is("crash") /\ service' = RemoveExtraParameter(service, k)
    \/ \E reason \in {"", "r"} : Is("crash") /\ service' = Capture(service, reason)

Spec == Init /\ [][Next]_service
-----------------------------------------------------------------------------
\* The journals alternate: between two spawns an exit, between two starts a
\* stop, with the path and the categories of the start it ends; nothing is
\* said to a process that does not run; and what runs is what the journal says.
Alternates ==
    LET e == service.events IN
    /\ service.kind = "process" =>
         /\ \A i \in DOMAIN e : (e[i] = "spawn") = (i = 1 \/ e[i-1] = "exit")
         /\ service.on = (e # <<>> /\ e[Len(e)] # "exit")
    /\ service.kind = "netlog" =>
         \A i \in DOMAIN e : IF i % 2 = 1 THEN e[i][1] = "start"
                             ELSE e[i] = <<"stop", e[i-1][2]>>
    /\ service.kind = "tracer" =>
         /\ \A i \in DOMAIN e : e[i] = service.started[i]
         /\ Len(service.started) = Len(e) + (IF service.on THEN 1 ELSE 0)

\* Crash reports are snapshots: a parameter added or removed later shows in
\* later reports only, and one given at the start is in all of them.
ReportsStay ==
    service.kind = "crash" =>
        /\ SubSeq(service'.events, 1, Len(service.events)) = service.events
        /\ \A i \in DOMAIN service.events : service.given \subseteq service.events[i]
=============================================================================
