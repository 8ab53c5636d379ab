---------------------------- MODULE CommandLine -----------------------------
(* One run of electron-go (cmd/electron-go/main.go): a process of Chromium's  *)
(* own first of all, else the app named first on the line, else the flags, of *)
(* which the first in the order of the source answers alone, else the app.    *)
(* An argument is a flag by its name, "type" for --type or --type=..., "app"  *)
(* for a directory; warm is followed by its number. Values of flags such as   *)
(* --version=false, output that cannot be written, and the fields of the      *)
(* ledger are left out.                                                       *)
EXTENDS SelfChecks, SequencesExt

CONSTANTS Tokens,      \* arguments that lines are made of
          MaxTokens,   \* bound: arguments of a line
          Systems      \* GOOS

VARIABLES machine,     \* what the program finds: see Machines
          line,        \* the arguments
          at, exit,    \* where it is; its exit code, Running before that
          environ,     \* whether the environment was read
          launched     \* what was launched: at most one [dir, transform, warm]

vars == <<machine, line, at, exit, environ, launched, said>>
Running == -1
-----------------------------------------------------------------------------
\* cef: built with the native runtime; disk: the disk takes files; package: main
\* in the package.json of the app, if there is one; ledger: complete with
\* evidence for all of it, without, or not complete; gates: the variables of
\* the conformance gates are set; benchmark: the evidence file.
Machines ==
    {m \in [cef : BOOLEAN, os : Systems, disk : BOOLEAN, package : {"", "missing", "../main"},
            ledger : {"proven", "unproven", "incomplete"}, gates : BOOLEAN,
            benchmark : {"fast", "slow", "malformed"}] :
        m.cef => m.os = "linux"}

LedgerFlags == <<"version", "compat_json", "e2e_audit", "check_parity", "runtime_audit", "goal_audit">>
WindowFlags == <<"window_options", "window_methods", "view_tree", "view_animation", "navigation",
                 "devtools_target", "print", "focus", "offscreen", "ipc", "context_bridge", "cef_init">>
DesktopFlags == <<"clipboard", "clipboard_formats", "shell", "chromium", "tracing", "crash",
                  "process_model">>
AppFlags == <<"app_lifecycle", "app_paths", "asar", "app_webauthn", "app_is_active", "auto_updater",
              "shortcut", "suspension", "menu", "native_theme">>
NetFlags == <<"netlog", "client_request", "node_options", "node_versions">>
OtherFlags == <<"notification", "notification_failure", "notification_identity", "safe_storage",
                "packaging", "protocol", "session", "session_quotas", "session_webauthn",
                "utility_process">>

Order == LedgerFlags \o WindowFlags \o DesktopFlags \o AppFlags \o NetFlags \o OtherFlags

\* Flags that end the run with an exit code of their own and no report here:
\* those that always end well, and those that the machine decides.
Printing == {"version", "compat_json", "e2e_audit", "node_options", "app_is_active"}
Open     == {"ipc", "app_lifecycle", "native_theme", "cef_init", "process_model"}

IsChild(args) == Contains(args, "type")

FastPath(args) == args # <<>> => args[1] = "app"

\* The arguments up to the first that is no flag, and those after them.
IsFlag(token) == token \notin {"app", "--"}
Flags(args) == LET n == SelectInSeq(args, LAMBDA t : ~IsFlag(t)) IN
               IF n = 0 THEN args ELSE SubSeq(args, 1, n - 1)
Rest(args)  == LET after == SubSeq(args, Len(Flags(args)) + 1, Len(args)) IN
               IF after # <<>> /\ after[1] = "--" THEN Tail(after) ELSE after

BadFlags(args) == \E i \in DOMAIN Flags(args) : Flags(args)[i] \in {"unknown", "type"}

\* The flag that answers, if one was given; the last number of warm runs.
Answers(args) == SelectSeq(Order, LAMBDA f : Contains(Flags(args), f))
WarmRuns(args) ==
    LET given == SelectSeq(Flags(args), LAMBDA t : t \in {"warm 0", "warm 1", "warm 2"}) IN
    CASE given = <<>>             -> 0
      [] Last(given) = "warm 0"   -> 0
      [] Last(given) = "warm 1"   -> 1
      [] OTHER                    -> 2

\* Node's option counts wherever it stands, behind the app too.
Transform(args) == Contains(args, "transform")

AppDir(args) == IF Contains(Flags(args), "hello") THEN "hello"
                ELSE IF Rest(args) # <<>> THEN Rest(args)[1] ELSE "."

\* Whether the package of the app launched can be loaded.
Loadable == LoadMetadata(launched[1].dir, machine.package) # <<>>
-----------------------------------------------------------------------------
Lines == SeqOf(Tokens, MaxTokens) \cup {<<Order[i]>> : i \in DOMAIN Order}

Init == /\ machine \in Machines /\ line \in Lines
        /\ at = "start" /\ exit = Running /\ environ = FALSE /\ launched = <<>> /\ said = <<>>

Exits(code) == at' = "exited" /\ exit' = code

\* Any argument --type makes the process one of Chromium's, whose code is told
\* as far as it is 0. The native runtime may decline, and the run goes on as
\* if it had not been asked.
ExecuteSubprocess ==
    /\ at = "start"
    /\ IF IsChild(line) /\ ~machine.cef THEN Exits(78)
       ELSE \/ at' = "arguments" /\ exit' = exit
            \/ IsChild(line) /\ \E code \in {0, 1} : Exits(code)
    /\ UNCHANGED <<machine, line, environ, launched, said>>

\* The environment is read only by what is no process of Chromium's. The app
\* named first is launched without a look at the rest, Node's option included.
TakeFastPath ==
    /\ at = "arguments" /\ FastPath(line)
    /\ launched' = <<[dir |-> IF line = <<>> THEN "." ELSE line[1], transform |-> FALSE, warm |-> 0]>>
    /\ environ' = TRUE /\ at' = "launch"
    /\ UNCHANGED <<machine, line, exit, said>>

ParseFlags ==
    /\ at = "arguments" /\ ~FastPath(line)
    /\ environ' = TRUE
    /\ IF BadFlags(line) THEN Exits(2) /\ launched' = launched
       ELSE IF Answers(line) # <<>> THEN at' = "answer" /\ UNCHANGED <<exit, launched>>
       ELSE /\ at' = "launch" /\ exit' = exit
            /\ launched' = <<[dir |-> AppDir(line), transform |-> Transform(line),
                              warm |-> WarmRuns(line)]>>
    /\ UNCHANGED <<machine, line, said>>

\* The audits by their own verdict. The comparison overwrites the verdict of an
\* evidence file that is malformed, where both numbers are zero.
AuditPasses(flag) ==
    LET ledger == machine.ledger = "proven" IN
    CASE flag = "check_parity"  -> ledger
      [] flag = "runtime_audit" -> machine.gates
      [] flag = "goal_audit"    -> ledger /\ machine.gates /\ machine.benchmark # "slow"

Audits == {"check_parity", "runtime_audit", "goal_audit"}

\* Goes by neither.
FaultyReportCode(flag, report) == 0

\* safe_storage goes by its answer, all others by their error.
ReportCode(flag, report) ==
    LET good == IF flag = "safe_storage" THEN report.answers.roundTrip ELSE ~report.error IN
    IF good THEN 0 ELSE 1

\* What needs Chromium fails without it.
Answer ==
    LET flag == Answers(line)[1] IN
    /\ at = "answer"
    /\ IF flag \in Printing THEN Exits(0) /\ said' = said
       ELSE IF flag \in Audits THEN Exits(IF AuditPasses(flag) THEN 0 ELSE 1) /\ said' = said
       ELSE IF flag \in Open
       THEN \E fails \in IF flag \in {"cef_init", "process_model"} /\ ~machine.cef THEN {TRUE} ELSE BOOLEAN :
                Exits(IF fails THEN 1 ELSE 0) /\ said' = said
       ELSE LET report == Check(flag, machine.os, machine.disk) IN
            said' = <<[flag |-> flag, report |-> report]>> /\ Exits(ReportCode(flag, report))
    /\ UNCHANGED <<machine, line, environ, launched>>

\* The package is loaded before the bridge is asked.
LaunchApp ==
    /\ at = "launch" /\ launched[1].warm = 0
    /\ IF ~Loadable THEN Exits(1)
       ELSE IF ~machine.cef THEN Exits(78) ELSE \E code \in {0, 1} : Exits(code)
    /\ UNCHANGED <<machine, line, environ, launched, said>>

\* Only one iteration is done, and not without the native runtime.
RunWarmBenchmark ==
    /\ at = "launch" /\ launched[1].warm > 0
    /\ IF launched[1].warm > 1 \/ ~machine.cef \/ ~Loadable THEN Exits(1)
       ELSE \E code \in {0, 1} : Exits(code)
    /\ UNCHANGED <<machine, line, environ, launched, said>>

Done == at = "exited" /\ UNCHANGED vars

Next == ExecuteSubprocess \/ TakeFastPath \/ ParseFlags \/ Answer \/ LaunchApp
        \/ RunWarmBenchmark \/ Done

Spec == Init /\ [][Next]_vars
-----------------------------------------------------------------------------
\* Each check says of its calls what its test in main_test.go expects: the
\* fields in Denied no, all others yes; and it has an error only where the
\* disk refused its files.
ReportsAsTested ==
    \A i \in DOMAIN said :
        LET flag == said[i].flag report == said[i].report IN
        IF report.error THEN flag \in {"app_paths", "asar"} /\ ~machine.disk
        ELSE \A f \in DOMAIN report.answers : report.answers[f] = (<<flag, f>> \notin Denied)

\* The exit code tells what happened: 0 never hides a report with an error, 2
\* is a run that did nothing, 78 one that lacked the native runtime, for a
\* process of Chromium's (which never reads the environment or its flags) or
\* for an app that could be loaded. One run does not both answer and launch,
\* and Node's option reaches the app from wherever it stands among the flags.
ExitTellsTheReport ==
    /\ at = "exited" =>
         /\ exit = 0 /\ said # <<>> => ~said[1].report.error
         /\ exit = 2 => said = <<>> /\ launched = <<>> /\ environ
         /\ exit = 78 => ~machine.cef /\ (environ => launched # <<>> /\ Loadable)
         /\ ~environ => IsChild(line) /\ said = <<>> /\ launched = <<>>
    /\ said = <<>> \/ launched = <<>>
    /\ launched # <<>> /\ IsChild(line) => machine.cef
    /\ launched # <<>> /\ Contains(Flags(line), "transform") => launched[1].transform
=============================================================================
