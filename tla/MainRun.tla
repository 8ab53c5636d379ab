-------------------------------- MODULE MainRun --------------------------------
(***************************************************************************)
(* One process of the program: Runtime.Run and WarmRun of                  *)
(* internal/runtime/runtime.go, the plan internal/mainrunner makes of the  *)
(* application's main script and executes, the app's lifecycle events, and *)
(* the native layer of CefShim that all of it drives.  CheckCEFInitialize  *)
(* and CheckRuntimeProcessModel, which use the native layer alone, are     *)
(* processes of their own.                                                 *)
(*                                                                         *)
(* Times, traces, printed lines and the bytes of scripts are left out.  Of *)
(* a main script, Sources keeps what the parser looks for.                 *)
(***************************************************************************)
EXTENDS CefShim, Functions

CONSTANTS
  Entries, \* what the process may be started for
  Sources  \* main scripts, as the parser sees them

\* "launch" is Run with Options.SkipFinalShutdown, as launchApp sets it.
ASSUME EntryAssumption ==
  Entries \subseteq {"run", "launch", "warm", "initCheck", "processCheck"}
ASSUME SourceAssumption ==
  Sources \subseteq [benchmark : BOOLEAN, recognized : BOOLEAN, ipc : BOOLEAN,
                     calls : SUBSET {"mark", "close", "quit"},
                     allClosedQuits : BOOLEAN]

VARIABLES
  entry,    \* what this process was started for
  pc,       \* what the main thread does next
  plan,     \* the parsed plan
  todo,     \* the actions of the plan still to execute
  state,    \* Runtime.state
  err,      \* whether an operation has returned an error
  fault,    \* history: whether the world outside gave it a reason to
  ctxEnded, \* ctx.Err() # nil
  window,   \* the BrowserWindow object: none, open, closed
  events    \* the lifecycle events of the app, in order

run == <<plan, state, err, fault>>
app == <<window, events>>
vars == <<shimVars, entry, pc, todo, run, ctxEnded, app>>

-----------------------------------------------------------------------------
(* Parsing the main script. *)

NoPlan == [fast |-> FALSE, script |-> FALSE, actions |-> <<>>,
           allClosedQuits |-> FALSE]

BenchmarkPlan == [fast |-> TRUE, script |-> FALSE,
                  actions |-> <<"close", "quit">>, allClosedQuits |-> TRUE]

When(call, src) == IF call \in src.calls THEN <<call>> ELSE <<>>

FaultyActions(src) == When("mark", src) \o When("quit", src) \o When("close", src)

\* The order parseDidFinishLoadActions lists actions in, whatever the order of
\* the calls in the script.
Actions(src) == When("mark", src) \o When("close", src) \o When("quit", src)

Supported(src) ==
  src.benchmark \/ (src.recognized /\ (src.ipc \/ src.calls # {}))

Parsed(src) ==
  IF src.benchmark THEN BenchmarkPlan
  ELSE [NoPlan EXCEPT !.script = src.ipc,
          !.actions = IF src.ipc THEN <<>> ELSE Actions(src),
          !.allClosedQuits = src.allClosedQuits]

-----------------------------------------------------------------------------
(* The lifecycle of the app: events in the order App.Emit records them. *)

\* quitApp: App.Quit unless the app is already quitting.
QuitApp(log) ==
  IF "quit" \in Range(log) THEN log
  ELSE log \o <<"before-quit", "will-quit", "quit">>

\* App.WindowAllClosed with the handlers Execute installs, or without any.
WindowAllClosed(log) ==
  LET told == Append(log, "window-all-closed")
  IN  IF plan.allClosedQuits THEN QuitApp(told)
      ELSE told \o <<"before-quit", "will-quit", "quit">>

-----------------------------------------------------------------------------
IsRun == entry \in {"run", "launch"}

\* The native layer is driven by Bridge.Start or by a check, not by a plan.
Direct == plan = NoPlan

Init ==
  /\ ShimInit
  /\ entry \in Entries
  /\ pc = IF IsRun THEN "hook" ELSE IF entry = "warm" THEN "load"
                                                      ELSE "initialize"
  /\ plan = NoPlan
  /\ todo = <<>>
  /\ state = "created"
  /\ err = FALSE
  /\ fault = FALSE
  /\ ctxEnded = FALSE
  /\ window = "none"
  /\ events = <<>>

GoTo(label) == pc' = label /\ UNCHANGED <<entry, ctxEnded>>

\* An operation fails before CEF is initialized.
Abandon ==
  /\ GoTo("returned")
  /\ err' = TRUE
  /\ fault' = TRUE
  /\ UNCHANGED <<shimVars, plan, todo, app>>

\* An operation fails after it: on to the shutdown startMainPlanBridge, WarmRun,
\* Start and the checks all owe then.
Fail(why) ==
  /\ GoTo("shutdown")
  /\ err' = TRUE
  /\ fault' = (fault \/ why)
  /\ UNCHANGED <<plan, state, todo, events>>

-----------------------------------------------------------------------------
(* The main thread: Runtime.Run and WarmRun up to the bridge. *)

\* ExecuteSubprocess: the hook fails, takes the process over, or declines.
Hook ==
  /\ pc = "hook"
  /\ \/ Abandon /\ UNCHANGED state
     \/ /\ GoTo("returned")
        /\ state' = "stopped"
        /\ UNCHANGED <<shimVars, plan, todo, err, fault, app>>
     \/ GoTo("load") /\ UNCHANGED <<shimVars, run, todo, app>>

\* appmeta.Load, then ValidateStartRequest; WarmRun keeps Runtime.state.
LoadApp ==
  /\ pc = "load"
  /\ \/ Abandon /\ state' \in {state} \cup IF IsRun THEN {"metadata"} ELSE {}
     \/ /\ GoTo("parse")
        /\ state' = IF IsRun THEN "starting" ELSE state
        /\ UNCHANGED <<shimVars, plan, todo, err, fault, app>>

\* mainrunner.ParseFile cannot read the file, or parses it.  A script that is
\* not supported is left to Bridge.Start by Run, and refused by WarmRun.
ParseMain ==
  /\ pc = "parse"
  /\ \/ Abandon /\ UNCHANGED state
     \/ \E src \in Sources :
          /\ Supported(src) \/ IsRun
          /\ plan' = IF Supported(src) THEN Parsed(src) ELSE NoPlan
          /\ GoTo("initialize")
          /\ UNCHANGED <<shimVars, todo, state, err, fault, app>>

\* InitializeForStart; the index page the process check looks up before it.
Initialize ==
  /\ pc = "initialize"
  /\ \/ Abandon /\ UNCHANGED state
     \/ /\ ~ctxEnded
        /\ g' = [g EXCEPT !.initialized = TRUE]
        /\ GoTo(IF entry = "initCheck" THEN "shutdown"
                ELSE IF Direct THEN "create" ELSE "execute")
        /\ UNCHANGED <<mirror, loop, cef, seen, run, todo, app>>

-----------------------------------------------------------------------------
(* The main thread: mainrunner.Execute. *)

\* The fast benchmark has no app and no window object, and only closes the
\* native window after the load.
BeginExecute ==
  /\ pc = "execute"
  /\ GoTo("create")
  /\ events' = IF plan.fast THEN <<>> ELSE <<"will-finish-launching", "ready">>
  /\ todo' = IF plan.fast THEN <<"close">> ELSE plan.actions
  /\ UNCHANGED <<shimVars, run, window>>

\* The URL or the window options do not resolve, the context has ended, CEF
\* creates no browser, or it does.
CreateWindow ==
  /\ pc = "create"
  /\ LET auto == Direct \/ plan.fast
     IN  \/ Fail(TRUE) /\ UNCHANGED <<shimVars, window>>
         \/ ~ctxEnded /\ CreateFails(auto) /\ Fail(TRUE) /\ UNCHANGED window
         \/ /\ ~ctxEnded
            /\ CreateBrowser(IF plan.script THEN "blank" ELSE "page", auto)
            /\ window' = IF auto THEN "none" ELSE "open"
            /\ GoTo(IF plan.script THEN "script" ELSE "wait")
            /\ UNCHANGED <<run, todo, events>>

InstallScript ==
  /\ pc = "script"
  /\ IF ctxEnded \/ Refused
       THEN Fail(ctxEnded) /\ UNCHANGED <<shimVars, window>>
       ELSE SetScript /\ GoTo("loadURL") /\ UNCHANGED <<run, todo, app>>

LoadURL ==
  /\ pc = "loadURL"
  /\ IF ctxEnded \/ Refused
       THEN Fail(ctxEnded) /\ UNCHANGED <<shimVars, window>>
       ELSE LoadPage /\ GoTo("wait") /\ UNCHANGED <<run, todo, app>>

\* The start of runMessageLoopUntilLoad, or of runMessageLoop for Start, the
\* process check and CloseBrowserWindow.
Wait ==
  /\ pc \in {"wait", "close"}
  /\ IF ctxEnded
       THEN Fail(TRUE) /\ UNCHANGED <<shimVars, window>>
       ELSE /\ EnterLoop(pc = "wait" /\ ~Direct)
            /\ GoTo(IF pc = "wait" THEN "loading" ELSE "closing")
            /\ UNCHANGED <<run, todo, app>>

LeaveLoop ==
  /\ ReturnFromLoop
  /\ IF LoopSucceeded
       THEN /\ GoTo(CASE pc = "closing" -> "closed"
                      [] pc = "loading" /\ Direct -> "shutdown"
                      [] pc = "loading" /\ ~Direct -> "actions")
            /\ UNCHANGED <<run, todo, app>>
       ELSE Fail(seen.failed) /\ UNCHANGED window

\* mark, set-immediate and emit-trace change no state.
Mark ==
  /\ pc = "actions" /\ todo # <<>> /\ Head(todo) = "mark"
  /\ GoTo("actions")
  /\ todo' = Tail(todo)
  /\ UNCHANGED <<shimVars, run, app>>

\* The actions are done.  Printing the benchmark's trace, as the fast benchmark
\* and an app that quits may have to, can fail.
FinishActions ==
  /\ pc = "actions" /\ todo = <<>>
  /\ \/ GoTo("shutdown") /\ UNCHANGED <<run, todo, app>>
     \/ /\ plan.fast \/ "quit" \in Range(events)
        /\ Fail(TRUE) /\ UNCHANGED window
  /\ UNCHANGED shimVars

FaultyAlreadyClosed == FALSE

\* What CEFBridge.CloseBrowserWindow looks at before it closes anything.
AlreadyClosed == mirror.closed /\ mirror.lastID = TheBrowser

\* Window.Close, which fires no handlers here, then CloseBrowserWindow.
CloseWindow ==
  /\ pc = "actions" /\ todo # <<>> /\ Head(todo) = "close"
  /\ window' = IF window = "open" THEN "closed" ELSE window
  /\ IF AlreadyClosed
       THEN GoTo("closed") /\ UNCHANGED <<shimVars, run, todo, events>>
     ELSE IF ctxEnded \/ Refused
       THEN Fail(ctxEnded) /\ UNCHANGED shimVars
     ELSE /\ CloseBrowser /\ GoTo("close")
          /\ UNCHANGED <<mirror, loop, cef, run, todo, events>>

WindowClosed ==
  /\ pc = "closed"
  /\ GoTo("actions")
  /\ events' = IF plan.fast THEN events ELSE WindowAllClosed(events)
  /\ todo' = Tail(todo)
  /\ UNCHANGED <<shimVars, run, window>>

Quit ==
  /\ pc = "actions" /\ todo # <<>> /\ Head(todo) = "quit"
  /\ GoTo("actions")
  /\ events' = QuitApp(events)
  /\ todo' = Tail(todo)
  /\ UNCHANGED <<shimVars, run, window>>

FaultySkipsShutdown == entry = "launch" /\ ~Direct

SkipsShutdown == entry = "launch" /\ ~Direct /\ ~err

\* Shutdown changes nothing once its context has ended.  An error of Execute
\* is returned before one of Shutdown.
Shutdown ==
  /\ pc = "shutdown"
  /\ IF SkipsShutdown THEN UNCHANGED <<shimVars, err, fault>>
     ELSE IF ctxEnded THEN err' = TRUE /\ fault' = TRUE /\ UNCHANGED shimVars
     ELSE ShutdownCEF /\ UNCHANGED <<err, fault>>
  /\ state' = IF IsRun /\ ~err' THEN "stopped" ELSE state
  /\ GoTo("returned")
  /\ UNCHANGED <<plan, todo, app>>

-----------------------------------------------------------------------------
(* What goes on around the main thread. *)

InLoop(callback) ==
  callback /\ UNCHANGED <<entry, pc, todo, run, ctxEnded, app>>

\* The window goes away as the shim asked, or because the user closes it.
BeforeClose ==
  /\ OnBeforeClose
  /\ fault' = (fault \/ ~g.closeRequested)
  /\ UNCHANGED <<entry, pc, todo, plan, state, err, ctxEnded, app>>

CancelContext ==
  /\ ~ctxEnded /\ pc # "returned"
  /\ ctxEnded' = TRUE
  /\ UNCHANGED <<shimVars, entry, pc, todo, run, app>>

Returned == pc = "returned" /\ UNCHANGED vars

MainThread ==
  \/ Hook \/ LoadApp \/ ParseMain \/ Initialize \/ BeginExecute \/ CreateWindow
  \/ InstallScript \/ LoadURL \/ Wait \/ LeaveLoop \/ Mark \/ CloseWindow
  \/ FinishActions \/ WindowClosed \/ Quit \/ Shutdown

Navigation == OnLoadEnd \/ OnLoadAborted \/ OnLoadError
ScriptResult == \E page \in {"blank", "page"} : OnConsoleMessage(page)

Next ==
  \/ MainThread
  \/ InLoop(Navigation)
  \/ InLoop(OnLoadingStateChange)
  \/ InLoop(ScriptResult)
  \/ BeforeClose
  \/ CancelContext
  \/ Returned

Spec == Init /\ [][Next]_vars

(***************************************************************************)
(* Fairness: the main thread goes on when it can; while its loop runs, CEF *)
(* ends every navigation one way or another, reports the loading state,    *)
(* carries out the close it was asked for, and runs the load-end script to *)
(* its console message.  The user need not close and nobody need cancel.   *)
(***************************************************************************)
Fairness ==
  /\ WF_vars(MainThread)
  /\ WF_vars(InLoop(Navigation))
  /\ WF_vars(InLoop(OnLoadingStateChange))
  /\ WF_vars(InLoop(ScriptResult))
  /\ WF_vars(g.closeRequested /\ BeforeClose)

FairSpec == Spec /\ Fairness

-----------------------------------------------------------------------------
(* Properties. *)

\* The Go mirrors CloseBrowserWindow trusts agree with the globals of the shim.
MirrorsAgree ==
  mirror = [lastID |-> g.browserID, closed |-> g.browserClosed]

\* Nothing the program does to itself makes it fail: with no failure outside,
\* no end of its context and no window closed by the user, every request finds
\* the browser and the state it needs, and every loop succeeds.
FailuresHaveCauses == err => fault

\* The host of the browser is told to close no more than once, however many
\* of load end, load error, idle state and script result ask for it.
ClosedAtMostOnce == seen.closes <= 1

\* A process that opened a window and reports success has loaded a page in it
\* (with a load-end script: has seen the script's result) and has closed it.
SuccessMeansLoaded ==
  (pc = "returned" /\ ~err /\ browser # "none") =>
    /\ browser = "gone"
    /\ ~seen.failed
    /\ seen.completed \in IF plan.script THEN {"result"} ELSE {"end", "idle"}

\* The app is told that all its windows are closed when they are, in CEF too,
\* and quits no more than once: by window-all-closed or by its own app.quit().
AppFollowsWindow ==
  /\ "window-all-closed" \in Range(events) =>
       browser = "gone" /\ window = "closed"
  /\ \A i, j \in DOMAIN events : events[i] = events[j] => i = j

\* CEF is shut down by every process that initialized it, whatever failed in
\* between.  Two exceptions: a launch that succeeds leaves that to the end of
\* the process, and Shutdown does nothing with a context that has ended.
InitializedIsShutDown ==
  (pc = "returned" /\ g.initialized) =>
    ctxEnded \/ (entry = "launch" /\ ~err /\ browser = "gone")

\* CEF is never shut down under a live browser in a process that goes on to
\* report success.
NoShutdownUnderBrowser ==
  [][(g.initialized /\ ~g'.initialized /\ browser = "alive") => err]_vars

\* Every process returns.  The one exception is a page with a load-end script
\* whose navigation is aborted: nothing ends that loop but the user.
Wedged == /\ loop.running /\ g.script /\ seen.aborted
          /\ navs = <<>> /\ scripts = {}

ProcessReturns == <>(pc = "returned" \/ Wedged)
===============================================================================
