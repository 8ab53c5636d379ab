------------------------------ MODULE MainRunProofs ------------------------------
(***************************************************************************)
(* Theorems about a process that runs a main script, for any entries and   *)
(* any scripts: every order of CEF's callbacks and every fault outside.    *)
(***************************************************************************)
EXTENDS MainRun, SequenceTheorems, TLAPS

-----------------------------------------------------------------------------
(* Types. *)

\* What is left of a plan's actions: some of the three, in order.
Lists ==
  {<<>>, <<"mark">>, <<"close">>, <<"quit">>, <<"mark", "close">>,
   <<"mark", "quit">>, <<"close", "quit">>, <<"mark", "close", "quit">>}

Plans ==
  {NoPlan, BenchmarkPlan} \cup
  [fast : {FALSE}, script : BOOLEAN, actions : Lists, allClosedQuits : BOOLEAN]

\* The events of an app: before its window is closed, and after it has quit.
Begun == {<<>>, <<"will-finish-launching", "ready">>}

Quitted ==
  {<<"before-quit", "will-quit", "quit">>,
   <<"will-finish-launching", "ready", "before-quit", "will-quit", "quit">>}

Left ==
  {<<"window-all-closed", "before-quit", "will-quit", "quit">>,
   <<"will-finish-launching", "ready", "window-all-closed", "before-quit",
     "will-quit", "quit">>}

Events ==
  {"will-finish-launching", "ready", "window-all-closed", "before-quit",
   "will-quit", "quit"}

Logs == Begun \cup Quitted \cup Left

\* No process of this program closes its window by the second loop, that of
\* CloseBrowserWindow: the first loop returns with the window closed.
Labels ==
  {"hook", "load", "parse", "initialize", "execute", "create", "script",
   "loadURL", "wait", "loading", "actions", "closed", "shutdown", "returned"}

Pages == {"blank", "page"}

Globals ==
  [initialized : BOOLEAN, browser : BOOLEAN, browserID : {NoBrowser, TheBrowser},
   loadComplete : BOOLEAN, loadFailed : BOOLEAN, closeRequested : BOOLEAN,
   browserClosed : BOOLEAN, autoClose : BOOLEAN, script : BOOLEAN]

Histories ==
  [completed : {"no", "end", "idle", "result"}, failed : BOOLEAN,
   aborted : BOOLEAN, closes : Nat]

ShimTypeOK ==
  /\ g \in Globals
  /\ mirror \in [lastID : {NoBrowser, TheBrowser}, closed : BOOLEAN]
  /\ loop \in [running : BOOLEAN, quit : BOOLEAN, autoClose : BOOLEAN]
  /\ browser \in {"none", "alive", "gone"}
  /\ navs \in Seq(Pages)
  /\ idleDue \in BOOLEAN
  /\ scripts \subseteq Pages
  /\ seen \in Histories

RunTypeOK ==
  /\ entry \in {"run", "launch", "warm", "initCheck", "processCheck"}
  /\ pc \in Labels
  /\ plan \in Plans
  /\ todo \in Lists
  /\ state \in {"created", "metadata", "starting", "stopped"}
  /\ err \in BOOLEAN /\ fault \in BOOLEAN /\ ctxEnded \in BOOLEAN
  /\ window \in {"none", "open", "closed"}
  /\ events \in Logs

TypeOK == ShimTypeOK /\ RunTypeOK

-----------------------------------------------------------------------------
(* The inductive invariant. *)

\* Until CEF has created a browser, and then until its loop runs, there is
\* nothing a callback could have left behind.
Untouched ==
  /\ browser = "none" \/ pc \in {"script", "loadURL", "wait"} =>
       /\ ~g.loadComplete /\ ~g.loadFailed /\ ~g.closeRequested
       /\ ~seen.failed /\ seen.closes = 0 /\ seen.completed = "no"
  /\ pc \in {"hook", "load", "parse", "initialize"} => ~g.initialized
  /\ pc \in {"hook", "load", "parse", "initialize", "execute", "create"} =>
       browser = "none" /\ ~g.script
  /\ pc \in {"execute", "create", "script", "loadURL"} => g.initialized
  /\ pc \in {"script", "loadURL"} =>
       browser = "alive" /\ g.browser /\ plan.script

\* The shim knows the browser CEF has, and the bridge knows what the shim does.
BrowserKnown ==
  /\ browser # "none" => g.browserID = TheBrowser
  /\ g.browserClosed <=> browser = "gone"
  /\ MirrorsAgree

\* Only the first loop runs, and it is told to quit for a reason.
LoopQuits ==
  /\ loop.running <=> pc = "loading"
  /\ loop.running /\ loop.quit => browser = "gone" \/ seen.failed
  /\ err => pc \in {"shutdown", "returned"}

\* A close is asked for once, when the load has completed or failed.
CloseAsked ==
  /\ seen.closes = IF g.closeRequested THEN 1 ELSE 0
  /\ g.closeRequested => g.loadComplete \/ g.loadFailed
  /\ g.loadFailed => seen.failed
  /\ seen.failed /\ pc = "loading" => g.loadFailed

\* A load-end script is in place until its result completes the load.
ScriptCompletes ==
  /\ g.script => plan.script
  /\ plan.script /\ pc \in {"loadURL", "wait", "loading"} =>
       g.script \/ g.loadComplete
  /\ g.loadComplete =>
       seen.completed \in IF plan.script THEN {"result"} ELSE {"end", "idle"}

\* Errors, and windows that go away, have causes.
Caused ==
  /\ err => fault
  /\ browser = "gone" => g.closeRequested \/ fault

\* The actions of a plan begin when the page is loaded and the window closed,
\* and the app is told of the window once it is marked closed.
Acting ==
  /\ entry \in {"initCheck", "processCheck"} =>
       Direct /\ pc \notin {"hook", "load", "parse", "execute"}
  /\ pc = "execute" => ~Direct
  /\ pc \in {"actions", "closed"} =>
       ~Direct /\ browser = "gone" /\ ~seen.failed /\ g.loadComplete
  /\ (pc \in {"script", "loadURL", "wait", "loading", "actions", "closed"}
        /\ ~Direct /\ ~plan.fast) => window \in {"open", "closed"}
  /\ pc = "closed" =>
       /\ todo # <<>> /\ Head(todo) = "close"
       /\ ~plan.fast => window = "closed"

\* The log of the app grows in step with its actions.
Logged ==
  /\ pc \in {"hook", "load", "parse", "initialize", "execute"} =>
       events = <<>> /\ todo = <<>>
  /\ pc \in {"create", "script", "loadURL", "wait", "loading"} => events \in Begun
  /\ todo # <<>> /\ Head(todo) # "quit" => events \in Begun
  /\ plan.fast => events = <<>> /\ todo \in {<<>>, <<"close">>}
  /\ events \in Left => browser = "gone" /\ window = "closed"

\* A process that ends in order has no live browser; one that fails, whatever
\* it leaves, reports it.
EndsInOrder ==
  /\ pc = "shutdown" /\ ~err /\ ~Direct => browser = "gone"
  /\ pc \in {"shutdown", "returned"} /\ ~err /\ browser # "none" =>
       browser = "gone" /\ ~seen.failed /\ g.loadComplete

IInv ==
  /\ TypeOK /\ Untouched /\ BrowserKnown /\ LoopQuits /\ CloseAsked
  /\ ScriptCompletes /\ Caused /\ Acting /\ Logged /\ EndsInOrder
  /\ InitializedIsShutDown

-----------------------------------------------------------------------------
(* Lists of actions and logs of events. *)

\* The first action of a list, and what may follow it.
LEMMA ActionsLeft ==
  ASSUME NEW list \in Lists, list # <<>>
  PROVE  /\ Head(list) \in {"mark", "close", "quit"}
         /\ Tail(list) \in Lists
         /\ Head(list) = "close" => Tail(list) \in {<<>>, <<"quit">>}
         /\ Head(list) = "quit" => Tail(list) = <<>>
<1>1. CASE list = <<"mark">>
  BY <1>1 DEF Lists
<1>6. CASE list = <<"close">>
  BY <1>6 DEF Lists
<1>7. CASE list = <<"quit">>
  BY <1>7 DEF Lists
<1>2. CASE list = <<"mark", "close">>
  BY <1>2 DEF Lists
<1>3. CASE list = <<"mark", "quit">>
  BY <1>3 DEF Lists
<1>4. CASE list = <<"close", "quit">>
  BY <1>4 DEF Lists
<1>5. CASE list = <<"mark", "close", "quit">>
  BY <1>5 DEF Lists
<1>8. QED
  BY <1>1, <1>2, <1>3, <1>4, <1>5, <1>6, <1>7 DEF Lists

\* Concatenation, element by element.
LEMMA ConcatAt ==
  ASSUME NEW S, NEW s \in Seq(S), NEW t \in Seq(S)
  PROVE  /\ s \o t \in Seq(S)
         /\ Len(s \o t) = Len(s) + Len(t)
         /\ \A i \in 1 .. Len(s) : (s \o t)[i] = s[i]
         /\ \A i \in 1 .. Len(t) : (s \o t)[Len(s) + i] = t[i]
BY ConcatProperties

\* A list that goes on with one more element.
LEMMA OneMore ==
  ASSUME NEW S, NEW s \in Seq(S), NEW x \in S
  PROVE  /\ Len(s) = 1 => s \o <<x>> = <<s[1], x>>
         /\ Len(s) = 2 => s \o <<x>> = <<s[1], s[2], x>>
<1> DEFINE t == <<x>>
           r == s \o t
<1>1. t \in Seq(S) /\ Len(t) = 1 /\ t[1] = x
  OBVIOUS
<1> HIDE DEF t
<1>2. CASE Len(s) = 1
  <2>1. r \in Seq(S) /\ Len(r) = 2 /\ r[1] = s[1] /\ r[2] = x
    BY <1>1, <1>2, ConcatAt
  <2> HIDE DEF r
  <2>2. r = <<s[1], x>>
    BY <2>1
  <2>3. QED
    BY <1>2, <2>2 DEF r, t
<1>3. CASE Len(s) = 2
  <2>1. r \in Seq(S) /\ Len(r) = 3 /\ r[1] = s[1] /\ r[2] = s[2] /\ r[3] = x
    BY <1>1, <1>3, ConcatAt
  <2> HIDE DEF r
  <2>2. r = <<s[1], s[2], x>>
    BY <2>1
  <2>3. QED
    BY <1>3, <2>2 DEF r, t
<1>4. QED
  BY <1>2, <1>3

\* Whatever a script calls, its actions are in order.
LEMMA ActionsAreListed ==
  ASSUME NEW src
  PROVE  Actions(src) \in Lists
<1> DEFINE S == {"mark", "close", "quit"}
           mark == When("mark", src)
           close == When("close", src)
           quit == When("quit", src)
           both == mark \o close
<1>1. /\ mark \in {<<>>, <<"mark">>}
      /\ close \in {<<>>, <<"close">>}
      /\ quit \in {<<>>, <<"quit">>}
  BY DEF When
<1>0. /\ <<>> \in Seq(S) /\ <<"mark", "close">> \in Seq(S)
      /\ \A x \in S : <<x>> \in Seq(S) /\ Len(<<x>>) = 1 /\ <<x>>[1] = x
  OBVIOUS
<1> HIDE DEF S, mark, close, quit
<1>2. "mark" \in S /\ "close" \in S /\ "quit" \in S
  BY DEF S
<1>3. mark \in Seq(S) /\ close \in Seq(S) /\ quit \in Seq(S)
  BY <1>0, <1>1, <1>2
<1>4. both \in {<<>>, <<"mark">>, <<"close">>, <<"mark", "close">>}
  <2>1. CASE mark = <<>> \/ close = <<>>
    BY <1>1, <1>3, <2>1, ConcatEmptySeq
  <2>2. CASE mark = <<"mark">> /\ close = <<"close">>
    BY <1>0, <1>2, <1>3, <2>2, OneMore
  <2>3. QED
    BY <1>1, <2>1, <2>2
<1> HIDE DEF both
<1>5. both \in Seq(S)
  BY <1>0, <1>2, <1>4
<1>6. both \o quit \in Lists
  <2>1. CASE both = <<>> \/ quit = <<>>
    <3>1. both \o quit \in {both, quit}
      BY <1>3, <1>5, <2>1, ConcatEmptySeq
    <3>2. QED
      BY <1>1, <1>4, <3>1 DEF Lists
  <2>2. CASE both \in {<<"mark">>, <<"close">>} /\ quit = <<"quit">>
    BY <1>0, <1>2, <1>5, <2>2, OneMore DEF Lists
  <2>3. CASE both = <<"mark", "close">> /\ quit = <<"quit">>
    <3>1. Len(both) = 2 /\ both[1] = "mark" /\ both[2] = "close"
      BY <2>3
    <3>2. QED
      BY <1>2, <1>5, <2>3, <3>1, OneMore DEF Lists
  <2>4. QED
    BY <1>1, <1>4, <2>1, <2>2, <2>3
<1>7. QED
  BY <1>6 DEF Actions, mark, close, quit, both

\* What the parser makes of a script is a plan.
LEMMA ParsedIsAPlan ==
  ASSUME NEW src \in Sources
  PROVE  Parsed(src) \in Plans
<1>1. src.ipc \in BOOLEAN /\ src.allClosedQuits \in BOOLEAN
  BY SourceAssumption
<1>2. (IF src.ipc THEN <<>> ELSE Actions(src)) \in Lists
  BY ActionsAreListed DEF Lists
<1>3. QED
  BY <1>1, <1>2 DEF Parsed, Plans, NoPlan, BenchmarkPlan

\* What a plan has.
LEMMA PlansHave ==
  ASSUME NEW p \in Plans
  PROVE  /\ p.fast \in BOOLEAN /\ p.script \in BOOLEAN /\ p.actions \in Lists
         /\ p.fast => ~p.script /\ p # NoPlan
<1>1. CASE p = NoPlan
  BY <1>1 DEF NoPlan, Lists
<1>2. CASE p = BenchmarkPlan
  BY <1>2 DEF BenchmarkPlan, NoPlan, Lists
<1>3. CASE p \in [fast : {FALSE}, script : BOOLEAN, actions : Lists,
                  allClosedQuits : BOOLEAN]
  BY <1>3
<1>4. QED
  BY <1>1, <1>2, <1>3 DEF Plans

\* The logs that hold an event.
LEMMA LogsHold ==
  ASSUME NEW log \in Logs
  PROVE  /\ "quit" \in Range(log) <=> log \in Quitted \cup Left
         /\ "window-all-closed" \in Range(log) => log \in Left
<1>1. CASE log \in Begun
  BY <1>1 DEF Begun, Quitted, Left, Range
<1>2. CASE log \in Quitted
  BY <1>2 DEF Quitted, Range
<1>3. CASE log \in Left
  BY <1>3 DEF Left, Range
<1>4. QED
  BY <1>1, <1>2, <1>3 DEF Logs

\* No event is twice in a log.
LEMMA LogsAreDistinct ==
  ASSUME NEW log \in Logs, NEW i \in DOMAIN log, NEW j \in DOMAIN log,
         log[i] = log[j]
  PROVE  i = j
<1>1. CASE log \in Begun
  BY <1>1 DEF Begun
<1>2. CASE log \in Quitted
  BY <1>2 DEF Quitted
<1>3. CASE log \in Left
  BY <1>3 DEF Left
<1>4. QED
  BY <1>1, <1>2, <1>3 DEF Logs

\* The three events of quitting, after a log.
QuitLog == <<"before-quit", "will-quit", "quit">>

LEMMA QuitEvents ==
  ASSUME NEW s \in Seq(Events)
  PROVE  /\ s \o QuitLog \in Seq(Events)
         /\ Len(s \o QuitLog) = Len(s) + 3
         /\ \A i \in 1 .. Len(s) : (s \o QuitLog)[i] = s[i]
         /\ (s \o QuitLog)[Len(s) + 1] = "before-quit"
         /\ (s \o QuitLog)[Len(s) + 2] = "will-quit"
         /\ (s \o QuitLog)[Len(s) + 3] = "quit"
<1>1. /\ QuitLog \in Seq(Events) /\ Len(QuitLog) = 3
      /\ QuitLog[1] = "before-quit" /\ QuitLog[2] = "will-quit"
      /\ QuitLog[3] = "quit"
  BY DEF Events, QuitLog
<1>2. QuitLog \in Seq(Events)
  BY <1>1
<1>3. s \o QuitLog \in Seq(Events)
  BY <1>2, ConcatAt
<1>4. Len(s \o QuitLog) = Len(s) + Len(QuitLog)
  BY <1>2, ConcatAt
<1>5. \A i \in 1 .. Len(s) : (s \o QuitLog)[i] = s[i]
  BY <1>2, ConcatAt
<1>6. \A i \in 1 .. Len(QuitLog) :
           (s \o QuitLog)[Len(s) + i] = QuitLog[i]
  BY <1>2, ConcatAt
<1>7. QED
  BY <1>1, <1>3, <1>4, <1>5, <1>6

\* An app that has not been told of its windows has not left.
LEMMA LogsApart ==
  ASSUME NEW log \in Begun \cup Quitted
  PROVE  log \notin Left
<1>1. CASE log = <<>>
  BY <1>1 DEF Left
<1>2. CASE log = <<"will-finish-launching", "ready">>
  BY <1>2 DEF Left
<1>3. CASE log \in Quitted
  BY <1>3 DEF Quitted, Left
<1>4. QED
  BY <1>1, <1>2, <1>3 DEF Begun

\* Quitting ends a log that has begun and changes no other.
LEMMA QuitAppLogs ==
  ASSUME NEW log \in Logs
  PROVE  QuitApp(log) \in Quitted \/ (log \in Left /\ QuitApp(log) = log)
<1>1. CASE log = <<>>
  BY <1>1 DEF Range, Quitted, QuitApp
<1>2. CASE log = <<"will-finish-launching", "ready">>
  <2> DEFINE r == QuitApp(log)
  <2>1. /\ "quit" \notin Range(log) /\ log \in Seq(Events) /\ Len(log) = 2
        /\ log[1] = "will-finish-launching" /\ log[2] = "ready"
    BY <1>2 DEF Range, Events
  <2>2. r = log \o QuitLog
    BY <2>1 DEF QuitApp, QuitLog
  <2> HIDE DEF r
  <2>3. /\ r \in Seq(Events) /\ Len(r) = Len(log) + 3
        /\ \A i \in 1 .. Len(log) : r[i] = log[i]
        /\ r[Len(log) + 1] = "before-quit" /\ r[Len(log) + 2] = "will-quit"
        /\ r[Len(log) + 3] = "quit"
    BY <2>1, <2>2, QuitEvents
  <2>4. /\ r \in Seq(Events) /\ Len(r) = 5
        /\ r[1] = "will-finish-launching" /\ r[2] = "ready"
        /\ r[3] = "before-quit" /\ r[4] = "will-quit" /\ r[5] = "quit"
    BY <2>1, <2>3
  <2>5. r = <<"will-finish-launching", "ready", "before-quit", "will-quit",
              "quit">>
    BY <2>4
  <2>6. QED
    BY <2>5 DEF Quitted, r
<1>3. CASE log \in Quitted \cup Left
  BY <1>3, LogsHold DEF QuitApp
<1>4. QED
  BY <1>1, <1>2, <1>3 DEF Logs, Begun

\* An app told that its windows are closed has left, with or without handlers.
LEMMA WindowAllClosedLogs ==
  ASSUME NEW log \in Begun
  PROVE  WindowAllClosed(log) \in Left
<1> DEFINE told == Append(log, "window-all-closed")
           r == WindowAllClosed(log)
<1>1. /\ log \in Seq(Events) /\ "quit" \notin Range(log)
      /\ Len(log) = 0 \/ /\ Len(log) = 2
                         /\ log[1] = "will-finish-launching"
                         /\ log[2] = "ready"
  <2>1. CASE log = <<>>
    BY <2>1 DEF Range, Events
  <2>2. CASE log = <<"will-finish-launching", "ready">>
    BY <2>2 DEF Range, Events
  <2>3. QED
    BY <2>1, <2>2 DEF Begun
<1>2. /\ told \in Seq(Events) /\ Len(told) = Len(log) + 1
      /\ told[Len(log) + 1] = "window-all-closed"
      /\ \A i \in 1 .. Len(log) : told[i] = log[i]
  BY <1>1 DEF Events
<1>3. "quit" \notin Range(told)
  BY <1>1, <1>2 DEF Range
<1>4. r = told \o QuitLog
  BY <1>3 DEF WindowAllClosed, QuitApp, QuitLog
<1> HIDE DEF told, r
<1>5. CASE Len(log) = 0
  <2>1. /\ r \in Seq(Events) /\ Len(r) = 4 /\ r[1] = "window-all-closed"
        /\ r[2] = "before-quit" /\ r[3] = "will-quit" /\ r[4] = "quit"
    <3>1. Len(told) = 1 /\ told[1] = "window-all-closed"
      BY <1>2, <1>5
    <3>2. Len(told) + 1 = 2 /\ Len(told) + 2 = 3 /\ Len(told) + 3 = 4
      BY <3>1
    <3>3. QED
      BY <1>2, <1>4, <3>1, <3>2, QuitEvents
  <2>2. r = <<"window-all-closed", "before-quit", "will-quit", "quit">>
    BY <2>1
  <2>3. QED
    BY <2>2 DEF Left, r
<1>6. CASE Len(log) = 2
  <2>1. /\ r \in Seq(Events) /\ Len(r) = 6
        /\ r[1] = "will-finish-launching" /\ r[2] = "ready"
        /\ r[3] = "window-all-closed"
        /\ r[4] = "before-quit" /\ r[5] = "will-quit" /\ r[6] = "quit"
    <3>1. /\ r \in Seq(Events) /\ Len(r) = Len(told) + 3
          /\ \A i \in 1 .. Len(told) : r[i] = told[i]
          /\ r[Len(told) + 1] = "before-quit" /\ r[Len(told) + 2] = "will-quit"
          /\ r[Len(told) + 3] = "quit"
      BY <1>2, <1>4, QuitEvents
    <3>2. /\ Len(told) = 3 /\ told[3] = "window-all-closed"
          /\ told[1] = "will-finish-launching" /\ told[2] = "ready"
      BY <1>1, <1>2, <1>6
    <3>3. QED
      BY <3>1, <3>2
  <2>2. r = <<"will-finish-launching", "ready", "window-all-closed",
              "before-quit", "will-quit", "quit">>
    BY <2>1
  <2>3. QED
    BY <2>2 DEF Left, r
<1>7. QED
  BY <1>1, <1>5, <1>6

-----------------------------------------------------------------------------
(* Initially. *)

\* A process begins with the shim as it is loaded.
LEMMA InitHolds == Init => IInv
<1> SUFFICES ASSUME Init PROVE IInv
  OBVIOUS
<1> USE DEF Init, ShimInit
<1>1. ShimTypeOK
  <2>1. g \in Globals
    BY DEF Globals
  <2>2. navs \in Seq(Pages)
    OBVIOUS
  <2>3. seen \in Histories
    BY DEF Histories
  <2>4. QED
    BY <2>1, <2>2, <2>3 DEF ShimTypeOK
<1>2. RunTypeOK
  BY EntryAssumption DEF RunTypeOK, IsRun, Labels, Plans, Lists, Logs, Begun
<1>3. Untouched /\ LoopQuits
  BY DEF Untouched, LoopQuits, IsRun
<1>4. BrowserKnown
  BY DEF BrowserKnown, MirrorsAgree
<1>5. CloseAsked /\ ScriptCompletes /\ Caused
  BY DEF CloseAsked, ScriptCompletes, Caused
<1>6. Acting /\ EndsInOrder /\ InitializedIsShutDown
  BY EntryAssumption DEF Acting, EndsInOrder, InitializedIsShutDown, IsRun, Direct
<1>7. Logged
  BY DEF Logged, Begun, Left, NoPlan
<1>8. QED
  BY <1>1, <1>2, <1>3, <1>4, <1>5, <1>6, <1>7 DEF IInv, TypeOK

-----------------------------------------------------------------------------
(* Every step keeps each part. *)

\* The callbacks of CEF and the steps of the main thread keep the types of the
\* native layer.
\* The operations on the globals.
LEMMA GlobalsKept ==
  ASSUME NEW h \in Globals
  PROVE  /\ [h EXCEPT !.initialized = TRUE] \in Globals
         /\ \A v \in BOOLEAN : [h EXCEPT !.autoClose = v] \in Globals
         /\ \A v \in BOOLEAN : [h EXCEPT !.script = v] \in Globals
         /\ CloseRequested(h) \in Globals
         /\ [h EXCEPT !.loadComplete = TRUE, !.browserID = TheBrowser]
              \in Globals
         /\ [h EXCEPT !.loadFailed = TRUE, !.browserID = TheBrowser]
              \in Globals
         /\ [h EXCEPT !.browserID = TheBrowser] \in Globals
BY DEF Globals, CloseRequested

LEMMA GlobalsReset ==
  ASSUME g \in Globals, NEW auto \in BOOLEAN
  PROVE  /\ [ResetBrowser EXCEPT !.autoClose = auto] \in Globals
         /\ [ResetBrowser EXCEPT !.autoClose = auto, !.browser = TRUE,
                                 !.browserID = TheBrowser] \in Globals
         /\ [g EXCEPT !.loadComplete = FALSE, !.loadFailed = FALSE,
                      !.closeRequested = FALSE] \in Globals
         /\ [g EXCEPT !.script = FALSE, !.browser = FALSE,
                      !.initialized = FALSE] \in Globals
         /\ [g EXCEPT !.browserID = TheBrowser, !.browserClosed = TRUE,
                      !.browser = FALSE] \in Globals
<1>1. [ResetBrowser EXCEPT !.autoClose = auto] \in Globals
  BY DEF Globals, ResetBrowser
<1>2. [ResetBrowser EXCEPT !.autoClose = auto, !.browser = TRUE,
                           !.browserID = TheBrowser] \in Globals
  BY DEF Globals, ResetBrowser
<1>3. [g EXCEPT !.loadComplete = FALSE, !.loadFailed = FALSE,
                !.closeRequested = FALSE] \in Globals
  BY DEF Globals
<1>4. [g EXCEPT !.script = FALSE, !.browser = FALSE, !.initialized = FALSE]
        \in Globals
  BY DEF Globals
<1>5. [g EXCEPT !.browserID = TheBrowser, !.browserClosed = TRUE,
                !.browser = FALSE] \in Globals
  BY DEF Globals
<1>6. QED
  BY <1>1, <1>2, <1>3, <1>4, <1>5

\* The records of the past.
LEMMA HistoriesKept ==
  ASSUME NEW h \in Histories, NEW n \in {0, 1},
         NEW how \in {"end", "idle", "result"}
  PROVE  /\ [h EXCEPT !.completed = how, !.closes = @ + n] \in Histories
         /\ [h EXCEPT !.failed = TRUE, !.closes = @ + n] \in Histories
         /\ [h EXCEPT !.aborted = TRUE] \in Histories
         /\ [h EXCEPT !.closes = @ + n] \in Histories
<1>1. h.closes + n \in Nat
  BY DEF Histories
<1>2. QED
  BY <1>1 DEF Histories

\* The completion of a load.
LEMMA CompleteKeepsTypes ==
  ASSUME ShimTypeOK, NEW h \in Globals, NEW how \in {"end", "idle", "result"},
         Complete(h, how)
  PROVE  /\ g' \in Globals /\ seen' \in Histories
         /\ mirror' \in [lastID : {NoBrowser, TheBrowser}, closed : BOOLEAN]
<1> DEFINE done == [h EXCEPT !.loadComplete = TRUE, !.browserID = TheBrowser]
           n == IF h.autoClose THEN HostAsked(h) ELSE 0
<1>1. done \in Globals /\ CloseRequested(done) \in Globals
  BY GlobalsKept
<1>2. g' \in {done, CloseRequested(done)}
  BY DEF Complete
<1>3. n \in {0, 1}
  BY DEF HostAsked
<1>4. seen' = [seen EXCEPT !.completed = how, !.closes = @ + n]
  BY DEF Complete
<1>5. mirror' = [mirror EXCEPT !.lastID = TheBrowser]
  BY DEF Complete
<1> HIDE DEF done, n
<1>6. QED
  BY <1>1, <1>2, <1>3, <1>4, <1>5, HistoriesKept DEF ShimTypeOK

\* The callbacks of CEF and the steps of the main thread keep the types of the
\* native layer.
LEMMA ShimTypeStep == ShimTypeOK /\ [Next]_vars => ShimTypeOK'
<1> SUFFICES ASSUME ShimTypeOK, [Next]_vars PROVE ShimTypeOK'
  OBVIOUS
<1> USE DEF ShimTypeOK, shimVars, cef
<1>1. CASE UNCHANGED vars
  BY <1>1 DEF vars
<1>2. CASE UNCHANGED shimVars
  BY <1>2
<1>3. CASE Hook \/ LoadApp \/ ParseMain \/ BeginExecute \/ Mark \/ FinishActions
             \/ WindowClosed \/ Quit \/ CancelContext \/ Returned
  BY <1>2, <1>3 DEF Hook, LoadApp, ParseMain, BeginExecute, Mark, FinishActions,
     WindowClosed, Quit, CancelContext, Returned, Abandon, vars
<1>4. CASE Initialize
  BY <1>2, <1>4, GlobalsKept DEF Initialize, Abandon
<1>5. CASE CreateWindow
  <2>1. ASSUME NEW auto \in BOOLEAN, CreateFails(auto) PROVE ShimTypeOK'
    BY <2>1, GlobalsReset DEF CreateFails
  <2>2. ASSUME NEW auto \in BOOLEAN, NEW page \in Pages,
               CreateBrowser(page, auto)
        PROVE  ShimTypeOK'
    <3>1. <<page>> \in Seq(Pages)
      OBVIOUS
    <3>2. g' \in Globals
      BY <2>2, GlobalsReset DEF CreateBrowser
    <3>3. mirror' \in [lastID : {NoBrowser, TheBrowser}, closed : BOOLEAN]
      BY <2>2 DEF CreateBrowser
    <3>4. QED
      BY <2>2, <3>1, <3>2, <3>3 DEF CreateBrowser
  <2>3. (Direct \/ plan.fast) \in BOOLEAN
    OBVIOUS
  <2>4. (IF plan.script THEN "blank" ELSE "page") \in Pages
    BY DEF Pages
  <2>5. QED
    BY <1>2, <1>5, <2>1, <2>2, <2>3, <2>4 DEF CreateWindow
<1>6. CASE InstallScript
  BY <1>2, <1>6, GlobalsKept DEF InstallScript, SetScript
<1>7. CASE LoadURL
  <2>1. CASE LoadPage
    <3>1. Append(navs, "page") \in Seq(Pages)
      BY "page" \in Pages DEF Pages
    <3>2. g' \in Globals
      BY <2>1, GlobalsReset DEF LoadPage
    <3>3. QED
      BY <2>1, <3>1, <3>2 DEF LoadPage
  <2>2. QED
    BY <1>2, <1>7, <2>1 DEF LoadURL
<1>8. CASE Wait
  <2>1. ASSUME NEW untilLoad \in BOOLEAN, EnterLoop(untilLoad)
        PROVE  ShimTypeOK'
    <3>1. g.autoClose \in BOOLEAN /\ AutoCloseIn(untilLoad) \in BOOLEAN
      BY DEF Globals, AutoCloseIn
    <3>2. QED
      BY <2>1, <3>1, GlobalsKept DEF EnterLoop
  <2>2. QED
    BY <1>2, <1>8, <2>1 DEF Wait
<1>9. CASE LeaveLoop
  BY <1>9, GlobalsKept DEF LeaveLoop, ReturnFromLoop
<1>10. CASE CloseWindow
  <2>1. HostAsked(g) \in {0, 1}
    BY DEF HostAsked
  <2>2. QED
    BY <1>2, <1>10, <2>1, GlobalsKept, HistoriesKept DEF CloseWindow, CloseBrowser
<1>11. CASE Shutdown
  BY <1>2, <1>11, GlobalsReset DEF Shutdown, ShutdownCEF
<1>12. CASE OnLoadEnd
  <2>1. Tail(navs) \in Seq(Pages) /\ Head(navs) \in Pages
    BY <1>12 DEF OnLoadEnd
  <2>2. QED
    BY <1>12, <2>1, GlobalsKept, CompleteKeepsTypes DEF OnLoadEnd
<1>13. CASE OnLoadAborted
  <2>1. Tail(navs) \in Seq(Pages)
    BY <1>13 DEF OnLoadAborted
  <2>2. QED
    BY <1>13, <2>1, HistoriesKept DEF OnLoadAborted
<1>14. CASE OnLoadError
  <2>1. HostAsked(g) \in {0, 1}
    BY DEF HostAsked
  <2>2. g' \in Globals
    BY <1>14, GlobalsKept DEF OnLoadError
  <2>3. QED
    BY <1>14, <2>1, <2>2, HistoriesKept DEF OnLoadError
<1>15. CASE OnLoadingStateChange
  BY <1>15, CompleteKeepsTypes DEF OnLoadingStateChange
<1>16. ASSUME NEW page \in Pages, OnConsoleMessage(page) PROVE ShimTypeOK'
  <2>1. [g EXCEPT !.script = FALSE] \in Globals
    BY GlobalsKept
  <2>2. QED
    BY <1>16, <2>1, CompleteKeepsTypes DEF OnConsoleMessage
<1>17. CASE BeforeClose
  <2>1. g' \in Globals
    BY <1>17, GlobalsReset DEF BeforeClose, OnBeforeClose
  <2>2. mirror' \in [lastID : {NoBrowser, TheBrowser}, closed : BOOLEAN]
    BY <1>17 DEF BeforeClose, OnBeforeClose, MirrorClosed
  <2>3. loop' \in [running : BOOLEAN, quit : BOOLEAN, autoClose : BOOLEAN]
    BY <1>17 DEF BeforeClose, OnBeforeClose, QuitLoop
  <2>4. <<>> \in Seq(Pages) /\ {} \subseteq Pages
    OBVIOUS
  <2>5. QED
    BY <1>17, <2>1, <2>2, <2>3, <2>4 DEF BeforeClose, OnBeforeClose
<1>18. QED
  BY <1>1, <1>3, <1>4, <1>5, <1>6, <1>7, <1>8, <1>9, <1>10, <1>11, <1>12,
     <1>13, <1>14, <1>15, <1>16, <1>17
  DEF Next, MainThread, InLoop, Navigation, ScriptResult, Pages

\* Actions begin with the window closed, so none of them closes it again.
LEMMA ClosedBefore ==
  ASSUME IInv, pc \in {"actions", "closed"}
  PROVE  AlreadyClosed
BY DEF IInv, BrowserKnown, MirrorsAgree, Acting, AlreadyClosed

\* The main thread goes from label to label, and the events follow its actions.
LEMMA RunTypeStep == IInv /\ [Next]_vars => RunTypeOK'
<1> SUFFICES ASSUME IInv, [Next]_vars PROVE RunTypeOK'
  OBVIOUS
<1>0. RunTypeOK
  BY DEF IInv, TypeOK
<1> USE DEF RunTypeOK, run, app, Labels
<1>1. CASE UNCHANGED vars
  BY <1>0, <1>1 DEF vars
<1>2. ASSUME Abandon, state' \in {state, "metadata"} PROVE RunTypeOK'
  BY <1>0, <1>2 DEF Abandon, GoTo
<1>3. ASSUME NEW why \in BOOLEAN, Fail(why),
             window' \in {"none", "open", "closed"}
      PROVE  RunTypeOK'
  BY <1>0, <1>3 DEF Fail, GoTo
<1>4. CASE Hook
  BY <1>0, <1>2, <1>4 DEF Hook, GoTo
<1>5. CASE LoadApp
  BY <1>0, <1>2, <1>5 DEF LoadApp, GoTo
<1>6. CASE ParseMain
  <2>1. ASSUME NEW src \in Sources
        PROVE  (IF Supported(src) THEN Parsed(src) ELSE NoPlan) \in Plans
    BY ParsedIsAPlan DEF Plans
  <2>2. QED
    BY <1>0, <1>2, <1>6, <2>1 DEF ParseMain, GoTo
<1>7. CASE Initialize
  BY <1>0, <1>2, <1>7 DEF Initialize, GoTo
<1>8. CASE BeginExecute
  <2>1. (IF plan.fast THEN <<"close">> ELSE plan.actions) \in Lists
    BY <1>0, PlansHave DEF Lists
  <2>2. (IF plan.fast THEN <<>> ELSE <<"will-finish-launching", "ready">>)
          \in Logs
    BY DEF Logs, Begun
  <2>3. QED
    BY <1>0, <1>8, <2>1, <2>2 DEF BeginExecute, GoTo
<1>9. CASE CreateWindow
  BY <1>0, <1>3, <1>9 DEF CreateWindow, GoTo
<1>10. CASE InstallScript
  BY <1>0, <1>3, <1>10 DEF InstallScript, GoTo
<1>11. CASE LoadURL
  BY <1>0, <1>3, <1>11 DEF LoadURL, GoTo
<1>12. CASE Wait
  BY <1>0, <1>3, <1>12 DEF Wait, GoTo
<1>13. CASE LeaveLoop
  <2>1. pc = "loading" /\ seen.failed \in BOOLEAN
    BY <1>13 DEF LeaveLoop, ReturnFromLoop, IInv, LoopQuits, TypeOK, ShimTypeOK,
       Histories
  <2>2. QED
    BY <1>0, <1>3, <1>13, <2>1 DEF LeaveLoop, GoTo
<1>14. CASE Mark
  BY <1>0, <1>14, ActionsLeft DEF Mark, GoTo
<1>15. CASE FinishActions
  BY <1>0, <1>3, <1>15 DEF FinishActions, GoTo
<1>16. CASE CloseWindow
  BY <1>0, <1>16, ClosedBefore DEF CloseWindow, GoTo
<1>17. CASE WindowClosed
  <2>1. todo # <<>> /\ events \in Begun
    BY <1>17 DEF WindowClosed, IInv, Acting, Logged
  <2>2. WindowAllClosed(events) \in Logs /\ Tail(todo) \in Lists
    BY <1>0, <2>1, WindowAllClosedLogs, ActionsLeft DEF Logs
  <2>3. QED
    BY <1>0, <1>17, <2>2 DEF WindowClosed, GoTo
<1>18. CASE Quit
  <2>1. QuitApp(events) \in Logs /\ Tail(todo) \in Lists
    BY <1>0, <1>18, QuitAppLogs, ActionsLeft DEF Quit, Logs
  <2>2. QED
    BY <1>0, <1>18, <2>1 DEF Quit, GoTo
<1>19. CASE Shutdown
  BY <1>0, <1>19 DEF Shutdown, GoTo
<1>20. CASE BeforeClose
  BY <1>0, <1>20 DEF BeforeClose
<1>21. CASE CancelContext
  BY <1>0, <1>21 DEF CancelContext
<1>22. CASE \/ InLoop(Navigation) \/ InLoop(OnLoadingStateChange)
            \/ InLoop(ScriptResult)
  BY <1>0, <1>22 DEF InLoop
<1>23. QED
  BY <1>1, <1>4, <1>5, <1>6, <1>7, <1>8, <1>9, <1>10, <1>11, <1>12, <1>13,
     <1>14, <1>15, <1>16, <1>17, <1>18, <1>19, <1>20, <1>21, <1>22
  DEF Next, MainThread, Returned

\* What the completion of a load does to the globals.
LEMMA CompleteSets ==
  ASSUME ShimTypeOK, NEW h \in Globals, NEW how, Complete(h, how)
  PROVE  /\ g'.loadComplete /\ g'.browserID = TheBrowser
         /\ g'.closeRequested = (h.closeRequested \/ h.autoClose)
         /\ g'.loadFailed = h.loadFailed
         /\ g'.script = h.script
         /\ g'.browserClosed = h.browserClosed
         /\ g'.initialized = h.initialized
         /\ g'.browser = h.browser
         /\ mirror' = [lastID |-> TheBrowser, closed |-> mirror.closed]
         /\ seen'.completed = how /\ seen'.failed = seen.failed
         /\ seen'.closes = seen.closes +
              IF h.autoClose /\ ~h.closeRequested THEN 1 ELSE 0
BY DEF Complete, CloseRequested, HostAsked, ShimTypeOK, Globals, Histories

\* What the creation of a browser, or its failure, leaves.
LEMMA CreateSets ==
  ASSUME ShimTypeOK, NEW page, NEW auto \in BOOLEAN,
         CreateBrowser(page, auto) \/ CreateFails(auto)
  PROVE  /\ ~g'.loadComplete /\ ~g'.loadFailed /\ ~g'.closeRequested
         /\ g'.browserClosed = FALSE /\ ~g'.script
         /\ g'.initialized = g.initialized
         /\ mirror' = [lastID |-> g'.browserID, closed |-> FALSE]
         /\ UNCHANGED <<loop, seen>>
         /\ \/ browser' = "alive" /\ g'.browser /\ g'.browserID = TheBrowser
            \/ UNCHANGED browser
<1>1. CASE CreateBrowser(page, auto)
  BY <1>1 DEF CreateBrowser, ResetBrowser, ShimTypeOK, Globals
<1>2. CASE CreateFails(auto)
  BY <1>2 DEF CreateFails, ResetBrowser, ShimTypeOK, Globals, cef
<1>3. QED
  BY <1>1, <1>2

\* CreateWindow in full: it fails before or in CEF, or opens the window.
LEMMA CreateWindowSets ==
  ASSUME ShimTypeOK, CreateWindow
  PROVE  /\ pc = "create" /\ UNCHANGED <<entry, ctxEnded, plan, state, todo, events>>
         /\ \/ /\ UNCHANGED <<shimVars, window>>
               /\ pc' = "shutdown" /\ err' = TRUE /\ fault' = TRUE
            \/ /\ ~g'.loadComplete /\ ~g'.loadFailed /\ ~g'.closeRequested
               /\ g'.browserClosed = FALSE /\ ~g'.script
               /\ g'.initialized = g.initialized
               /\ mirror' = [lastID |-> g'.browserID, closed |-> FALSE]
               /\ UNCHANGED <<loop, seen>>
               /\ \/ /\ UNCHANGED <<browser, window>>
                     /\ pc' = "shutdown" /\ err' = TRUE /\ fault' = TRUE
                  \/ /\ browser' = "alive" /\ g'.browser
                     /\ g'.browserID = TheBrowser
                     /\ UNCHANGED <<err, fault>>
                     /\ window' = "open" \/ Direct \/ plan.fast
                     /\ \/ pc' = "script" /\ plan.script
                        \/ pc' = "wait" /\ ~plan.script
<1> DEFINE auto == Direct \/ plan.fast
           page == IF plan.script THEN "blank" ELSE "page"
<1>1. auto \in BOOLEAN
  OBVIOUS
<1>2. \/ Fail(TRUE) /\ UNCHANGED <<shimVars, window>>
      \/ CreateFails(auto) /\ Fail(TRUE) /\ UNCHANGED window
      \/ /\ CreateBrowser(page, auto)
         /\ window' = IF auto THEN "none" ELSE "open"
         /\ GoTo(IF plan.script THEN "script" ELSE "wait")
         /\ UNCHANGED <<run, todo, events>>
  BY DEF CreateWindow
<1>3. pc = "create"
  BY DEF CreateWindow
<1> HIDE DEF auto, page
<1>4. CASE Fail(TRUE) /\ UNCHANGED <<shimVars, window>>
  BY <1>3, <1>4 DEF Fail, GoTo
<1>5. CASE CreateFails(auto) /\ Fail(TRUE) /\ UNCHANGED window
  <2>1. UNCHANGED browser
    BY <1>5 DEF CreateFails, cef
  <2>2. QED
    BY <1>1, <1>3, <1>5, <2>1, CreateSets DEF Fail, GoTo
<1>6. CASE CreateBrowser(page, auto) /\ ~Fail(TRUE)
  <2>1. browser' = "alive" /\ g'.browser /\ g'.browserID = TheBrowser
    BY <1>6 DEF CreateBrowser, ResetBrowser, ShimTypeOK, Globals
  <2>2. QED
    BY <1>1, <1>2, <1>3, <1>6, <2>1, CreateSets DEF GoTo, run, auto
<1>7. QED
  BY <1>2, <1>4, <1>5, <1>6 DEF Fail, GoTo

\* LoadURL in full: the script or its context stops it, or the page is loading.
LEMMA LoadURLSets ==
  ASSUME ShimTypeOK, LoadURL
  PROVE  /\ pc = "loadURL"
         /\ UNCHANGED <<mirror, loop, browser, seen, entry, ctxEnded, plan, state,
                        todo, app>>
         /\ \/ pc' = "shutdown" /\ err' = TRUE /\ UNCHANGED g
            \/ /\ pc' = "wait" /\ UNCHANGED <<err, fault>>
               /\ ~g'.loadComplete /\ ~g'.loadFailed /\ ~g'.closeRequested
               /\ g'.initialized = g.initialized /\ g'.browser = g.browser
               /\ g'.browserID = g.browserID /\ g'.script = g.script
               /\ g'.browserClosed = g.browserClosed
<1>1. CASE LoadPage /\ GoTo("wait") /\ UNCHANGED <<run, todo, app>>
  <2>1. g \in Globals
    BY DEF ShimTypeOK
  <2>2. /\ UNCHANGED <<mirror, loop, browser, seen>>
        /\ g' = [g EXCEPT !.loadComplete = FALSE, !.loadFailed = FALSE,
                          !.closeRequested = FALSE]
    BY <1>1 DEF LoadPage
  <2>3. QED
    BY <1>1, <2>1, <2>2 DEF LoadURL, GoTo, run, Globals
<1>2. CASE Fail(ctxEnded) /\ UNCHANGED <<shimVars, window>>
  BY <1>2 DEF LoadURL, Fail, GoTo, shimVars, cef, app
<1>3. QED
  BY <1>1, <1>2 DEF LoadURL

\* Shutdown in full: it is skipped, or too late, or shuts CEF down.
LEMMA ShutdownSets ==
  ASSUME ShimTypeOK, Shutdown
  PROVE  /\ pc = "shutdown" /\ pc' = "returned"
         /\ UNCHANGED <<mirror, loop, browser, seen, entry, ctxEnded, plan, todo,
                        app>>
         /\ g'.loadComplete = g.loadComplete /\ g'.loadFailed = g.loadFailed
         /\ g'.closeRequested = g.closeRequested
         /\ g'.browserID = g.browserID /\ g'.browserClosed = g.browserClosed
         /\ \/ SkipsShutdown /\ UNCHANGED <<g, err, fault>>
            \/ ctxEnded /\ UNCHANGED g /\ err' = TRUE /\ fault' = TRUE
            \/ ~g'.initialized /\ ~g'.script /\ UNCHANGED <<err, fault>>
<1>1. g \in Globals
  BY DEF ShimTypeOK
<1>2. /\ pc = "shutdown" /\ pc' = "returned"
      /\ UNCHANGED <<entry, ctxEnded, plan, todo, app>>
  BY DEF Shutdown, GoTo
<1>3. CASE SkipsShutdown
  BY <1>2, <1>3 DEF Shutdown, shimVars, cef
<1>4. CASE ~SkipsShutdown /\ ctxEnded
  BY <1>2, <1>4 DEF Shutdown, shimVars, cef
<1>5. CASE ~SkipsShutdown /\ ~ctxEnded
  <2>1. /\ g' = [g EXCEPT !.script = FALSE, !.browser = FALSE,
                          !.initialized = FALSE]
        /\ UNCHANGED <<mirror, loop, browser, seen, err, fault>>
    BY <1>5 DEF Shutdown, ShutdownCEF, cef
  <2>2. QED
    BY <1>1, <1>2, <2>1 DEF Globals
<1>6. QED
  BY <1>3, <1>4, <1>5

\* Every callback runs in the loop.
LEMMA CallbacksInLoop ==
  ASSUME IInv,
         \/ OnLoadEnd \/ OnLoadAborted \/ OnLoadError \/ OnLoadingStateChange
         \/ BeforeClose \/ \E page \in {"blank", "page"} : OnConsoleMessage(page)
  PROVE  pc = "loading" /\ browser = "alive"
BY DEF OnLoadEnd, OnLoadAborted, OnLoadError, OnLoadingStateChange, BeforeClose,
   OnBeforeClose, OnConsoleMessage, InCallback, IInv, LoopQuits

\* The callbacks that may complete a load.
Completion ==
  InLoop(OnLoadEnd) \/ InLoop(OnLoadingStateChange) \/ InLoop(ScriptResult)

\* They complete it or do nothing to the globals.
LEMMA CompletionSets ==
  ASSUME IInv, Completion
  PROVE  /\ pc = "loading" /\ browser = "alive"
         /\ UNCHANGED <<entry, pc, todo, run, ctxEnded, app, loop, browser>>
         /\ g'.browserID = TheBrowser
         /\ g'.loadFailed = g.loadFailed /\ g'.initialized = g.initialized
         /\ g'.browserClosed = g.browserClosed /\ g'.browser = g.browser
         /\ seen'.failed = seen.failed
         /\ mirror' = [lastID |-> TheBrowser, closed |-> mirror.closed]
         /\ \/ /\ g'.loadComplete = g.loadComplete /\ g'.script = g.script
               /\ g'.closeRequested = g.closeRequested
               /\ seen'.completed = seen.completed
               /\ seen'.closes = seen.closes
            \/ /\ g'.loadComplete /\ ~g'.script
               /\ g'.closeRequested = (g.closeRequested \/ g.autoClose)
               /\ seen'.completed \in
                    IF g.script THEN {"result"} ELSE {"end", "idle"}
               /\ seen'.closes = seen.closes +
                    IF g.autoClose /\ ~g.closeRequested THEN 1 ELSE 0
               /\ ~g.script => ~g.loadComplete
<1>1. pc = "loading" /\ browser = "alive"
  BY CallbacksInLoop DEF Completion, InLoop, ScriptResult
<1>2. /\ ShimTypeOK /\ g.browserID = TheBrowser
      /\ mirror = [lastID |-> TheBrowser, closed |-> mirror.closed]
  BY <1>1 DEF IInv, TypeOK, BrowserKnown, MirrorsAgree, ShimTypeOK
<1>3. g \in Globals /\ seen \in Histories
  BY <1>2 DEF ShimTypeOK
<1>4. CASE InLoop(OnLoadEnd)
  <2>1. UNCHANGED <<entry, pc, todo, run, ctxEnded, app, loop, browser>>
    BY <1>4 DEF InLoop, OnLoadEnd
  <2>2. CASE UNCHANGED <<g, mirror, seen>>
    BY <1>1, <1>2, <2>1, <2>2
  <2>3. CASE /\ g' = [g EXCEPT !.browserID = TheBrowser]
             /\ UNCHANGED <<mirror, seen>>
    BY <1>1, <1>2, <1>3, <2>1, <2>3 DEF Globals
  <2>4. CASE Complete(g, "end") /\ ~g.script /\ ~g.loadComplete
    BY <1>1, <1>2, <1>3, <2>1, <2>4, CompleteSets
  <2>5. QED
    BY <1>4, <2>2, <2>3, <2>4 DEF InLoop, OnLoadEnd
<1>5. CASE InLoop(OnLoadingStateChange)
  <2>1. UNCHANGED <<entry, pc, todo, run, ctxEnded, app, loop, browser>>
    BY <1>5 DEF InLoop, OnLoadingStateChange
  <2>2. CASE UNCHANGED <<g, mirror, seen>>
    BY <1>1, <1>2, <2>1, <2>2
  <2>3. CASE Complete(g, "idle") /\ ~g.script /\ ~g.loadComplete
    BY <1>1, <1>2, <1>3, <2>1, <2>3, CompleteSets
  <2>4. QED
    BY <1>5, <2>2, <2>3 DEF InLoop, OnLoadingStateChange, IdleIgnored
<1>6. CASE InLoop(ScriptResult)
  <2> DEFINE h == [g EXCEPT !.script = FALSE]
  <2>1. UNCHANGED <<entry, pc, todo, run, ctxEnded, app, loop, browser>>
    BY <1>6 DEF InLoop, ScriptResult, OnConsoleMessage
  <2>2. CASE UNCHANGED <<g, mirror, seen>>
    BY <1>1, <1>2, <2>1, <2>2
  <2>3. /\ h \in Globals /\ ~h.script
        /\ h.closeRequested = g.closeRequested /\ h.autoClose = g.autoClose
        /\ h.loadFailed = g.loadFailed /\ h.browserClosed = g.browserClosed
        /\ h.initialized = g.initialized /\ h.browser = g.browser
    BY <1>3 DEF Globals
  <2>4. UNCHANGED <<g, mirror, seen>> \/ (g.script /\ Complete(h, "result"))
    BY <1>6 DEF InLoop, ScriptResult, OnConsoleMessage
  <2> HIDE DEF h
  <2>5. CASE g.script /\ Complete(h, "result")
    BY <1>1, <1>2, <1>3, <2>1, <2>3, <2>5, CompleteSets
  <2>6. QED
    BY <2>2, <2>4, <2>5
<1>7. QED
  BY <1>4, <1>5, <1>6 DEF Completion

\* Nothing touches the globals before the loop runs.
LEMMA UntouchedStep == IInv /\ [Next]_vars => Untouched'
<1> SUFFICES ASSUME IInv, [Next]_vars PROVE Untouched'
  OBVIOUS
<1>0. ShimTypeOK /\ RunTypeOK /\ Untouched /\ LoopQuits
  BY DEF IInv, TypeOK
<1> USE DEF Untouched, LoopQuits, ShimTypeOK, RunTypeOK, Globals, Histories,
   shimVars, cef, run, app, Labels
<1>1. CASE UNCHANGED vars
  BY <1>0, <1>1 DEF vars
<1>2. CASE Hook
  BY <1>0, <1>2 DEF Hook, Abandon, GoTo
<1>3. CASE LoadApp
  BY <1>0, <1>3 DEF LoadApp, Abandon, GoTo
<1>4. CASE ParseMain
  BY <1>0, <1>4 DEF ParseMain, Abandon, GoTo
<1>5. CASE Initialize
  BY <1>0, <1>5 DEF Initialize, Abandon, GoTo
<1>6. CASE BeginExecute
  BY <1>0, <1>6 DEF BeginExecute, GoTo
<1>7. CASE CreateWindow
  <2> HIDE DEF ShimTypeOK, RunTypeOK, Globals, Histories
  <2>1. CASE pc' = "shutdown"
    BY <1>0, <1>7, <2>1, CreateWindowSets
  <2>2. CASE pc' # "shutdown"
    <3>1. /\ pc = "create" /\ pc' \in {"script", "wait"} /\ browser' = "alive"
          /\ UNCHANGED <<loop, seen, err, fault, plan, g.initialized>>
          /\ pc' = "script" => plan.script
      BY <1>0, <1>7, <2>2, CreateWindowSets
    <3>2. /\ g'.browser /\ ~g'.loadComplete /\ ~g'.loadFailed
          /\ ~g'.closeRequested /\ ~g'.script
      BY <1>0, <1>7, <2>2, CreateWindowSets
    <3>3. QED
      BY <1>0, <3>1, <3>2
  <2>3. QED
    BY <2>1, <2>2
<1>8. CASE InstallScript
  BY <1>0, <1>8 DEF InstallScript, SetScript, Fail, GoTo
<1>9. CASE LoadURL
  <2> HIDE DEF ShimTypeOK, RunTypeOK, Globals, Histories
  <2>1. QED
    BY <1>0, <1>9, LoadURLSets
<1>10. CASE Wait
  BY <1>0, <1>10 DEF Wait, EnterLoop, Fail, GoTo
<1>11. CASE LeaveLoop
  BY <1>0, <1>11 DEF LeaveLoop, ReturnFromLoop, LoopSucceeded, Fail, GoTo
<1>12. CASE Mark
  BY <1>0, <1>12 DEF Mark, GoTo
<1>13. CASE CloseWindow
  BY <1>0, <1>13, ClosedBefore DEF CloseWindow, GoTo
<1>14. CASE FinishActions
  BY <1>0, <1>14 DEF FinishActions, Fail, GoTo
<1>15. CASE WindowClosed
  BY <1>0, <1>15 DEF WindowClosed, GoTo
<1>16. CASE Quit
  BY <1>0, <1>16 DEF Quit, GoTo
<1>17. CASE Shutdown
  <2> HIDE DEF ShimTypeOK, RunTypeOK, Globals, Histories
  <2>1. QED
    BY <1>0, <1>17, ShutdownSets
<1>18. CASE Completion
  <2> HIDE DEF ShimTypeOK, RunTypeOK, Globals, Histories
  <2>1. QED
    BY <1>0, <1>18, CompletionSets
<1>19. CASE InLoop(OnLoadAborted)
  BY <1>0, <1>19, CallbacksInLoop DEF OnLoadAborted, InLoop
<1>20. CASE InLoop(OnLoadError)
  BY <1>0, <1>20, CallbacksInLoop DEF OnLoadError, CloseRequested, HostAsked,
     InLoop
<1>21. CASE BeforeClose
  BY <1>0, <1>21, CallbacksInLoop DEF BeforeClose, OnBeforeClose, MirrorClosed,
     QuitLoop
<1>22. CASE CancelContext
  BY <1>0, <1>22 DEF CancelContext
<1>23. QED
  BY <1>1, <1>2, <1>3, <1>4, <1>5, <1>6, <1>7, <1>8, <1>9, <1>10, <1>11, <1>12,
     <1>13, <1>14, <1>15, <1>16, <1>17, <1>18, <1>19, <1>20, <1>21, <1>22
  DEF Next, MainThread, InLoop, Navigation, Completion, Returned

\* Whatever tells the shim of the browser tells the bridge.
LEMMA BrowserKnownStep == IInv /\ [Next]_vars => BrowserKnown'
<1> SUFFICES ASSUME IInv, [Next]_vars PROVE BrowserKnown'
  OBVIOUS
<1>0. ShimTypeOK /\ RunTypeOK /\ BrowserKnown /\ Untouched
  BY DEF IInv, TypeOK
<1> USE DEF BrowserKnown, MirrorsAgree, Untouched, ShimTypeOK, RunTypeOK,
   Globals, Histories, shimVars, cef, run, app, Labels
<1>1. CASE UNCHANGED vars
  BY <1>0, <1>1 DEF vars
<1>2. CASE Hook
  BY <1>0, <1>2 DEF Hook, Abandon, GoTo
<1>3. CASE LoadApp
  BY <1>0, <1>3 DEF LoadApp, Abandon, GoTo
<1>4. CASE ParseMain
  BY <1>0, <1>4 DEF ParseMain, Abandon, GoTo
<1>5. CASE Initialize
  BY <1>0, <1>5 DEF Initialize, Abandon, GoTo
<1>6. CASE BeginExecute
  BY <1>0, <1>6 DEF BeginExecute, GoTo
<1>7. CASE CreateWindow
  <2> HIDE DEF ShimTypeOK, RunTypeOK, Globals, Histories
  <2>1. QED
    BY <1>0, <1>7, CreateWindowSets
<1>8. CASE InstallScript
  BY <1>0, <1>8 DEF InstallScript, SetScript, Fail, GoTo
<1>9. CASE LoadURL
  <2> HIDE DEF ShimTypeOK, RunTypeOK, Globals, Histories
  <2>1. QED
    BY <1>0, <1>9, LoadURLSets
<1>10. CASE Wait
  BY <1>0, <1>10 DEF Wait, EnterLoop, Fail, GoTo
<1>11. CASE LeaveLoop
  BY <1>0, <1>11 DEF LeaveLoop, ReturnFromLoop, LoopSucceeded, Fail, GoTo
<1>12. CASE Mark
  BY <1>0, <1>12 DEF Mark, GoTo
<1>13. CASE CloseWindow
  BY <1>0, <1>13, ClosedBefore DEF CloseWindow, GoTo
<1>14. CASE FinishActions
  BY <1>0, <1>14 DEF FinishActions, Fail, GoTo
<1>15. CASE WindowClosed
  BY <1>0, <1>15 DEF WindowClosed, GoTo
<1>16. CASE Quit
  BY <1>0, <1>16 DEF Quit, GoTo
<1>17. CASE Shutdown
  <2> HIDE DEF ShimTypeOK, RunTypeOK, Globals, Histories
  <2>1. QED
    BY <1>0, <1>17, ShutdownSets
<1>18. CASE Completion
  <2> HIDE DEF ShimTypeOK, RunTypeOK, Globals, Histories
  <2>1. QED
    BY <1>0, <1>18, CompletionSets
<1>19. CASE InLoop(OnLoadAborted)
  BY <1>0, <1>19, CallbacksInLoop DEF OnLoadAborted, InLoop
<1>20. CASE InLoop(OnLoadError)
  BY <1>0, <1>20, CallbacksInLoop DEF OnLoadError, CloseRequested, HostAsked,
     InLoop
<1>21. CASE BeforeClose
  BY <1>0, <1>21, CallbacksInLoop DEF BeforeClose, OnBeforeClose, MirrorClosed,
     QuitLoop
<1>22. CASE CancelContext
  BY <1>0, <1>22 DEF CancelContext
<1>23. QED
  BY <1>1, <1>2, <1>3, <1>4, <1>5, <1>6, <1>7, <1>8, <1>9, <1>10, <1>11, <1>12,
     <1>13, <1>14, <1>15, <1>16, <1>17, <1>18, <1>19, <1>20, <1>21, <1>22
  DEF Next, MainThread, InLoop, Navigation, Completion, Returned

\* The loop is entered once.
LEMMA LoopQuitsStep == IInv /\ [Next]_vars => LoopQuits'
<1> SUFFICES ASSUME IInv, [Next]_vars PROVE LoopQuits'
  OBVIOUS
<1>0. ShimTypeOK /\ RunTypeOK /\ LoopQuits
  BY DEF IInv, TypeOK
<1> USE DEF LoopQuits, ShimTypeOK, RunTypeOK, Globals, Histories, shimVars, cef,
   run, app, Labels
<1>1. CASE UNCHANGED vars
  BY <1>0, <1>1 DEF vars
<1>2. CASE Hook
  BY <1>0, <1>2 DEF Hook, Abandon, GoTo
<1>3. CASE LoadApp
  BY <1>0, <1>3 DEF LoadApp, Abandon, GoTo
<1>4. CASE ParseMain
  BY <1>0, <1>4 DEF ParseMain, Abandon, GoTo
<1>5. CASE Initialize
  BY <1>0, <1>5 DEF Initialize, Abandon, GoTo
<1>6. CASE BeginExecute
  BY <1>0, <1>6 DEF BeginExecute, GoTo
<1>7. CASE CreateWindow
  <2> HIDE DEF ShimTypeOK, RunTypeOK, Globals, Histories
  <2>1. CASE pc' = "shutdown"
    BY <1>0, <1>7, <2>1, CreateWindowSets
  <2>2. CASE pc' # "shutdown"
    <3>1. /\ pc = "create" /\ pc' \in {"script", "wait"} /\ browser' = "alive"
          /\ UNCHANGED <<loop, seen, err, fault, plan, g.initialized>>
          /\ pc' = "script" => plan.script
      BY <1>0, <1>7, <2>2, CreateWindowSets
    <3>2. /\ g'.browser /\ ~g'.loadComplete /\ ~g'.loadFailed
          /\ ~g'.closeRequested /\ ~g'.script
      BY <1>0, <1>7, <2>2, CreateWindowSets
    <3>3. QED
      BY <1>0, <3>1, <3>2
  <2>3. QED
    BY <2>1, <2>2
<1>8. CASE InstallScript
  BY <1>0, <1>8 DEF InstallScript, SetScript, Fail, GoTo
<1>9. CASE LoadURL
  BY <1>0, <1>9 DEF LoadURL, LoadPage, Fail, GoTo
<1>10. CASE Wait
  BY <1>0, <1>10 DEF Wait, EnterLoop, Fail, GoTo
<1>11. CASE LeaveLoop
  BY <1>0, <1>11 DEF LeaveLoop, ReturnFromLoop, LoopSucceeded, Fail, GoTo
<1>12. CASE Mark
  BY <1>0, <1>12 DEF Mark, GoTo
<1>13. CASE CloseWindow
  BY <1>0, <1>13, ClosedBefore DEF CloseWindow, GoTo
<1>14. CASE FinishActions
  BY <1>0, <1>14 DEF FinishActions, Fail, GoTo
<1>15. CASE WindowClosed
  BY <1>0, <1>15 DEF WindowClosed, GoTo
<1>16. CASE Quit
  BY <1>0, <1>16 DEF Quit, GoTo
<1>17. CASE Shutdown
  BY <1>0, <1>17 DEF Shutdown, ShutdownCEF, GoTo
<1>18. CASE Completion
  <2> HIDE DEF ShimTypeOK, RunTypeOK, Globals, Histories
  <2>1. QED
    BY <1>0, <1>18, CompletionSets
<1>19. CASE InLoop(OnLoadAborted)
  BY <1>0, <1>19, CallbacksInLoop DEF OnLoadAborted, InLoop
<1>20. CASE InLoop(OnLoadError)
  BY <1>0, <1>20, CallbacksInLoop DEF OnLoadError, CloseRequested, HostAsked,
     InLoop
<1>21. CASE BeforeClose
  BY <1>0, <1>21, CallbacksInLoop DEF BeforeClose, OnBeforeClose, MirrorClosed,
     QuitLoop
<1>22. CASE CancelContext
  BY <1>0, <1>22 DEF CancelContext
<1>23. QED
  BY <1>1, <1>2, <1>3, <1>4, <1>5, <1>6, <1>7, <1>8, <1>9, <1>10, <1>11, <1>12,
     <1>13, <1>14, <1>15, <1>16, <1>17, <1>18, <1>19, <1>20, <1>21, <1>22
  DEF Next, MainThread, InLoop, Navigation, Completion, Returned

\* The host is asked to close by whoever sets the flag.
LEMMA CloseAskedStep == IInv /\ [Next]_vars => CloseAsked'
<1> SUFFICES ASSUME IInv, [Next]_vars PROVE CloseAsked'
  OBVIOUS
<1>0. ShimTypeOK /\ RunTypeOK /\ CloseAsked /\ Untouched /\ LoopQuits
  BY DEF IInv, TypeOK
<1> USE DEF CloseAsked, Untouched, LoopQuits, ShimTypeOK, RunTypeOK, Globals,
   Histories, shimVars, cef, run, app, Labels
<1>1. CASE UNCHANGED vars
  BY <1>0, <1>1 DEF vars
<1>2. CASE Hook
  BY <1>0, <1>2 DEF Hook, Abandon, GoTo
<1>3. CASE LoadApp
  BY <1>0, <1>3 DEF LoadApp, Abandon, GoTo
<1>4. CASE ParseMain
  BY <1>0, <1>4 DEF ParseMain, Abandon, GoTo
<1>5. CASE Initialize
  BY <1>0, <1>5 DEF Initialize, Abandon, GoTo
<1>6. CASE BeginExecute
  BY <1>0, <1>6 DEF BeginExecute, GoTo
<1>7. CASE CreateWindow
  <2> HIDE DEF ShimTypeOK, RunTypeOK, Globals, Histories
  <2>1. QED
    BY <1>0, <1>7, CreateWindowSets
<1>8. CASE InstallScript
  BY <1>0, <1>8 DEF InstallScript, SetScript, Fail, GoTo
<1>9. CASE LoadURL
  <2> HIDE DEF ShimTypeOK, RunTypeOK, Globals, Histories
  <2>1. QED
    BY <1>0, <1>9, LoadURLSets
<1>10. CASE Wait
  BY <1>0, <1>10 DEF Wait, EnterLoop, Fail, GoTo
<1>11. CASE LeaveLoop
  BY <1>0, <1>11 DEF LeaveLoop, ReturnFromLoop, LoopSucceeded, Fail, GoTo
<1>12. CASE Mark
  BY <1>0, <1>12 DEF Mark, GoTo
<1>13. CASE CloseWindow
  BY <1>0, <1>13, ClosedBefore DEF CloseWindow, GoTo
<1>14. CASE FinishActions
  BY <1>0, <1>14 DEF FinishActions, Fail, GoTo
<1>15. CASE WindowClosed
  BY <1>0, <1>15 DEF WindowClosed, GoTo
<1>16. CASE Quit
  BY <1>0, <1>16 DEF Quit, GoTo
<1>17. CASE Shutdown
  <2> HIDE DEF ShimTypeOK, RunTypeOK, Globals, Histories
  <2>1. QED
    BY <1>0, <1>17, ShutdownSets
<1>18. CASE Completion
  <2>0. g.closeRequested \in BOOLEAN /\ g.autoClose \in BOOLEAN
    BY <1>0
  <2> HIDE DEF ShimTypeOK, RunTypeOK, Globals, Histories
  <2>1. /\ pc' = "loading" /\ pc = "loading"
        /\ g'.loadFailed = g.loadFailed /\ seen'.failed = seen.failed
    BY <1>0, <1>18, CompletionSets
  <2>2. \/ /\ g'.loadComplete = g.loadComplete
           /\ g'.closeRequested = g.closeRequested
           /\ seen'.closes = seen.closes
        \/ /\ g'.loadComplete
           /\ g'.closeRequested = (g.closeRequested \/ g.autoClose)
           /\ seen'.closes = seen.closes +
                IF g.autoClose /\ ~g.closeRequested THEN 1 ELSE 0
    BY <1>0, <1>18, CompletionSets
  <2>3. seen'.closes = IF g'.closeRequested THEN 1 ELSE 0
    BY <1>0, <2>0, <2>2
  <2>4. g'.closeRequested => g'.loadComplete \/ g'.loadFailed
    BY <1>0, <2>0, <2>1, <2>2
  <2>5. QED
    BY <1>0, <2>1, <2>3, <2>4
<1>19. CASE InLoop(OnLoadAborted)
  BY <1>0, <1>19, CallbacksInLoop DEF OnLoadAborted, InLoop
<1>20. CASE InLoop(OnLoadError)
  BY <1>0, <1>20, CallbacksInLoop DEF OnLoadError, CloseRequested, HostAsked,
     InLoop
<1>21. CASE BeforeClose
  BY <1>0, <1>21, CallbacksInLoop DEF BeforeClose, OnBeforeClose, MirrorClosed,
     QuitLoop
<1>22. CASE CancelContext
  BY <1>0, <1>22 DEF CancelContext
<1>23. QED
  BY <1>1, <1>2, <1>3, <1>4, <1>5, <1>6, <1>7, <1>8, <1>9, <1>10, <1>11, <1>12,
     <1>13, <1>14, <1>15, <1>16, <1>17, <1>18, <1>19, <1>20, <1>21, <1>22
  DEF Next, MainThread, InLoop, Navigation, Completion, Returned

\* A script goes away when it has completed the load.
LEMMA ScriptCompletesStep == IInv /\ [Next]_vars => ScriptCompletes'
<1> SUFFICES ASSUME IInv, [Next]_vars PROVE ScriptCompletes'
  OBVIOUS
<1>0. ShimTypeOK /\ RunTypeOK /\ ScriptCompletes /\ Untouched /\ CloseAsked /\
   LoopQuits
  BY DEF IInv, TypeOK
<1> USE DEF ScriptCompletes, Untouched, CloseAsked, LoopQuits, ShimTypeOK,
   RunTypeOK, Globals, Histories, shimVars, cef, run, app, Labels
<1>1. CASE UNCHANGED vars
  BY <1>0, <1>1 DEF vars
<1>2. CASE Hook
  BY <1>0, <1>2 DEF Hook, Abandon, GoTo
<1>3. CASE LoadApp
  BY <1>0, <1>3 DEF LoadApp, Abandon, GoTo
<1>4. CASE ParseMain
  BY <1>0, <1>4 DEF ParseMain, Abandon, GoTo
<1>5. CASE Initialize
  BY <1>0, <1>5 DEF Initialize, Abandon, GoTo
<1>6. CASE BeginExecute
  BY <1>0, <1>6 DEF BeginExecute, GoTo
<1>7. CASE CreateWindow
  <2> HIDE DEF ShimTypeOK, RunTypeOK, Globals, Histories
  <2>1. QED
    BY <1>0, <1>7, CreateWindowSets
<1>8. CASE InstallScript
  BY <1>0, <1>8 DEF InstallScript, SetScript, Fail, GoTo
<1>9. CASE LoadURL
  <2> HIDE DEF ShimTypeOK, RunTypeOK, Globals, Histories
  <2>1. QED
    BY <1>0, <1>9, LoadURLSets
<1>10. CASE Wait
  BY <1>0, <1>10 DEF Wait, EnterLoop, Fail, GoTo
<1>11. CASE LeaveLoop
  BY <1>0, <1>11 DEF LeaveLoop, ReturnFromLoop, LoopSucceeded, Fail, GoTo
<1>12. CASE Mark
  BY <1>0, <1>12 DEF Mark, GoTo
<1>13. CASE CloseWindow
  BY <1>0, <1>13, ClosedBefore DEF CloseWindow, GoTo
<1>14. CASE FinishActions
  BY <1>0, <1>14 DEF FinishActions, Fail, GoTo
<1>15. CASE WindowClosed
  BY <1>0, <1>15 DEF WindowClosed, GoTo
<1>16. CASE Quit
  BY <1>0, <1>16 DEF Quit, GoTo
<1>17. CASE Shutdown
  <2> HIDE DEF ShimTypeOK, RunTypeOK, Globals, Histories
  <2>1. QED
    BY <1>0, <1>17, ShutdownSets
<1>18. CASE Completion
  <2> HIDE DEF ShimTypeOK, RunTypeOK, Globals, Histories
  <2>1. QED
    BY <1>0, <1>18, CompletionSets
<1>19. CASE InLoop(OnLoadAborted)
  BY <1>0, <1>19, CallbacksInLoop DEF OnLoadAborted, InLoop
<1>20. CASE InLoop(OnLoadError)
  BY <1>0, <1>20, CallbacksInLoop DEF OnLoadError, CloseRequested, HostAsked,
     InLoop
<1>21. CASE BeforeClose
  BY <1>0, <1>21, CallbacksInLoop DEF BeforeClose, OnBeforeClose, MirrorClosed,
     QuitLoop
<1>22. CASE CancelContext
  BY <1>0, <1>22 DEF CancelContext
<1>23. QED
  BY <1>1, <1>2, <1>3, <1>4, <1>5, <1>6, <1>7, <1>8, <1>9, <1>10, <1>11, <1>12,
     <1>13, <1>14, <1>15, <1>16, <1>17, <1>18, <1>19, <1>20, <1>21, <1>22
  DEF Next, MainThread, InLoop, Navigation, Completion, Returned

\* Every failure is one of the world outside.
LEMMA CausedStep == IInv /\ [Next]_vars => Caused'
<1> SUFFICES ASSUME IInv, [Next]_vars PROVE Caused'
  OBVIOUS
<1>0. ShimTypeOK /\ RunTypeOK /\ Caused /\ Untouched /\ LoopQuits /\ CloseAsked
   /\ BrowserKnown
  BY DEF IInv, TypeOK
<1> USE DEF Caused, Untouched, LoopQuits, CloseAsked, BrowserKnown, Refused,
   ShimTypeOK, RunTypeOK, Globals, Histories, shimVars, cef, run, app, Labels
<1>1. CASE UNCHANGED vars
  BY <1>0, <1>1 DEF vars
<1>2. CASE Hook
  BY <1>0, <1>2 DEF Hook, Abandon, GoTo
<1>3. CASE LoadApp
  BY <1>0, <1>3 DEF LoadApp, Abandon, GoTo
<1>4. CASE ParseMain
  BY <1>0, <1>4 DEF ParseMain, Abandon, GoTo
<1>5. CASE Initialize
  BY <1>0, <1>5 DEF Initialize, Abandon, GoTo
<1>6. CASE BeginExecute
  BY <1>0, <1>6 DEF BeginExecute, GoTo
<1>7. CASE CreateWindow
  <2> HIDE DEF ShimTypeOK, RunTypeOK, Globals, Histories
  <2>1. CASE pc' = "shutdown"
    BY <1>0, <1>7, <2>1, CreateWindowSets
  <2>2. CASE pc' # "shutdown"
    <3>1. /\ pc = "create" /\ pc' \in {"script", "wait"} /\ browser' = "alive"
          /\ UNCHANGED <<loop, seen, err, fault, plan, g.initialized>>
          /\ pc' = "script" => plan.script
      BY <1>0, <1>7, <2>2, CreateWindowSets
    <3>2. /\ g'.browser /\ ~g'.loadComplete /\ ~g'.loadFailed
          /\ ~g'.closeRequested /\ ~g'.script
      BY <1>0, <1>7, <2>2, CreateWindowSets
    <3>3. QED
      BY <1>0, <3>1, <3>2
  <2>3. QED
    BY <2>1, <2>2
<1>8. CASE InstallScript
  BY <1>0, <1>8 DEF InstallScript, SetScript, Fail, GoTo
<1>9. CASE LoadURL
  BY <1>0, <1>9 DEF LoadURL, LoadPage, Fail, GoTo
<1>10. CASE Wait
  BY <1>0, <1>10 DEF Wait, EnterLoop, Fail, GoTo
<1>11. CASE LeaveLoop
  BY <1>0, <1>11 DEF LeaveLoop, ReturnFromLoop, LoopSucceeded, Fail, GoTo
<1>12. CASE Mark
  BY <1>0, <1>12 DEF Mark, GoTo
<1>13. CASE CloseWindow
  BY <1>0, <1>13, ClosedBefore DEF CloseWindow, GoTo
<1>14. CASE FinishActions
  <2>1. UNCHANGED <<err, fault>> \/ fault' = TRUE
    BY <1>14 DEF FinishActions, Fail
  <2>2. UNCHANGED <<browser, g>>
    BY <1>14 DEF FinishActions
  <2>3. QED
    BY <1>0, <2>1, <2>2
<1>15. CASE WindowClosed
  BY <1>0, <1>15 DEF WindowClosed, GoTo
<1>16. CASE Quit
  BY <1>0, <1>16 DEF Quit, GoTo
<1>17. CASE Shutdown
  <2>1. /\ UNCHANGED browser /\ g'.closeRequested = g.closeRequested
        /\ UNCHANGED <<err, fault>> \/ fault' = TRUE
    <3> HIDE DEF ShimTypeOK, RunTypeOK, Globals, Histories
    <3>1. QED
      BY <1>0, <1>17, ShutdownSets
  <2>2. QED
    BY <1>0, <2>1
<1>18. CASE Completion
  <2> HIDE DEF ShimTypeOK, RunTypeOK, Globals, Histories
  <2>1. QED
    BY <1>0, <1>18, CompletionSets
<1>19. CASE InLoop(OnLoadAborted)
  BY <1>0, <1>19, CallbacksInLoop DEF OnLoadAborted, InLoop
<1>20. CASE InLoop(OnLoadError)
  BY <1>0, <1>20, CallbacksInLoop DEF OnLoadError, CloseRequested, HostAsked,
     InLoop
<1>21. CASE BeforeClose
  BY <1>0, <1>21, CallbacksInLoop DEF BeforeClose, OnBeforeClose, MirrorClosed,
     QuitLoop
<1>22. CASE CancelContext
  BY <1>0, <1>22 DEF CancelContext
<1>23. QED
  BY <1>1, <1>2, <1>3, <1>4, <1>5, <1>6, <1>7, <1>8, <1>9, <1>10, <1>11, <1>12,
     <1>13, <1>14, <1>15, <1>16, <1>17, <1>18, <1>19, <1>20, <1>21, <1>22
  DEF Next, MainThread, InLoop, Navigation, Completion, Returned

\* The first loop returns with what the actions need.
LEMMA ActingStep == IInv /\ [Next]_vars => Acting'
<1> SUFFICES ASSUME IInv, [Next]_vars PROVE Acting'
  OBVIOUS
<1>0. ShimTypeOK /\ RunTypeOK /\ Acting /\ LoopQuits /\ CloseAsked /\
   BrowserKnown /\ Untouched
  BY DEF IInv, TypeOK
<1> USE DEF Acting, Direct, LoopQuits, CloseAsked, BrowserKnown, Untouched,
   ShimTypeOK, RunTypeOK, Globals, Histories, shimVars, cef, run, app, Labels
<1>1. CASE UNCHANGED vars
  BY <1>0, <1>1 DEF vars
<1>2. CASE Hook
  BY <1>0, <1>2 DEF Hook, Abandon, GoTo
<1>3. CASE LoadApp
  BY <1>0, <1>3 DEF LoadApp, Abandon, GoTo
<1>4. CASE ParseMain
  BY <1>0, <1>4 DEF ParseMain, Abandon, GoTo
<1>5. CASE Initialize
  BY <1>0, <1>5 DEF Initialize, Abandon, GoTo
<1>6. CASE BeginExecute
  BY <1>0, <1>6 DEF BeginExecute, GoTo
<1>7. CASE CreateWindow
  <2> HIDE DEF ShimTypeOK, RunTypeOK, Globals, Histories
  <2>1. QED
    BY <1>0, <1>7, CreateWindowSets DEF Direct
<1>8. CASE InstallScript
  BY <1>0, <1>8 DEF InstallScript, SetScript, Fail, GoTo
<1>9. CASE LoadURL
  BY <1>0, <1>9 DEF LoadURL, LoadPage, Fail, GoTo
<1>10. CASE Wait
  BY <1>0, <1>10 DEF Wait, EnterLoop, Fail, GoTo
<1>11. CASE LeaveLoop
  BY <1>0, <1>11 DEF LeaveLoop, ReturnFromLoop, LoopSucceeded, Fail, GoTo
<1>12. CASE Mark
  BY <1>0, <1>12 DEF Mark, GoTo
<1>13. CASE CloseWindow
  BY <1>0, <1>13, ClosedBefore DEF CloseWindow, GoTo
<1>14. CASE FinishActions
  BY <1>0, <1>14 DEF FinishActions, Fail, GoTo
<1>15. CASE WindowClosed
  BY <1>0, <1>15 DEF WindowClosed, GoTo
<1>16. CASE Quit
  BY <1>0, <1>16 DEF Quit, GoTo
<1>17. CASE Shutdown
  BY <1>0, <1>17 DEF Shutdown, ShutdownCEF, GoTo
<1>18. CASE Completion
  <2> HIDE DEF ShimTypeOK, RunTypeOK, Globals, Histories
  <2>1. QED
    BY <1>0, <1>18, CompletionSets DEF Direct
<1>19. CASE InLoop(OnLoadAborted)
  BY <1>0, <1>19, CallbacksInLoop DEF OnLoadAborted, InLoop
<1>20. CASE InLoop(OnLoadError)
  BY <1>0, <1>20, CallbacksInLoop DEF OnLoadError, CloseRequested, HostAsked,
     InLoop
<1>21. CASE BeforeClose
  BY <1>0, <1>21, CallbacksInLoop DEF BeforeClose, OnBeforeClose, MirrorClosed,
     QuitLoop
<1>22. CASE CancelContext
  BY <1>0, <1>22 DEF CancelContext
<1>23. QED
  BY <1>1, <1>2, <1>3, <1>4, <1>5, <1>6, <1>7, <1>8, <1>9, <1>10, <1>11, <1>12,
     <1>13, <1>14, <1>15, <1>16, <1>17, <1>18, <1>19, <1>20, <1>21, <1>22
  DEF Next, MainThread, InLoop, Navigation, Completion, Returned

\* The events of an app follow its actions.
LEMMA LoggedStep == IInv /\ [Next]_vars => Logged'
<1> SUFFICES ASSUME IInv, [Next]_vars PROVE Logged'
  OBVIOUS
<1>0. ShimTypeOK /\ RunTypeOK /\ Logged /\ Acting
  BY DEF IInv, TypeOK
<1> USE DEF Logged, Acting, ShimTypeOK, RunTypeOK, Globals, Histories, shimVars,
   cef, run, app, Labels
<1>1. CASE UNCHANGED vars
  BY <1>0, <1>1 DEF vars
<1>2. CASE Hook
  BY <1>0, <1>2 DEF Hook, Abandon, GoTo
<1>3. CASE LoadApp
  BY <1>0, <1>3 DEF LoadApp, Abandon, GoTo
<1>4. CASE ParseMain
  <2>1. UNCHANGED <<browser, window, todo, events>>
    BY <1>0, <1>4 DEF ParseMain, Abandon
  <2>2. events = <<>> /\ todo = <<>> /\ pc' \in {"initialize", "returned"}
    BY <1>0, <1>4 DEF ParseMain, Abandon, GoTo
  <2>3. QED
    BY <2>1, <2>2, LogsApart DEF Begun
<1>5. CASE Initialize
  <2>1. UNCHANGED <<plan, browser, window, todo, events>>
    BY <1>5 DEF Initialize, Abandon
  <2>2. events \in Begun
    BY <1>0, <1>5 DEF Initialize, Begun
  <2>3. pc' \notin {"hook", "load", "parse", "initialize"}
    BY <1>0, <1>5 DEF Initialize, Abandon, GoTo
  <2>4. QED
    BY <1>0, <1>5, <2>1, <2>2, <2>3 DEF Initialize
<1>6. CASE BeginExecute
  <2>1. events' \in Begun /\ pc' = "create" /\ UNCHANGED plan
    BY <1>6 DEF BeginExecute, GoTo, Begun
  <2>2. plan.fast => events' = <<>> /\ todo' = <<"close">>
    BY <1>6 DEF BeginExecute
  <2>3. QED
    BY <2>1, <2>2, LogsApart
<1>7. CASE CreateWindow
  <2>1. pc' \in {"shutdown", "script", "wait"} /\ pc = "create"
    BY <1>0, <1>7, CreateWindowSets
  <2>2. UNCHANGED <<plan, todo, events>>
    BY <1>0, <1>7, CreateWindowSets
  <2>3. QED
    BY <1>0, <2>1, <2>2, LogsApart
<1>8. CASE InstallScript
  BY <1>0, <1>8 DEF InstallScript, SetScript, Fail, GoTo
<1>9. CASE LoadURL
  BY <1>0, <1>9 DEF LoadURL, LoadPage, Fail, GoTo
<1>10. CASE Wait
  BY <1>0, <1>10 DEF Wait, EnterLoop, Fail, GoTo
<1>11. CASE LeaveLoop
  <2>1. pc = "loading"
    BY <1>11 DEF LeaveLoop, ReturnFromLoop, IInv, LoopQuits
  <2>2. pc' \in {"actions", "shutdown"}
    BY <1>11, <2>1 DEF LeaveLoop, Fail, GoTo
  <2>3. UNCHANGED <<plan, browser, window, todo, events>>
    BY <1>11 DEF LeaveLoop, ReturnFromLoop, Fail
  <2>4. QED
    BY <1>0, <2>1, <2>2, <2>3
<1>12. CASE Mark
  BY <1>0, <1>12 DEF Mark, GoTo
<1>13. CASE CloseWindow
  BY <1>0, <1>13, ClosedBefore DEF CloseWindow, GoTo
<1>14. CASE FinishActions
  BY <1>0, <1>14 DEF FinishActions, Fail, GoTo
<1>15. CASE WindowClosed
  <2>1. /\ todo # <<>> /\ Head(todo) = "close" /\ events \in Begun
        /\ pc' = "actions" /\ UNCHANGED <<plan, browser, window>>
        /\ events' = IF plan.fast THEN events ELSE WindowAllClosed(events)
        /\ todo' = Tail(todo)
    BY <1>0, <1>15 DEF WindowClosed, GoTo
  <2>2. todo' = <<>> \/ Head(todo') = "quit"
    <3>1. todo' = <<>> \/ todo' = <<"quit">>
      BY <1>0, <2>1, ActionsLeft
    <3>2. QED
      BY <3>1
  <2>3. CASE plan.fast
    <3>1. todo = <<"close">>
      BY <1>0, <2>1, <2>3
    <3>2. todo' = <<>>
      BY <2>1, <3>1
    <3>3. QED
      BY <1>0, <2>1, <2>3, <3>2, LogsApart
  <2>4. CASE ~plan.fast
    <3>1. browser = "gone" /\ window = "closed"
      BY <1>0, <1>15, <2>4 DEF WindowClosed
    <3>2. QED
      BY <2>1, <2>2, <2>4, <3>1
  <2>5. QED
    BY <2>3, <2>4
<1>16. CASE Quit
  <2>1. /\ todo # <<>> /\ Head(todo) = "quit" /\ pc' = "actions"
        /\ UNCHANGED <<plan, browser, window>>
        /\ events' = QuitApp(events) /\ todo' = Tail(todo)
    BY <1>16 DEF Quit, GoTo
  <2>2. todo' = <<>>
    BY <1>0, <2>1, ActionsLeft
  <2>3. ~plan.fast
    BY <1>0, <2>1
  <2>4. events' \in Quitted \/ (events \in Left /\ events' = events)
    BY <1>0, <2>1, QuitAppLogs
  <2>5. QED
    BY <1>0, <2>1, <2>2, <2>3, <2>4, LogsApart
<1>17. CASE Shutdown
  BY <1>0, <1>17 DEF Shutdown, ShutdownCEF, GoTo
<1>18. CASE Completion
  <2> HIDE DEF ShimTypeOK, RunTypeOK, Globals, Histories
  <2>1. QED
    BY <1>0, <1>18, CompletionSets
<1>19. CASE InLoop(OnLoadAborted)
  BY <1>0, <1>19, CallbacksInLoop DEF OnLoadAborted, InLoop
<1>20. CASE InLoop(OnLoadError)
  BY <1>0, <1>20, CallbacksInLoop DEF OnLoadError, CloseRequested, HostAsked,
     InLoop
<1>21. CASE BeforeClose
  BY <1>0, <1>21, CallbacksInLoop DEF BeforeClose, OnBeforeClose, MirrorClosed,
     QuitLoop
<1>22. CASE CancelContext
  BY <1>0, <1>22 DEF CancelContext
<1>23. QED
  BY <1>1, <1>2, <1>3, <1>4, <1>5, <1>6, <1>7, <1>8, <1>9, <1>10, <1>11, <1>12,
     <1>13, <1>14, <1>15, <1>16, <1>17, <1>18, <1>19, <1>20, <1>21, <1>22
  DEF Next, MainThread, InLoop, Navigation, Completion, Returned

\* What comes to its end without an error has closed what it opened.
LEMMA EndsInOrderStep == IInv /\ [Next]_vars => EndsInOrder'
<1> SUFFICES ASSUME IInv, [Next]_vars PROVE EndsInOrder'
  OBVIOUS
<1>0. ShimTypeOK /\ RunTypeOK /\ EndsInOrder /\ LoopQuits /\ BrowserKnown /\
   CloseAsked /\ Acting /\ Untouched
  BY DEF IInv, TypeOK
<1> USE DEF EndsInOrder, Direct, LoopQuits, BrowserKnown, CloseAsked, Acting,
   Untouched, ShimTypeOK, RunTypeOK, Globals, Histories, shimVars, cef, run,
   app, Labels
<1>1. CASE UNCHANGED vars
  BY <1>0, <1>1 DEF vars
<1>2. CASE Hook
  BY <1>0, <1>2 DEF Hook, Abandon, GoTo
<1>3. CASE LoadApp
  BY <1>0, <1>3 DEF LoadApp, Abandon, GoTo
<1>4. CASE ParseMain
  BY <1>0, <1>4 DEF ParseMain, Abandon, GoTo
<1>5. CASE Initialize
  BY <1>0, <1>5 DEF Initialize, Abandon, GoTo
<1>6. CASE BeginExecute
  BY <1>0, <1>6 DEF BeginExecute, GoTo
<1>7. CASE CreateWindow
  <2> HIDE DEF ShimTypeOK, RunTypeOK, Globals, Histories
  <2>1. QED
    BY <1>0, <1>7, CreateWindowSets DEF Direct
<1>8. CASE InstallScript
  BY <1>0, <1>8 DEF InstallScript, SetScript, Fail, GoTo
<1>9. CASE LoadURL
  BY <1>0, <1>9 DEF LoadURL, LoadPage, Fail, GoTo
<1>10. CASE Wait
  BY <1>0, <1>10 DEF Wait, EnterLoop, Fail, GoTo
<1>11. CASE LeaveLoop
  BY <1>0, <1>11 DEF LeaveLoop, ReturnFromLoop, LoopSucceeded, Fail, GoTo
<1>12. CASE Mark
  BY <1>0, <1>12 DEF Mark, GoTo
<1>13. CASE CloseWindow
  BY <1>0, <1>13, ClosedBefore DEF CloseWindow, GoTo
<1>14. CASE FinishActions
  BY <1>0, <1>14 DEF FinishActions, Fail, GoTo
<1>15. CASE WindowClosed
  BY <1>0, <1>15 DEF WindowClosed, GoTo
<1>16. CASE Quit
  BY <1>0, <1>16 DEF Quit, GoTo
<1>17. CASE Shutdown
  <2> HIDE DEF ShimTypeOK, RunTypeOK, Globals, Histories
  <2>1. QED
    BY <1>0, <1>17, ShutdownSets
<1>18. CASE Completion
  <2> HIDE DEF ShimTypeOK, RunTypeOK, Globals, Histories
  <2>1. QED
    BY <1>0, <1>18, CompletionSets DEF Direct
<1>19. CASE InLoop(OnLoadAborted)
  BY <1>0, <1>19, CallbacksInLoop DEF OnLoadAborted, InLoop
<1>20. CASE InLoop(OnLoadError)
  BY <1>0, <1>20, CallbacksInLoop DEF OnLoadError, CloseRequested, HostAsked,
     InLoop
<1>21. CASE BeforeClose
  BY <1>0, <1>21, CallbacksInLoop DEF BeforeClose, OnBeforeClose, MirrorClosed,
     QuitLoop
<1>22. CASE CancelContext
  BY <1>0, <1>22 DEF CancelContext
<1>23. QED
  BY <1>1, <1>2, <1>3, <1>4, <1>5, <1>6, <1>7, <1>8, <1>9, <1>10, <1>11, <1>12,
     <1>13, <1>14, <1>15, <1>16, <1>17, <1>18, <1>19, <1>20, <1>21, <1>22
  DEF Next, MainThread, InLoop, Navigation, Completion, Returned

\* Only a shutdown returns from a process that has initialized CEF.
LEMMA ShutDownStep == IInv /\ [Next]_vars => InitializedIsShutDown'
<1> SUFFICES ASSUME IInv, [Next]_vars PROVE InitializedIsShutDown'
  OBVIOUS
<1>0. ShimTypeOK /\ RunTypeOK /\ InitializedIsShutDown /\ Untouched /\
   EndsInOrder /\ LoopQuits
  BY DEF IInv, TypeOK
<1> USE DEF InitializedIsShutDown, Untouched, EndsInOrder, LoopQuits,
   SkipsShutdown, ShimTypeOK, RunTypeOK, Globals, Histories, shimVars, cef, run,
   app, Labels
<1>1. CASE UNCHANGED vars
  BY <1>0, <1>1 DEF vars
<1>2. CASE Hook
  BY <1>0, <1>2 DEF Hook, Abandon, GoTo
<1>3. CASE LoadApp
  BY <1>0, <1>3 DEF LoadApp, Abandon, GoTo
<1>4. CASE ParseMain
  BY <1>0, <1>4 DEF ParseMain, Abandon, GoTo
<1>5. CASE Initialize
  BY <1>0, <1>5 DEF Initialize, Abandon, GoTo
<1>6. CASE BeginExecute
  BY <1>0, <1>6 DEF BeginExecute, GoTo
<1>7. CASE CreateWindow
  <2> HIDE DEF ShimTypeOK, RunTypeOK, Globals, Histories
  <2>1. QED
    BY <1>0, <1>7, CreateWindowSets
<1>8. CASE InstallScript
  BY <1>0, <1>8 DEF InstallScript, SetScript, Fail, GoTo
<1>9. CASE LoadURL
  BY <1>0, <1>9 DEF LoadURL, LoadPage, Fail, GoTo
<1>10. CASE Wait
  BY <1>0, <1>10 DEF Wait, EnterLoop, Fail, GoTo
<1>11. CASE LeaveLoop
  BY <1>0, <1>11 DEF LeaveLoop, ReturnFromLoop, LoopSucceeded, Fail, GoTo
<1>12. CASE Mark
  BY <1>0, <1>12 DEF Mark, GoTo
<1>13. CASE CloseWindow
  BY <1>0, <1>13, ClosedBefore DEF CloseWindow, GoTo
<1>14. CASE FinishActions
  BY <1>0, <1>14 DEF FinishActions, Fail, GoTo
<1>15. CASE WindowClosed
  BY <1>0, <1>15 DEF WindowClosed, GoTo
<1>16. CASE Quit
  BY <1>0, <1>16 DEF Quit, GoTo
<1>17. CASE Shutdown
  <2> HIDE DEF ShimTypeOK, RunTypeOK, Globals, Histories
  <2>1. QED
    BY <1>0, <1>17, ShutdownSets
<1>18. CASE Completion
  <2> HIDE DEF ShimTypeOK, RunTypeOK, Globals, Histories
  <2>1. QED
    BY <1>0, <1>18, CompletionSets
<1>19. CASE InLoop(OnLoadAborted)
  BY <1>0, <1>19, CallbacksInLoop DEF OnLoadAborted, InLoop
<1>20. CASE InLoop(OnLoadError)
  BY <1>0, <1>20, CallbacksInLoop DEF OnLoadError, CloseRequested, HostAsked,
     InLoop
<1>21. CASE BeforeClose
  BY <1>0, <1>21, CallbacksInLoop DEF BeforeClose, OnBeforeClose, MirrorClosed,
     QuitLoop
<1>22. CASE CancelContext
  BY <1>0, <1>22 DEF CancelContext
<1>23. QED
  BY <1>1, <1>2, <1>3, <1>4, <1>5, <1>6, <1>7, <1>8, <1>9, <1>10, <1>11, <1>12,
     <1>13, <1>14, <1>15, <1>16, <1>17, <1>18, <1>19, <1>20, <1>21, <1>22
  DEF Next, MainThread, InLoop, Navigation, Completion, Returned

-----------------------------------------------------------------------------
(* Theorems. *)

\* The invariant holds in every state of every process.
THEOREM RunInvariant == Spec => []IInv
<1>1. IInv /\ [Next]_vars => IInv'
  BY ShimTypeStep, RunTypeStep, UntouchedStep, BrowserKnownStep, LoopQuitsStep,
     CloseAskedStep, ScriptCompletesStep, CausedStep, ActingStep, LoggedStep,
     EndsInOrderStep, ShutDownStep
  DEF IInv, TypeOK
<1>2. QED
  BY InitHolds, <1>1, PTL DEF Spec

\* The bridge's copy of the browser's state is right whenever it is read.
THEOREM MirrorsAlwaysAgree == Spec => []MirrorsAgree
<1>1. IInv => MirrorsAgree
  BY DEF IInv, BrowserKnown
<1>2. QED
  BY RunInvariant, <1>1, PTL

\* A process left alone by the world outside does not fail.
THEOREM FailuresAlwaysHaveCauses == Spec => []FailuresHaveCauses
<1>1. IInv => FailuresHaveCauses
  BY DEF IInv, Caused, FailuresHaveCauses
<1>2. QED
  BY RunInvariant, <1>1, PTL

\* No two of the four callbacks that close the browser both tell its host to.
THEOREM HostIsClosedOnce == Spec => []ClosedAtMostOnce
<1>1. IInv => ClosedAtMostOnce
  BY DEF IInv, CloseAsked, ClosedAtMostOnce
<1>2. QED
  BY RunInvariant, <1>1, PTL

\* A successful process has loaded its page, in the way its plan asks for.
THEOREM SuccessIsALoad == Spec => []SuccessMeansLoaded
<1>1. IInv => SuccessMeansLoaded
  BY DEF IInv, EndsInOrder, ScriptCompletes, SuccessMeansLoaded
<1>2. QED
  BY RunInvariant, <1>1, PTL

\* The app hears of its window after it has gone, and quits once.
THEOREM AppAlwaysFollowsWindow == Spec => []AppFollowsWindow
<1>1. ASSUME IInv PROVE AppFollowsWindow
  <2>1. events \in Logs
    BY <1>1 DEF IInv, TypeOK, RunTypeOK
  <2>2. "window-all-closed" \in Range(events) =>
          browser = "gone" /\ window = "closed"
    BY <1>1, <2>1, LogsHold DEF IInv, Logged
  <2>3. \A i, j \in DOMAIN events : events[i] = events[j] => i = j
    BY <2>1, LogsAreDistinct
  <2>4. QED
    BY <2>2, <2>3 DEF AppFollowsWindow
<1>2. IInv => AppFollowsWindow
  BY <1>1
<1>3. QED
  BY RunInvariant, <1>2, PTL

\* Whatever fails after CEF is initialized, it is shut down.
THEOREM InitializedIsAlwaysShutDown == Spec => []InitializedIsShutDown
<1>1. IInv => InitializedIsShutDown
  BY DEF IInv
<1>2. QED
  BY RunInvariant, <1>1, PTL

\* Only a process that has failed shuts CEF down under its browser.
THEOREM NeverShutDownUnderBrowser == Spec => NoShutdownUnderBrowser
<1> DEFINE Safe == (g.initialized /\ ~g'.initialized /\ browser = "alive") => err
<1>1. IInv /\ [Next]_vars => [Safe]_vars
  <2> SUFFICES ASSUME IInv, [Next]_vars, g.initialized, ~g'.initialized,
                      browser = "alive"
               PROVE  err
    OBVIOUS
  <2>1. g \in Globals /\ ShimTypeOK
    BY DEF IInv, TypeOK, ShimTypeOK
  <2>2. CASE UNCHANGED vars
    BY <2>2 DEF vars, shimVars
  <2>3. CASE Shutdown
    BY <2>3 DEF Shutdown, IInv, EndsInOrder
  <2>4. CASE Hook \/ LoadApp \/ ParseMain \/ BeginExecute \/ Mark \/ FinishActions
               \/ WindowClosed \/ Quit \/ CancelContext \/ Returned
    BY <2>4 DEF Hook, LoadApp, ParseMain, BeginExecute, Mark, FinishActions,
       WindowClosed, Quit, CancelContext, Returned, Abandon, vars, shimVars
  <2>5. CASE Initialize \/ InstallScript \/ LoadURL \/ Wait \/ LeaveLoop
    BY <2>1, <2>5 DEF Initialize, InstallScript, LoadURL, Wait, LeaveLoop, Abandon,
       SetScript, LoadPage, EnterLoop, ReturnFromLoop, shimVars, Globals
  <2>6. CASE CreateWindow
    BY <2>1, <2>6, CreateWindowSets DEF shimVars
  <2>7. CASE CloseWindow
    <3>1. UNCHANGED shimVars
      BY <2>7, ClosedBefore DEF CloseWindow
    <3>2. QED
      BY <3>1 DEF shimVars
  <2>8. CASE Completion
    BY <2>8, CompletionSets
  <2>9. CASE InLoop(OnLoadAborted) \/ InLoop(OnLoadError) \/ BeforeClose
    BY <2>1, <2>9 DEF InLoop, OnLoadAborted, OnLoadError, BeforeClose,
       OnBeforeClose, CloseRequested, Globals
  <2>10. QED
    BY <2>2, <2>3, <2>4, <2>5, <2>6, <2>7, <2>8, <2>9
    DEF Next, MainThread, InLoop, Navigation, Completion
<1>2. QED
  BY RunInvariant, <1>1, PTL DEF Spec, NoShutdownUnderBrowser
===============================================================================
