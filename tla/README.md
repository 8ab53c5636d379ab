# golectron in TLA+

golectron (`electron-go`) runs Electron-style applications from Go: it reads the
application's `package.json` and main script, makes a plan of what the script
does, and carries the plan out on a Chromium (CEF) window through a small C
shim. Around that core stand Go versions of Electron's modules (app lifecycle,
IPC, sessions, menus, ...), a work dispatcher for native bridges, and tools that
fetch CEF, run benchmarks and compare behaviour with Electron.

This directory holds TLA+ modules of the parts whose behaviour depends on the
order of events, of the Electron modules, of the command line and of the tools
that measure and compare, TLC instances of them, and TLAPS proofs about the
dispatcher, the process around the native layer, message ports and router, the
app lifecycle, the CEF fetcher, the Electron modules and the command line.

## Inventory

Parts with concurrency or callbacks first; "one goroutine" means that the code
has no lock and is used from one goroutine.

| Component | State | Operations | What is hard | What makes it correct |
|---|---|---|---|---|
| Work dispatcher (`internal/native/dispatcher.go`) | handlers, bounded queue, `closed`, `done`, ID counter, one worker, one drainer per Shutdown | Register, Unregister, Dispatch, TryDispatch, Invoke, Shutdown | callers, worker, contexts and shutdowns interleave; select is random; handlers may call the dispatcher | work is admitted only after every check, is run or rejected once, in order, and answered once; nothing runs after Shutdown; everything returns |
| CEF shim (`native/cef_shim.c`, `internal/native/cef_linux.go`) | C globals, Go mirrors of them, the message loop | initialize, create, load, script, close, run loop, shutdown; six callbacks | callbacks in CEF's order; a loop only a callback can end; mirrors | the loop can always end; mirrors agree; one close; no shutdown under a browser |
| Runtime (`internal/runtime/runtime.go`) | state, options | Run, WarmRun | errors between initialize and shutdown; the skipped final shutdown | what was initialized is shut down; success means it ran |
| Main script runner (`internal/mainrunner`) | the plan | ParseFile, Execute | the window closes by itself before the plan closes it | the app hears of its window when it is gone, and quits once |
| App lifecycle (`internal/applifecycle`) | ready, waiters, handlers, quitting, events | On, WhenReady, MarkReady, WindowAllClosed, Quit, Exit, Emit | handlers run unlocked and may call back; concurrent quits | ready once; a prevented quit has no effect |
| IPC (`internal/ipc/router.go`) | channels, ports with queues | Handle, HandleOnce, RemoveHandler, Invoke; Start, OnMessage, PostMessage, Close | delivery outside the lock | once-handlers run once; order and loss of messages on a port |
| Browser windows (`internal/browserwindow`) | bounds, normal bounds, modes, closed, events | SetBounds, Maximize..., SetFullScreen, Close | modes combine; re-entrant handlers | normal bounds return; closed is reported once |
| Views (`internal/view`) | tree, bounds, animation | AddChild, RemoveChild, SetBounds | moves within a tree | it stays a tree |
| Web contents (`internal/webcontents`) | history, index, handlers | LoadURL, NavigateInPage, FailLoad, GoBack, GoForward, Reload | re-entrant handlers | history and index agree with events |
| Sessions (`internal/session`) | cookies, permissions, clears | FromPartition, cookies, permissions, clear, WebAuthn | one goroutine | partitions are isolated |
| Protocol registry (`internal/protocol`) | lock, privileges, handlers | RegisterSchemes..., Lock, Register, Unregister, Dispatch | partial failure | nothing changes after the lock |
| Global shortcuts, notifications, utility processes, auto updater, net log, diagnostics, context bridge, menus | small state machines | | one goroutine (shortcuts: a mutex and a callback outside it) | legal orders of calls |
| ASAR (`internal/asar`) | an archive's entries | Write, Open, Split, Stat, ReadFile | boundary values of the header | what was written can be read |
| CEF download (`tools/ceffetch`) | files on disk | fetch, extract, link | interruption between steps | an incomplete tree is never used |
| Harness (`tools/benchmarks`, `tools/conformance`) | samples, processes | run, sample, compare | sampler and process end race; timeouts | verdicts follow from the runs |
| Process model check (`internal/native/process_model*.go`) | what the sampler saw | sample, stop, reap, list | subprocesses come and go while /proc is read | what the report says of them is so |
| Ledger, audits, release checks, packaging, npm, metadata, paths | JSON files | pure functions | | |
| Command line (`cmd/electron-go`) | flags, the environment | about 50 self-checks, launch, warm benchmark, Chromium's own processes | precedence of flags; checks are long scripts of calls on the other modules | the exit code tells what happened; each check reports what its test expects |

Interactions: the command line calls the runtime; the runtime parses the script
with the runner and drives the bridge; the runner emits on the lifecycle and
calls the bridge; the bridge calls the shim, which CEF calls back and which
calls back into Go. The dispatcher is the planned carrier of bridge calls
(`docs/architecture.md`) and is used by tests only; it depends on nothing else.
The Electron modules are exercised by the command line's checks, one at a time.

## Modules

| Module | What it is |
|---|---|
| `Dispatcher` | the dispatcher, one action per step a goroutine can be observed at |
| `DispatchService` | what a dispatcher promises, without goroutines or channels |
| `DispatcherProofs` | theorems about `Dispatcher`, for all constants: types, the ledger, who gets onto the queue, answers, quiet after Shutdown, and that it implements `DispatchService` |
| `MCDispatcher` | instances for TLC |
| `CefShim` | globals, mirrors, operations and callbacks of the native layer, as operators on its state; no next-state relation of its own |
| `MainRun` | one process: runtime, plan, lifecycle, on top of `CefShim` |
| `MainRunProofs` | theorems about `MainRun`, for all entries and scripts |
| `MCMainRun` | the plans and entries TLC enumerates |
| `Ipc`, `MCIpc` | the pair of message ports and the router of request channels |
| `IpcProofs` | theorems about `Ipc`, for any goroutines, messages and listeners |
| `AppLifecycle`, `MCAppLifecycle` | one App used by several goroutines and by its own handlers |
| `AppLifecycleProofs` | theorems about `AppLifecycle`, for any goroutines, handlers and waiters |
| `StackLemmas` | lemmas about goroutines as stacks of frames, which `IpcProofs` and `AppLifecycleProofs` instantiate |
| `CefFetch`, `MCCefFetch` | runs of `ceffetch`, one after the other, on the files they leave |
| `CefFetchProofs` | theorems about `CefFetch`, for all constants |
| `Windows` | a BrowserWindow: bounds, modes, Close with handlers that call back |
| `ViewTree` | views, their parents and their bounds |
| `WebContents` | navigation and history, with handlers that navigate again |
| `Sessions` | partitions, cookies and their journal, permissions, clears, WebAuthn |
| `Shortcuts` | accelerators, and triggers on several goroutines |
| `Menus`, `Notifications`, `Updates`, `Services` | menus and trays; notifications; the auto updater; utility process, net log, tracer and crash reporter |
| `Protocols`, `ContextBridge`, `AppPaths` | the registries: schemes and handlers, exposed values, paths and what else an app has recorded |
| `Asar` | archives: `Write` with a disk that fails, `Open`, reads |
| `Desktop` | clipboard, shell, dialogs, capturer and encrypted strings |
| `Harness` | the benchmark and conformance tools, the commands they run, their children and os/exec |
| `ProcessModel` | the process check's looks at /proc |
| `Electron` | all of these, one at a time: a behaviour picks one and is a behaviour of its specification |
| `ElectronProofs` | theorems about `Electron`, for any callers, names, values and bounds |
| `MCElectron` | the small instance of it for TLC |
| `Manifests` | what the packages without state accept and make of it |
| `SelfChecks` | the scripts behind the `--...-check` flags, as calls on the modules above |
| `CommandLine`, `MCCommandLine` | one run of `electron-go`, from its arguments to its exit code |
| `CommandLineProofs` | the theorem about exit codes, for any arguments and systems |

Operators named `Faulty...` are plausible mistakes in the operator that follows
them. No action uses one; each is there to show that a property would notice it.

### Dispatcher

State: `handlers`, `queue`, `closed`, `done` and `nextID` are the fields of
`Dispatcher`; `pc` and `call` are the goroutines inside the API, `worker` and
`current` that of `run`, `shutdown` and `drainer` those of `Shutdown`. `answers`
is the sequence sent on each call's one-place result channel. `admitted`, `ran`
and `rejected` only record history.

A call is `Begin` (the load of `closed`), `Prepare` (`prepare` under the read
lock), then `Admit` or `Refuse` (one case of `enqueue`'s select) and for Invoke
`Await` (one case of its select). A case is taken only when it is ready and
otherwise nondeterministically, as Go's select does; `TryDispatch`'s default
needs all the others not to be ready. `Shutdown` is `ShutdownSwap`, `CloseDone`
for the call that won the swap, and `ShutdownReturn`; its goroutine is `Join`,
then `DrainReceive` and `DrainAnswer` for each item. Register checks `closed`
before it takes the lock, hence two actions.

A handler may call the dispatcher it runs on (`Parent`). Such a call inherits
the handler's context (`CtxError`), which is how the code gets out of a handler
that waits for its own worker.

`Outcomes` is what a handler may return and `Code` the code of the response it
gets: an error of its own is `handler_failed`, but a `*DispatchError`, such as
that of a call it made itself, keeps its code. So a call that ran may be answered
`backpressure`. `ret` is the error a caller got, and `resp` the response that
came with it, which only Invoke after its select has.

What a handler computes, payloads and times are left out. A size is 1 or 2
against `MaxSize` 1; a deadline is a nondeterministic `EndContext` or
`EndHandlerContext`.

### CefShim and MainRun

`g` is the set of static globals of the shim, `mirror` the two Go variables,
`loop` the message loop. `g_quit_loop_on_load` is left out: nothing sets it to a
value but 0. CEF is external: `browser`, `navs`, `idleDue` and `scripts` say
which callbacks it still owes. A navigation ends, fails or is aborted; the
loading state becomes idle around the end of the last page; a load-end script
reports on the console; the browser closes because it was asked to or because
its user closes it.

`MainRun`'s `pc` is the main thread. Its actions follow `Runtime.Run` (`Hook`,
`LoadApp`, `ParseMain`, `Initialize`), `Execute` (`BeginExecute`,
`CreateWindow`, `InstallScript`, `LoadURL`, `Wait`, `LeaveLoop`, then one action
per plan action and `FinishActions`) and the return (`Shutdown`). Bridge.Start,
`CheckCEFInitialize` and the process check drive the native layer without a
plan and share those actions (`Direct`). Each operation that can fail has its
error branch; `fault` records whether something outside the program was to
blame for it.

### Ipc and AppLifecycle

Both packages lock for short critical sections and call handlers with no lock
held, on the goroutine that delivers. A goroutine is therefore a stack of
frames: an action is one critical section or the entry into or the return from
one handler, and a goroutine inside a handler may begin any operation.

In `Ipc`, `ports` holds the fields of the two `MessagePort`s. `PostMessage`
takes the lock of its own port, then `Deliver` that of the peer; `Start` takes
the queue and the listeners, and `CallListener`/`ListenerReturns` walk through
the calls of a `Start` or a `Deliver`. `Handle`, `RemoveHandler` and `Invoke`
(with `takeHandler`) are the router. `sent`, `fate`, `handled` and `invoked`
record history.

In `AppLifecycle` the first five variables are the fields of `App`. A frame
names the step its operation has reached: `Emit` an event, `CallBack` and
`CallReturns` for each handler taken, `Commit` (Quit sets `quitting`),
`Subscribed` (the second look of WindowAllClosed), `CallWaiters`. A handler may
prevent the default of an event only Quit asks about. `MainRun` keeps its own,
one-threaded lifecycle.

What is carried (transferred ports, values, exit codes) changes no
state of these packages and is left out.

### CefFetch

The files outlive the runs: `archives`, `trees` and `dirs` (an extracted
directory for each version), the link `current`, and `bin` with the version each
file is of. A run is `Start` (which skips to the link if `Release/libcef.so` is
there), `CreateArchive`, `Receive`, `Verify`, `MakeDirectory`, `OpenFile` and
`WriteFile` for each entry, `RemoveLink` and `MakeLink`, `SkipFile`, `OpenCopy`
and `WriteCopy` for each file staged, and `Clean`. A file is missing, cut short,
as published or something else. Errors and kills leave files as they are and are
one action, `Stop`, possible anywhere. Which artifact the manifest resolves to
is a choice of version. A version may have no known checksum. Two fetches at the
same time are not modelled: nothing in the repository runs them so.

### The Electron modules

Each of these packages is an object and its methods. A module has one variable,
the object as a record; a method is an operator from the object to the object
after the call, with what it returned in the field `ret`, and the action applies
it for some arguments. `SelfChecks` applies the same operators in its scripts,
which is why they are operators.

Where an event handler may call the object again the methods that go on after
an emit are not one step. `Windows` and `WebContents` keep a stack of the calls
in progress: a frame stands at the event whose handlers run, any other call may
come on top, and the frame goes on when it is uppermost again. `Shortcuts` keeps
what each goroutine looked up under the lock and is about to call. `Asar` writes
the unpacked files one by one and then the archive, and each step may fail and
end the `Write`; a reader keeps the table of the archive it opened.

The journals of events that tests read are kept as what they say to one who
reads them: the last event of a pair such as maximize and unmaximize, the jar
one gets by replaying the cookie changes, the offers of an updater, the index of
the action that was clicked.

Text that is put together is a sequence of its parts. The key of a login item
joins type, service, path and arguments with colons, so a path that holds one
may give the key of another path with an argument: `SameKeys` are two such items.

### Harness and ProcessModel

Both put a tool beside the processes it looks at. In `Harness` the run in
progress has a command (`root`), which may start a `child` that keeps the pipe
of the output, and what os/exec knows of it: `expired`, `signalled`, `reaped`,
and `done`, the one-place channel of `runSample`. `Cancelling`, `Reaping` and
`Waiting` are os/exec, as its documentation and the fields the code sets
(`Cancel`, `WaitDelay`) have it. `TakesDone` and `TakesDeadline` are the cases
of the probe's select; without the probe, and in conformance, there is only the
first. `todo` is the schedule, `samples` and `compared` what is kept. Fields
named `real...` record what happened to the processes.

In `ProcessModel` a `reader` is a look at /proc in progress: `names` are still
to be read, `stat` holds the parent read of one whose command line is next. The
sampler and, after it, the main goroutine use it. The processes fork, execute,
end, become orphans and are waited for between any two reads. A read that fails,
for whatever reason, leaves its process out (`missed`); a listing of /proc that
fails ends the sampler's look with nothing recorded (`SampleFails`) and the
check with an error. `unseen` and `unlisted` keep what the last sample and the
final listing did not get to see.

### Command line and self-checks

`machine` is what the run finds (native runtime, system, disk, package, files of
the audits), `line` its arguments, `at` where it stands. `ExecuteSubprocess` is
the question whether the process is one of Chromium's, `TakeFastPath` an app
named first, `ParseFlags` the rest, then `Answer` for the first flag given in
the order of the source, or `LaunchApp` or `RunWarmBenchmark`.

`SelfChecks` has an operator for each report. It runs the script of the source
on the objects of the other modules and gives the answers: one for each field
of the report that depends on the calls. The expected answers are those of
`cmd/electron-go/main_test.go`; the few that are expected to be no are `Denied`.
The checks of IPC and of the app lifecycle use objects that are modelled for
several goroutines, in modules of another form; they, the native theme and the
checks that only CEF can answer end with either exit code.

## Runs

| Run | Bounds | Shows |
|---|---|---|
| `dispatcher_safety` | 2 calls of any kind, 2 Shutdowns, 1 registrar, 1 key, queue of 1 | the ledger of work, one answer each, errors without a response that mean "not run", distinct IDs, quiet after Shutdown |
| `dispatcher_live` | 3 Invokes, two of them made by the first one's handler, 1 Shutdown, queue of 1 | refinement of `DispatchService`; calls, work and shutdowns end |
| `dispatcher_stranded` | 2 Dispatches, 1 Shutdown | finding, below |
| `main_run` | every entry, 18 scripts, one browser, at most two navigations | every property of the process |
| `message_ports` | 2 goroutines, 2 messages, 2 listeners, stacks of 2 | no message lost or handled twice, closed ports stay quiet, order and its one exception |
| `ipc_router` | 3 goroutines, 1 channel, 2 registrations, stacks of 2 | a once-handler is called once |
| `app_lifecycle` | 2 goroutines, 2 handlers, 2 waiters, 5 operations | ready callbacks run once, quits and vetoes balance |
| `app_unanswered` | 2 goroutines, 1 handler, 3 operations | finding, below |
| `cef_fetch` | 2 versions, one without checksum, 3 files, no bound on runs | only verified files, a link that is usable and stable, whole staging |
| `cef_fetch_cut` | 1 version, 3 files | finding, below |
| `electron_modules` | the small sets in `MCElectron`; stacks of 2, journals of 1 to 6 entries, 2 Writes, 2 samples of each command, 2 processes | each module's books agree whatever handlers, goroutines and a failing disk do in between; verdicts of the tools and the process check are true |
| `command_line` | 3 systems; every line of up to 3 of 9 arguments, and each flag alone | what every check reports; the exit code tells what happened |

Why the bounds are enough. In the dispatcher two calls fill and overflow a queue
of one, and two Shutdown calls give both outcomes of the swap and two drainers
at once; a third caller would only repeat one of those parts. Three requests
cover a request that passes and the checks of size, origin and a missing
handler (before registration or after Unregister), with an automatic and a given
ID. One of the handler's three outcomes is a code of a refusal, which its own
caller must not take for one. In the nested run the
handler's own two calls meet a full queue and a worker that waits for them.
`main_run` needs no bound: one process opens one browser (`WarmRun` refuses a
second iteration), `about:blank` and one page are all the navigations it starts,
and a script's actions are listed once each. The 18 scripts are all the parser
tells apart. Calls without a parent and Shutdown calls are interchangeable,
which is the symmetry used.

Two messages give an order to keep or break, two listeners a delivery that is
half done, and both may post, start, close or listen while the other goroutine
does; a router channel has one handler at a time, and a third goroutine meets
two that invoke it. Five operations are enough for two quits, a veto, an exit
and a subscription to overlap. A callback that uses its App or port inside
another callback is a stack of two; deeper stacks repeat that.

The fetcher's state is finite whatever the number of runs. Two versions are the
old and the new one of an upgrade; three files give a directory with two, one of
which may be missing.

In `electron_modules` a behaviour picks one of the modules, so their states add
up. The sizes are none and two that differ, which tell the bounds from the
normal ones; three views make a chain and a sibling; two navigations in progress are one that
interrupts another, three entries of history have a middle. Four spellings of
accelerators give two names for one shortcut and one that is refused; a callback
is one of two or missing. A notification has an action or none, with a text or
without, and takes replies or not, in a signed or an unsigned application. Two
Writes of an archive are the old one and the new one a reader may straddle. The
journals' bounds leave each service the time to start, stop and start again.
Two samples of each command give both orders of an iteration, and a first that
leaves processes behind for the second; the fixtures of conformance share
nothing, so one is enough. Two processes are siblings, or a child and its own
child that becomes an orphan.
The nine arguments of `command_line` are one of each kind the code tells apart,
with two numbers of warm runs; three of them give every order of a flag, an app
and an option before or behind it. A flag that answers does so alone, whatever
the machine, so each is tried on a line of its own.

`Ipc` and `AppLifecycle` describe a library whose callers may stop at any time, so they
state safety only, and have no fairness and no deadlock check. The same holds of
`electron_modules`. `command_line` checks deadlock: a run ends with an exit code.

The dispatcher's runs do not check deadlock: when every call has returned the
worker waits for ever, by design. `main_run` does.

### Fairness

Dispatcher: the scheduler runs every goroutine that can run, timers fire, and a
handler whose context has ended returns. The last is an obligation on handlers:
the code has one worker and no way to abandon a handler. Callers, registrars and
shutdowns are not fair.

MainRun: the main thread goes on; while its loop runs CEF ends each navigation,
reports idle, runs the script and carries out the close it was told to. The
user need not close the window, and no context need end.

### Findings

`docs/architecture.md:55` promises "shutdown rejection for queued and future
work". `enqueue` reads `closed` and only later enters its select, where the send
and `<-d.done` may both be ready. If the drainer has found the queue empty in
between, Go may choose the send (`dispatcher.go:270`): Dispatch returns success
and the item is never run nor answered. `dispatcher_stranded` gives the trace.
Invoke is not affected for long, since its own select also sees `done`.

`internal/applifecycle/lifecycle_test.go:131` and `:146` want a
WindowAllClosed without subscriber to quit and one with a subscriber to call it.
WindowAllClosed looks for subscribers again (`lifecycle.go:102`) after its Emit
has called those there were. One that is added in between is not called and yet
suppresses the quit. `app_unanswered` gives the trace.

`README.md:144` says that `ceffetch` stages "`bin/libcef.so` plus required
runtime resources". Extraction writes in place and a run takes a directory with
a regular file `Release/libcef.so` for extracted (`main.go:91`). After an
extraction that was cut short the next run succeeds with a part of the runtime,
or fails for want of the directory Resources, and so do all later ones, until
the directory is removed by hand. `cef_fetch_cut` gives the trace.

### What the checks say of ports

`InOrder` has an exception for what the code does: `Start` delivers the queue it
took with no lock held, so a message posted meanwhile is delivered directly and
overtakes it.

### What the checks say of the process

`ProcessReturns` has one exception, `Wedged`: a page with a load-end script whose
navigation is aborted (error -3, `cef_shim.c:279`). Nothing then completes the
load, and no context reaches the loop; the process waits for its user.
`NoShutdownUnderBrowser` allows an exception for processes that fail: a load
error quits the loop at once (`cef_shim.c:286`), often before the browser is
gone. `InitializedIsShutDown` excuses a context that has ended, with which
`shutdownCEF` does nothing; the command line only uses `context.Background()`.
With `about:blank` loaded first its end already runs the load-end script
(`cef_shim.c:242`), on a page without the element it writes to. The result
completes the load all the same; what a page shows is not in the model.

### What the checks say of archives

`ReadsBack` speaks of archives that open. One with an empty file, or with no
file at all, does not: `Write` omits a size of zero and an empty map from the
header (`internal/asar/archive.go:326` and `:328`), and `Open` requires both.

### What the checks say of the Electron modules

- Leaving one of two modes that are both on restores the normal bounds, though
  the other mode stays on (`window.go:199`). `BooksKept` does not forbid it.
- The path of the logs is frozen at the first question and does not follow a
  later change of userData (`apppaths/paths.go:106`), which `LogsStay` states;
  `PathsFollow` is about the others, each until it is set itself.
- `RegistrationsAgree` says that a key has one login item; two items whose parts
  join to one key take each other's place (`login_items.go:168`).
- An auto updater keeps what it found and what it downloaded through later
  checks: a download is of the last version announced though the last check
  found none, an install is of the last one downloaded though another was
  announced since (`updater.go:112`). `InstallsTheLastDownloaded` is named for
  what it says; nothing forbids the older version.
- `CallsWhatIsRegistered` excuses a trigger whose shortcut was unregistered after
  its look: the callback still runs.

### What the checks say of the tools and the process check

- A benchmark without the probe has no bound on its time: at the deadline
  os/exec kills the command alone and then waits for the pipe, which a child of
  the command may keep (`tools/benchmarks/main.go:308`). With the probe the
  benchmark goes on and leaves that child behind; conformance kills the group and
  gives up on the pipe after its `WaitDelay`. `DeadlineHolds` speaks of these two.
- `ClaimsAreFounded` holds all the same: a sample that left somebody behind is a
  failure, and the gates refuse any claim when one sample failed. It says
  nothing of a child that closes the pipe and lives on.
- `MatchesAreTrue` speaks of runs without an error. Two commands that both time
  out match.
- The last sample may have seen nothing, where /proc could not be listed, and
  the report does not tell (`process_model_linux.go:77`). `LastLookCounts` and
  `CleanMeansAlone` speak of the descendants that are reached through processes
  that the look could read.
- To the process check a descendant is one it can trace to itself. One whose
  parent has ended is an orphan, and is not counted as remaining though the
  sampler has seen it; `CleanMeansAlone` says "that its parents still connect".

### What the checks say of the command line

- An audit whose benchmark evidence is malformed passes its performance part:
  both numbers are 0, and the comparison overwrites the error's verdict
  (`cmd/electron-go/main.go:1003`). `AuditPasses` says so.
- Node's option for TypeScript is dropped when the app is named first on the
  line (`main.go:93`), and counts wherever it stands otherwise.
- The safe storage check goes by its answer `roundTrip`, all others by their
  error. `ExitTellsTheReport` demands of each what the code looks at.

## Proofs

`DispatcherProofs` proves, for every set of calls, shutdowns, keys and requests,
every queue size and every policy allowed by the named assumptions of
`Dispatcher`:

| Theorem | Invariant it rests on |
|---|---|
| `TypeCorrect` | `TInv`: `TypeOK`, with `WorkerBusy` (a worker that runs a handler holds an item) |
| `LedgerKept` | `LInv`: `TInv`, `DrainAfterExit` (a drainer drains only after the worker exited) and `Ledger` |
| `OneResponseEach` | `SInv`: `LInv`, `AdmittedOnce` (a call is admitted once, and only before it returned), `OneHand` (an item is in the worker's hand or in one drainer's) and `SettledOnce` |
| `ShutdownIsQuiet` | `LInv`, with the fact that a Shutdown that returned nil has a finished drainer |

`Ledger` alone is not inductive: the worker could take an item after a drainer
has begun, and its place in the order would be wrong. That a drainer joined the
worker first is exactly what `DrainAfterExit` adds. `SettledOnce` needs the
other two because an item answered twice would first have to be held twice or be
on the queue twice.

Who gets onto the queue follows from `SInv` and the facts a call carries from
`prepare` to the queue:

| Theorem | What the invariant adds |
|---|---|
| `RefusedIsRefused` | nothing: the property is inductive beside `SInv`. The errors of `prepare` and of enqueue's select come before the send (`AdmittedOnce`), and an Invoke that returns after it is handed a response (`AdmissionReturn`) |
| `AdmittedAreChecked` | a call at the select has passed all checks already (`ChecksGoFirst`), and nothing it carries changes later, though `closed` and the handlers may |
| `IDsAreDistinct` | no ID that was assigned is above the counter (`IDsAreTaken`) |
| `InvokesAnswerTruly` | a handler that makes a call has been taken from the queue (`ParentsRan`) |

`InvokeAnswersTruly` compares what an Invoke returned with what is true now,
after any number of later steps. Its own response stays the only one, by
`SettledOnce`. Its context stays ended: if that is the context of the handler
that made the call, the handler returns and the worker goes on, but by
`AdmittedOnce` and the ledger a call that has run is not taken again
(`EndedStays`).

`DispatcherRefines` is `Spec => ImplementsService`: the dispatcher implements `DispatchService` under the mapping `ServiceState`. By
`SInv` a call is in exactly one place: not admitted, queued, in the worker's or
one drainer's hand, or answered (`OnePlace`), so the cases of the mapping
exclude one another (`StateCases`). Each step then moves one call (`Moves`) or
none: enqueue's errors are `Refuse`, the send is `Submit`, the worker's receive
and return are `Run` and `Stop`, a drainer's receive is `Drop`, which needs that
the worker has exited (`DrainAfterExit`), and a response is `Answer`. An Invoke
that gives up waiting is a stutter: the service does not know its caller.

`CefFetchProofs` proves, for all versions, any set of them with checksums, all
files in any order that hold `libcef.so`, and any number of runs: `TypeCorrect`,
`OnlyVerified`, `LinkUsable`, `StagedWhole` and `LinkStable` (no step writes to
the directory the link points to). They share one invariant, `IInv`. None of the
properties is inductive alone: that the link is safe needs that whoever
downloads has found no `libcef.so` (`NotThere`) and whoever links has it
(`There`); that trees and `bin` are whole needs what a run has done of its list
(`Progress`, `CopyProgress`).

`MainRunProofs` proves, for any set of entries and of scripts, every order of
CEF's callbacks and every fault outside, the six invariants and the action
property of the run `main_run`: `MirrorsAlwaysAgree`,
`FailuresAlwaysHaveCauses`, `HostIsClosedOnce`, `SuccessIsALoad`,
`AppAlwaysFollowsWindow`, `InitializedIsAlwaysShutDown` and
`NeverShutDownUnderBrowser`. They share one invariant, `IInv`, a
conjunction of:

| Part | What it adds |
|---|---|
| `Untouched`, `BrowserKnown` | before `Initialize` nothing is set; what the globals and the mirrors say of the browser is what CEF has |
| `LoopQuits`, `CloseAsked` | the loop runs exactly while `Wait` does; the host was told to close as often as `closeRequested` says, and only after the load |
| `ScriptCompletes` | a plan with a load-end script is complete by the script's result only: the script is in place until then |
| `Caused` | an error has a fault, and so does a browser that is gone without a close |
| `Acting`, `Logged`, `EndsInOrder` | plan actions begin with the page loaded and the browser gone; the app's log grows in step with them; without an error CEF is shut down after the browser has gone |

`TypeOK` says more than types: `Labels` leaves out the message loop of
`CloseBrowserWindow`, and the proof shows that no process enters it. The loop
of `Wait` returns without an error only after the window has closed, so the
plan's own close finds it closed.

`IpcProofs` proves the four invariants of the ports and the router for any
goroutines, messages, listeners, registrations and channels and any depth of
nested calls: `EachAlwaysHandledOnce`, `ClosedAlwaysStaysQuiet`,
`AlwaysInOrder` and `OnceAlwaysRunsOnce`. The router's part of `IInv` is
`TakenOnce`: a registration serves one channel, and a once-handler that was
called none. The ports' part says where a message is. `OnePlace`: at most one
frame works on it. `FramesOK`: what a frame knows of the messages it carries,
by its operation; a `Start` will call its listeners in the order of the queue.
`QueuesOK`: nobody works on what waits on a queue, and earlier messages stand
before it. `MessagesOK` and `DeliveriesOK` tie a message's fate to its port and
to the calls made so far. Order is the hard part: a direct delivery may overtake
a `Start` that still walks through what it took, so `Direct` can only say that
earlier messages were handled or are in a frame (`Reached`). `InOrder` claims
no more than the code does, and `AlwaysInOrder` gets it from that.

`AppLifecycleProofs` proves `WaitersAlwaysRunOnce` and `QuitsAlwaysBalance`, for
any goroutines, handlers and waiters and any number of operations, from
`CallbackAssumption` (no callback is both). Neither invariant is
inductive, since an event is emitted several steps after what decides on it, by
a frame that handlers may stack others on. `Books` are the four conservation
laws behind `QuitBooks`: events emitted, quits prevented and frames on the way
from one event to the next balance. "On the way" is counted with `Count`,
which sums over all levels of all stacks; the set of goroutines may be infinite,
and that the frames counted are finitely many is part of the invariant
(`Counted`). `QuitAnnounced` says that only an app that quits has a quit to
emit. For the waiters, each one given is in the list, held by exactly one frame
(`OneHolder`) or called once (`WaiterOK`), and a frame that holds one implies
that the app is ready (`FramesOK`), which is why none is added to the list and
forgotten.

`StackLemmas` states once what a push, a pop or a change of a top frame does to
all stacks (`Pushed`, `Popped`, `Replaced`, with `Levels`), and how it moves the
number of frames of a kind (`CountMoves`). Both modules take it with
`INSTANCE`, for their own `Goroutines` and `Frames`.

`ElectronProofs` proves the properties of the run `electron_modules`, all but
that of the tools, for any window sizes, views, pages, partitions, cookies, accelerators, goroutines,
templates, schemes, worlds, paths, files and texts and any number of calls. The
composition picks a module and never leaves it (`StepOfOne`), so each theorem
rests on one invariant per module, which says more than the property:

| Theorem | Module | The invariant, and why the property needs it |
|---|---|---|
| `WindowsAlwaysKept` | `Windows` | `IsWindow`: types and `BooksKept`, between any two events; a `Close` that goes on may find its window closed by one on top of it, and closes it again |
| | `ViewTree` | `IsTree`: a view is at most once in a list of children, and in that of the parent it names only (`Agree`), so that the removal of its first occurrence leaves none |
| | `WebContents` | `IsPage`: the index points at the page that is shown, and while `loading` is set some frame, at whatever depth, stands at an event between the start and the end of a load |
| `SessionsAlwaysKept` | `Sessions` | `IsSession`: the replayed jar is the jar, and a key has one cookie |
| `ShortcutsAlwaysKept` | `Shortcuts` | `IsRegistry`: what a goroutine is about to call is a callback, and in the table, unless somebody unregistered its key since it looked |
| `RegistriesAlwaysKept` | `Protocols` | `IsSchemes`: kept by each entry of a list, which only adds privileges (`Grows`), since a list refused halfway stays half added |
| | `ContextBridge` | `IsBridge`: a world has one value of a key |
| | `AppPaths` | `IsStore`: registrations are a function, recent documents and the keys of login items are distinct, the badge shows what it counts; that a path follows is the look-up itself, for any overrides |
| `JournalsAlwaysKept` | `Menus` | `IsMenus`: what a click may add depends on the item as it is (`MayJournal`) |
| | `Notifications` | `IsNotice`: what stands in a journal before and after a close, what the flags say of it, and that its options, which never change, allow each entry (`NoticeAllows`) |
| | `Updates` | `IsUpdater`: `available` and `downloaded` are the last of their events at every point of the journal (`IsLast`) |
| | `Services` | `IsService`: one of four, each with the order of its own reports |
| | `Desktop` | `IsStored`: a cipher names the backend, key and text it was made with |
| `ArchivesAlwaysKept` | `Asar` | `IsArchive`: what is packed stands in the content at the offset its node says, however much is added behind it; while a `Write` goes on, no file it has put beside lies under one that is still to come and would replace it (`Ahead`) |

Four assumptions of `Electron` are used: sizes are integers and contents
sequences of integers, the name that stands for "no view" is none, and files are
finitely many. `ArchivesAlwaysKept` speaks of at most two packed files and one
beside, `RegistriesAlwaysKept` of lists of two schemes and `ShortcutsAlwaysKept`
of lists of two accelerators, as the steps of these modules do; there the folds
and the recursive function are unfolded. The recursive functions whose length
the modules leave open, such as `Without` of `AppPaths`, are shown to exist and
to be what their definitions say: `Induction` and `Recursion` are proved once,
for a set of naturals and for a function, from the well-founded order of the
naturals. The library's own theorems take a formula and a definition as
operators, which cannot be given here.

Most of these modules do without the community modules: the prover carries every
definition of each instance, and with sixteen of them that is most of its time.

`CommandLineProofs` proves `ExitAlwaysTells` for any tokens, flags and systems.
`IInv` adds where a run can be: nothing is said or launched before the
environment is read, and not both after. That a flag counted by `Flags` stands
on the line, and that an app named first leaves none before it, are lemmas about
the least index (`FlagsAreArguments`, `FastPathHasNoFlags`).

The layout is one lemma per invariant with a step per action, or one lemma per
action with a step per part, then the temporal theorem by PTL. The inductive
invariants of `dispatcher_safety`, `cef_fetch`, `main_run`, `message_ports`,
`ipc_router` and `app_lifecycle` were checked by TLC before they were proved.

Only model-checked: the tools and the process check (`ToolsKept`, which speaks
of ENABLED) and what the checks report (`ReportsAsTested`, which runs each script
once and has nothing to generalize). The instance `dispatcher_safety` has no call
made by a handler; the theorem `InvokesAnswerTruly` covers these as well.
Out of the prover's reach and left to TLC: liveness under fairness.

## Plan

1. *Done*: dispatcher, its abstract service, its proofs and the proof of the
   refinement; the process.
2. *Done*: `Ipc`, router and message ports, with delivery outside the lock.
3. *Done*: `AppLifecycle`, several goroutines and handlers that prevent, quit
   again or wait for ready.
4. *Done*: `Windows`, `ViewTree`, `WebContents`: sequences of legal calls, with
   re-entrant handlers.
5. *Done*: registries and journals: session, protocol, shortcuts, notifications,
   utility process, updater, menus, bridge, paths, desktop.
6. *Done*: `CefFetch`, crashes between steps; `Asar`, a disk that fails.
7. *Done*: `CommandLine` and the scripts of its checks.
8. *Done*: `Harness`: probe against process end, verdicts of a benchmark and of
   a conformance case; `ProcessModel`: subprocesses that come and go.
9. *Done*: proofs about the dispatcher, the process, the ports and the router,
   the app, the fetcher, the Electron modules and the exit code. Left: the verdicts
   of the tools (`ToolsKept`, all but its part about ENABLED), and archives of any
   number of files.

## Not modelled

- Rendering, JavaScript and CEF itself are outside the repository.
- The main script parser's text matching is abstracted to what it finds in a
  script; JSON, URLs and paths to what the code tells apart in them.
- Values that are only set and read back: titles, colours, labels, tooltips,
  opacity, visibility of views.
- The reports of the IPC and app lifecycle checks, values of flags such as
  `--version=false`, and the fields of the ledger the command line prints.
- In archives `Split` and `CopyFileSource`; in `ceffetch` the resolution of the
  artifact, headers and links of archives.
- npm, Node's module resolution, native theme and active app: constant tables or
  questions to the system.
- In the tools: memory probes, traces and paired comparisons, computed from the
  samples that are modelled; splitting of command lines; the skip of conformance
  in a macOS sandbox.
- The ledger's counting and the audit tools: reports over files without state.
- Platform stubs: each returns one value or `ErrBridgeUnavailable`.

`PROJECT.json` lists every component with its reason.
