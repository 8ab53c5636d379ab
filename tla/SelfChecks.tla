----------------------------- MODULE SelfChecks -----------------------------
(* The reports behind the --...-check flags of electron-go                    *)
(* (cmd/electron-go/main.go): scripts of calls on the objects of the other    *)
(* modules. A report is whether it has an error, and an answer for each of    *)
(* its fields that depends on the calls; a field with a text or a number is   *)
(* whether it has the value the script put in.                                *)
EXTENDS Integers, Sequences, FiniteSets, Manifests

VARIABLE said        \* what the command printed

W == INSTANCE Windows WITH window <- said, Sizes <- {}, Origins <- {}, MaxCalls <- 1
V == INSTANCE ViewTree WITH tree <- said, Views <- {"root", "newParent", "a", "b", "c", "live"},
                            Widths <- {}, NoView <- "nil"
C == INSTANCE WebContents WITH contents <- said, Urls <- {}, Unparsable <- "none:",
                               MaxCalls <- 1, MaxHistory <- 1
S == INSTANCE Sessions WITH sessions <- said, Partitions <- {}, Default <- "", Malformed <- "bad",
                            Persistent <- {"persist:egtest"}, Hosts <- {}, NoHost <- "",
                            MaxSessions <- 3, Cookies <- {}
K == INSTANCE Shortcuts WITH registry <- said, Callbacks <- {}, Goroutines <- {}, Accelerators <- {}
M == INSTANCE Menus WITH menus <- said, Ids <- {}, MaxEvents <- 1, Templates <- {}
N == INSTANCE Notifications WITH notice <- said, MaxEvents <- 1, OptionSets <- {}
U == INSTANCE Updates WITH updater <- said, Versions <- {}, Current <- "1.0.0", MaxEvents <- 1
P == INSTANCE Services WITH service <- said, Keys <- {}, MaxEvents <- 1
R == INSTANCE Protocols WITH registry <- said, Schemes <- {}, BadScheme <- "BAD"
B == INSTANCE ContextBridge WITH bridge <- said, Worlds <- {}, Keys <- {}, Values <- {}
A == INSTANCE AppPaths WITH store <- said, Systems <- {}, ConfigHomes <- {}, Moved <- <<"/", "dir">>,
                            Arguments <- {}
Z == INSTANCE Asar WITH asar <- said, Files <- {}, Contents <- {}, MaxWrites <- 1, MaxHeader <- 1
D == INSTANCE Desktop WITH desktop <- said, Texts <- {}, Keys <- {}, MaxJournal <- 1
-----------------------------------------------------------------------------
Report(error, answers) == [error |-> error, answers |-> answers]
Failed                 == Report(TRUE, [none |-> TRUE])

\* Some of the calls of a script were refused, so that its report is an error.
Refused(objects) == \E o \in objects : o.ret # "ok"

BrowserWindowOptions ==
    LET o    == W!NormalizeOptions([W!NoOptions EXCEPT !.width = <<640>>, !.height = <<480>>,
                    !.show = <<FALSE>>, !.parentID = 42, !.modal = TRUE, !.title = "Fixture",
                    !.prefs = [@ EXCEPT !.devTools = <<FALSE>>, !.contextIsolation = <<FALSE>>,
                                        !.nodeIntegration = TRUE]])
        none == W!NormalizeOptions(W!NoOptions)
        w    == W!NewWindow(o)
    IN Report(W!Rejected(W!NoOptions),
              [width |-> w.bounds.w = 640, height |-> w.bounds.h = 480,
               visible |-> W!IsVisible(w), title |-> w.title = "Fixture",
               devTools |-> o.prefs.devTools, defaultDevTools |-> none.prefs.devTools,
               defaultContextIsolation |-> none.prefs.contextIsolation,
               explicitContextIsolation |-> o.prefs.contextIsolation,
               explicitNodeIntegration |-> o.prefs.nodeIntegration,
               modalConstructed |-> o.modal /\ o.parentID = 42])

\* Shown, hidden, in and out of three modes, then closed twice: the handler
\* prevents the first.
BrowserWindowMethods ==
    LET new     == W!NewWindow(W!NormalizeOptions([W!NoOptions EXCEPT !.show = <<FALSE>>]))
        moved   == W!SetBounds(new, [x |-> 10, y |-> 20, w |-> 500, h |-> 400])
        sized   == W!SetSize(moved, 320, 240)
        shown   == W!Show(sized)
        hidden  == W!Hide(shown)
        disabled == W!SetEnabled(hidden, FALSE)
        again   == W!Show(W!SetEnabled(disabled, TRUE))
        small   == W!Minimize(again)
        back    == W!Restore(small)
        large   == W!Maximize(back)
        normal  == W!Unmaximize(large)
        kept    == W!Close(normal, TRUE)
        closed  == W!Close(kept, FALSE)
        bounds  == [x |-> 10, y |-> 20, w |-> 320, h |-> 240]
    IN Report(Refused({moved, sized, shown, hidden, disabled, again, small, back, large, normal})
                  \/ kept.ret = "TRUE",
              [initialVisible |-> W!IsVisible(new), afterShow |-> W!IsVisible(shown),
               afterHide |-> W!IsVisible(hidden), bounds |-> normal.bounds = bounds,
               normalBounds |-> normal.normal = bounds,
               enabledAfterDisable |-> W!IsEnabled(disabled),
               enabledAfterEnable |-> W!IsEnabled(again),
               minimizedAfterMinimize |-> small.modes.minimized,
               minimizedAfterRestore |-> back.modes.minimized,
               maximizedAfterMaximize |-> large.modes.maximized,
               maximizedAfterUnmaximize |-> normal.modes.maximized,
               usableAfterPreventedClose |-> ~kept.closed /\ W!IsEnabled(kept),
               closed |-> closed.ret = "TRUE", closedEvent |-> closed.closedEvents = 1,
               enabledAfterEnd |-> W!IsEnabled(closed)])

FocusOnNavigation ==
    LET none     == W!NormalizeOptions(W!NoOptions)
        explicit == [W!NoOptions EXCEPT !.prefs = [@ EXCEPT !.focusOnNavigation = <<FALSE>>]]
    IN Report(W!Rejected(W!NoOptions) \/ W!Rejected(explicit),
              [defaultFocuses |-> none.prefs.focusOnNavigation,
               explicitFalseFocuses |-> W!NormalizeOptions(explicit).prefs.focusOnNavigation])

OffscreenDeviceScale ==
    LET none   == [W!NoOptions EXCEPT !.prefs = [@ EXCEPT !.offscreen = TRUE]]
        custom == [none EXCEPT !.prefs = [@ EXCEPT !.deviceScaleFactor = <<2>>]]
    IN Report(W!Rejected(none) \/ W!Rejected(custom),
              [defaultDeviceScaleFactor |-> W!NormalizeOptions(none).prefs.deviceScaleFactor = 1,
               customDeviceScaleFactor |-> W!NormalizeOptions(custom).prefs.deviceScaleFactor = 2])
-----------------------------------------------------------------------------
\* A load with all its events, of which seen are those that a call stood at.
Loaded(wc, url) ==
    LET stages[n \in 0..8] == IF n = 0 THEN C!Begin(wc, "LoadURL", url)
                                       ELSE C!HandlersReturn(stages[n-1])
    IN [contents |-> stages[8],
        seen     |-> {C!Stages[C!Innermost(stages[n]).call][C!Innermost(stages[n]).at] : n \in 0..7}]

WebContentsNavigation ==
    LET load == Loaded(C!New, "data:") IN
    Report(Refused({load.contents}),
           [didStartNavigation |-> "did-start-navigation" \in load.seen,
            didNavigate |-> "did-navigate" \in load.seen,
            didFinishLoad |-> "did-finish-load" \in load.seen,
            didNavigateInPage |-> "did-navigate-in-page" \in load.seen,
            canGoBack |-> C!CanGoBack(load.contents), canGoForward |-> C!CanGoForward(load.contents),
            loadingAfter |-> load.contents.loading,
            historyLength |-> Len(load.contents.history) = 1])

WebContentsPrint ==
    LET first    == C!PrintPage(C!New, 0, <<>>, TRUE)
        conflict == C!PrintPage(first, 0, <<210000>>, TRUE)
    IN Report(Refused({first}),
              [pageSizeOmitted |-> first.lastPrint[1].pageSize = <<>>,
               copiesDefault |-> first.lastPrint[1].copies = 1,
               conflictRejected |-> conflict.ret = "ErrInvalidPrintOptions"])

\* The views' widths are in hundreds.
ViewTreeCheck ==
    LET sized == V!SetBounds(V!SetBounds(V!SetBounds(V!NewTree, "a", 1, FALSE), "b", 2, FALSE),
                             "c", 3, FALSE)
        three   == V!AddChild(V!AddLast(V!AddLast(sized, "root", "a"), "root", "b"), "root", "c", 1)
        removed == V!RemoveChild(three, "root", "b")
        moved   == V!AddLast(removed, "newParent", "a")
        live    == V!AddLast(V!SetBounds(moved, "live", 4, FALSE), "newParent", "live")
        off     == V!RemoveChild(live, "newParent", "live")
        load    == Loaded(C!New, "data:")
        Shows(t, v) == \E i \in DOMAIN t.children[v] : t.children[v][i] = "live"
    IN Report(Refused({sized, three, moved, live, load.contents}),
              [boundsChanged |-> "c" \in sized.changed,
               rootChildWidths |-> V!ChildWidths(three, "root") = <<1, 3, 2>>,
               afterRemoveWidths |-> V!ChildWidths(removed, "root") = <<1, 3>>,
               afterReparentWidths |-> V!ChildWidths(moved, "root") = <<3>>,
               newParentChildWidths |-> V!ChildWidths(moved, "newParent") = <<1>>,
               liveWebContentsParented |-> Shows(live, "newParent"),
               liveWebContentsLoaded |-> load.contents.current = "data:",
               liveWebContentsDetached |-> ~Shows(off, "newParent")])

ViewAnimation ==
    LET t == V!SetBounds(V!NewTree, "a", 3, TRUE) IN
    Report(Refused({t}), [animated |-> t.animated["a"], boundsChanged |-> "a" \in t.changed,
                          bounds |-> t.width["a"] = 3])

\* Two contents, 9 and 10: the first is asked twice. A target is known by the
\* contents it was made for.
DevToolsTarget ==
    LET first == C!GetOrCreateDevToolsTargetID(C!New) IN
    Report(FALSE, [firstNonempty |-> first.targetID,
                   stable |-> C!GetOrCreateDevToolsTargetID(first).targetID = first.targetID,
                   distinct |-> ~C!New.targetID])
-----------------------------------------------------------------------------
Clipboard ==
    Report(FALSE, [textRoundTrip |-> D!Read(D!Write(D!NewClipboard, "text", "t"), "text") = "t"])

ClipboardFormats ==
    LET c == D!WriteBuffer(D!Write(D!Write(D!NewClipboard, "html", "h"), "rtf", "r"), "custom", "b")
    IN Report("ErrClipboardEmpty" \in {D!Read(c, "html"), D!Read(c, "rtf"), D!ReadBuffer(c, "custom")},
              [html |-> D!Read(c, "html") = "h", rtf |-> D!Read(c, "rtf") = "r",
               buffer |-> D!ReadBuffer(c, "custom") = "b"])

Shell == LET open == D!OpenPath("missing") IN
         Report(open.error, [missingPathRejected |-> open.message # ""])

SafeStorage ==
    LET storage == CHOOSE s \in D!NewStorage("basic_text", TRUE, "") : TRUE
        cipher  == D!EncryptStringAsync(storage, "token", FALSE)
    IN Report(cipher = <<>>,
              [available |-> storage.available,
               roundTrip |-> D!DecryptStringAsync(storage, cipher[1], FALSE) = "token"])

ContentTracing ==
    LET started == P!StartTracing(P!Tracer, {"electron"})
        stopped == P!StopTracing(started)
    IN Report(Refused({started, stopped}),
              [started |-> started.on, stopped |-> ~stopped.on,
               categories |-> stopped.events = <<{"electron"}>>, heapProfiling |-> FALSE])

CrashReporter ==
    LET new     == P!StartCrashReporter({"channel"})
        added   == P!AddExtraParameter(new, "build")
        removed == P!RemoveExtraParameter(added, "build")
    IN Report(P!BadReporter(FALSE, "", {"channel"}) \/ Refused({added}),
              [uploadInitial |-> FALSE, extraInitial |-> "channel" \in P!Parameters(new),
               extraAdded |-> {"channel", "build"} \subseteq P!Parameters(added),
               extraRemoved |-> P!Parameters(removed) = {"channel"},
               reportsEmpty |-> removed.events = <<>>])

NetLogCheck ==
    LET started == P!StartLogging(P!NetLog, "log")
        stopped == P!StopLogging(started)
    IN Report(Refused({started, stopped}), [activeDuring |-> started.on, inactiveAfter |-> ~stopped.on])

UtilityProcess ==
    LET options == [module |-> "worker.js", stdio |-> "pipe", badEnv |-> FALSE]
        started == P!Start(P!Fork(options))
        sent    == P!PostMessage(started)
        killed  == P!Kill(sent)
    IN Report(P!BadProcess(options) \/ Refused({started, sent, killed}),
              [stdoutPiped |-> killed.stdio = "pipe", stdinPiped |-> FALSE, stdinWrite |-> FALSE,
               events |-> killed.events = <<"spawn", "message", "exit">>])
-----------------------------------------------------------------------------
ElectronPlatform(os) == IF os = "windows" THEN "win32" ELSE os

NotificationCheck ==
    Report(N!BadOptions(N!Options), [defaultUrgency |-> N!New(N!Options).options.urgency = "normal"])

\* Off darwin there is nothing to try.
NotificationFailure(os) ==
    LET options == [N!Options EXCEPT !.unsigned = TRUE]
        shown   == N!Show(N!New(options))
    IN IF ElectronPlatform(os) # "darwin" THEN Report(FALSE, [unsupported |-> TRUE])
       ELSE Report(N!BadOptions(options), [failed |-> shown.events = <<<<"failed", 0>>>>, shown |-> shown.shown])

NotificationIdentity(os) ==
    LET options == [N!Options EXCEPT !.id = "deploy-42"] IN
    IF ElectronPlatform(os) \notin {"darwin", "win32"} THEN Report(FALSE, [none |-> TRUE])
    ELSE Report(N!BadOptions(options), [id |-> N!New(options).options.id = "deploy-42"])

AutoUpdater(os) ==
    LET fed == U!SetFeedURL(U!New, "ok", "squirrel", "ok") IN
    IF ElectronPlatform(os) \notin {"darwin", "win32"} THEN Report(FALSE, [none |-> TRUE])
    ELSE Report(Refused({fed}), [feed |-> fed.feed = "squirrel"])

\* A group with a line break is accepted; only one with a nul is not.
AppWebAuthn(os) ==
    LET first  == Configure([group |-> "", ret |-> "ok"], "TEAM.bundle")
        second == Configure(first, "line break")
    IN Report(Refused({first, second}),
              [touchIDSupported |-> SupportsTouchID(os) = (os = "darwin"),
               groupStored |-> first.group = "TEAM.bundle",
               invalidRejected |-> second.ret = "ErrInvalidConfig"])

GlobalShortcut ==
    LET accelerator == <<"commandorcontrol", "alt", "shift", "f19">>
        alias       == <<"cmdorctrl", "option", "shift", "f19">>
        first   == K!Register(K!NewRegistry, accelerator, "f")
        second  == K!Register(first, alias, "f")
        without == K!Unregister(second, accelerator)
        again   == K!Register(without, accelerator, "f")
    IN Report(FALSE, [registered |-> first.ret, duplicateRejected |-> ~second.ret,
                      aliasRegistered |-> K!IsRegistered(second, alias),
                      unregistered |-> ~K!IsRegistered(without, alias),
                      unregisterAllCleared |-> ~K!IsRegistered(K!UnregisterAll(again), accelerator)])

ShortcutSuspension ==
    LET off == K!NewRegistry  on == K!SetSuspended(off, TRUE) IN
    Report(FALSE, [initialSuspended |-> off.suspended, suspendedAfterSet |-> on.suspended,
                   resumedAfterUnset |-> ~K!SetSuspended(on, FALSE).suspended])

MenuCheck ==
    LET template == <<[M!Entry EXCEPT !.id = "open"], [M!Entry EXCEPT !.type = "separator"],
                      [M!Entry EXCEPT !.id = "toggle", !.type = "checkbox", !.checked = TRUE,
                                      !.enabled = <<FALSE>>],
                      [M!Entry EXCEPT !.id = "view", !.parent = TRUE],
                      [M!Entry EXCEPT !.id = "devtools", !.level = 1]>>
        built    == M!BuildFromTemplate(template)
        updated  == M!UpdateItem(built, "open", [enabled |-> <<FALSE>>, visible |-> <<>>,
                                                 checked |-> FALSE])
        tray     == M!SetContextMenu(M!NewTray)
    IN Report(Refused({built, updated, tray}),
              [firstEnabled |-> built.items[1].enabled, checkboxChecked |-> built.items[3].checked,
               submenuFound |-> M!ItemByID(built, "devtools") # 0,
               dynamicEnabledUpdated |-> ~updated.items[M!ItemByID(updated, "open")].enabled,
               trayContextMenuSet |-> tray.shows])
-----------------------------------------------------------------------------
\* disk: whether directories and files can be made.
AppPathsCheck(os, disk) ==
    LET new     == A!NewStore(os, <<>>, FALSE)
        session == A!SetPath(new, "sessionData", <<"/", "dir">>)
        logs    == A!SetPath(session, "logs", <<"/", "dir">>)
        asked   == {"home", "appData", "userData", "temp", "exe", "module", "desktop", "documents",
                    "downloads", "music", "pictures", "videos", "crashDumps", "sessionData"}
    IN IF ~disk THEN Failed
       ELSE Report(Refused({A!GetPath(new, n, TRUE) : n \in asked} \cup {session, logs}),
                   [nonempty |-> \A n \in asked : A!PathOf(new, n) # <<>>,
                    sessionDataDefaultsUserData |->
                        A!PathOf(new, "sessionData") = A!PathOf(new, "userData"),
                    sessionDataOverride |-> A!PathOf(session, "sessionData") = <<"/", "dir">>,
                    logsOverride |-> A!PathOf(logs, "logs") = <<"/", "dir">>])

\* All three files are packed, the one that the report calls unpacked too.
AsarCheck(disk) ==
    LET main   == <<"main.js">>
        native == <<"native", "addon.node">>
        index  == <<"pkg", "index.js">>
        packed == [f \in {main, native, index} |-> CASE f = main   -> <<1, 2>>
                                                     [] f = native -> <<3>>
                                                     [] OTHER      -> <<4, 5, 6>>]
        begun  == Z!BeginWrite(Z!New, packed, [f \in {} |-> <<>>], <<main, native, index>>, <<>>)
        opened == Z!Open(Z!WriteArchive(begun, 6))
        Candidates(s) == <<<<s>>, <<s \o ".js">>, <<s \o ".json">>, <<s, "index.js">>>>
    IN IF ~disk THEN Failed
       ELSE Report(Refused({opened}) \/ <<>> \in {Z!ReadFile(opened, main), Z!ReadFile(opened, native)},
                   [readMain |-> Z!ReadFile(opened, main) = <<packed[main]>>,
                    requireIndex |-> Z!ResolveModule(opened.handle[1], Candidates("pkg")) = "ok",
                    unpackedRead |-> Z!ReadFile(opened, native) = <<packed[native]>>,
                    copySourceUnpacked |-> FALSE,
                    statSize |-> opened.handle[1][main].size = 2])
-----------------------------------------------------------------------------
ChromiumFeatures ==
    LET new  == NewFeatures("152", {"rgb10a2", "rgba8"})
        used == RecordDiagnostic(SetFeature(new[1], "WebAssemblyTrapHandler", TRUE), "loaf")
    IN Report(new = <<>>, [sharedTextures |-> used.textures = <<"rgba8", "rgb10a2">>,
                           featureFlagWorks |-> "WebAssemblyTrapHandler" \in used.features,
                           diagnosticRecorded |-> used.diagnostics = <<"loaf">>])

ContextBridgeCheck ==
    LET Leaf(kind, text, key) == [kind |-> kind, text |-> text, key |-> key]
        api == [kind |-> "object", text |-> "",
                children |-> <<Leaf("string", "1.0.0", "version"), Leaf("function", "add", "add"),
                               Leaf("array", "true", "flags"), Leaf("bool", "true", "duplicateRejected")>>]
        first   == B!ExposeInMainWorld(B!New, "fixture", api)
        second  == B!ExposeInMainWorld(first, "fixture", [kind |-> "null", text |-> "", children |-> <<>>])
        mutated == B!MutateExposure(second, 0, "fixture")
    IN Report(Refused({first}) \/ ~B!HasKey(second, 0, "fixture"),
              [exposed |-> B!Exposed(mutated, 0) = {<<"fixture", api>>},
               duplicateRejected |-> second.ret = "ErrAlreadyExposed",
               mutationRejected |-> mutated.ret = "ErrMutationNotAllowed"])

NodeVersions ==
    LET versions == ProcessVersions([electron |-> "42", chrome |-> "148", node |-> "24", v8 |-> "14",
                                     modules |-> "146"])
    IN Report(versions = <<>>, [nativeABIReported |-> "modules" \in DOMAIN versions[1]])

ClientRequest ==
    LET request == NewClientRequest("POST", "http", TRUE, "manual") IN
    Report(request = <<>>, [method |-> request[1].method = "POST", ended |-> End(request[1]).ended,
                            redirectPolicy |-> request[1].policy = "manual"])

ProtocolCheck ==
    LET Entry(scheme, privileges) == <<[scheme |-> scheme, privileges |-> privileges]>>
        privileged == R!RegisterSchemesAsPrivileged(R!NewRegistry,
                          Entry("egtest", {"standard", "allowExtensions"}))
        handled  == R!RegisterHandler(privileged, "egtest", "string", "201")
        fetched  == R!Dispatch(handled, "egtest")
        second   == R!RegisterHandler(fetched, "egtest", "string", "none")
        late     == R!RegisterSchemesAsPrivileged(R!LockPrivileges(second), Entry("late", {"standard"}))
        removed  == R!UnregisterProtocol(late, "egtest")
    IN Report(Refused({privileged, handled, removed}) \/ fetched.ret # "201",
              [allowExtensions |-> "allowExtensions" \in R!PrivilegesFor(privileged, "egtest")[1],
               handledAfterRegister |-> R!IsProtocolHandled(handled, "egtest"),
               duplicateRejected |-> second.ret = "ErrAlreadyRegistered",
               latePrivilegedRejected |-> late.ret = "ErrRegistryLocked",
               handledAfterRemove |-> R!IsProtocolHandled(removed, "egtest")])

Packaging ==
    LET m == [name |-> "n", executable |-> "e", helpers |-> {"h"}, resources |-> {"app.asar"},
              fuses |-> {"runAsNode", "onlyLoadAppFromAsar"}, packages |-> {"dmg", "nsis", "msix"},
              identity |-> "i", hardenedRuntime |-> TRUE, notarized |-> TRUE, masCompliant |-> FALSE]
        unsigned == [m EXCEPT !.identity = "", !.hardenedRuntime = FALSE, !.notarized = FALSE]
    IN Report(~ValidManifest(m),
              [msixRequiresSigning |-> ~ValidManifest(unsigned),
               masRejectedWithoutCompliance |-> ~ValidManifest([m EXCEPT !.packages = {"mas"}]),
               invalidFuseRejected |-> ~ValidManifest([m EXCEPT !.fuses = {"unknown"}])])
-----------------------------------------------------------------------------
ACookie(name, value) ==
    [name |-> name, value |-> value, host |-> "example.test", scheme |-> "https", secure |-> FALSE,
     domain |-> "", dotted |-> FALSE, path |-> ""]

CookieValues(s, name) == {c.value : c \in {d \in s.jar : d.name = name}}

\* Three partitions; cookies set, overwritten, deleted and cleared in one.
SessionCheck ==
    LET all     == S!FromPartition(S!FromPartition(S!FromPartition([p \in {} |-> {}], ""),
                                                   "persist:egtest"), "egtest-memory")
        first   == S!RequestPermission([all[""] EXCEPT !.check = <<TRUE>>, !.handler = <<TRUE>>])
        set     == S!SetCookie(first, ACookie("sid", 1))
        again   == S!SetCookie(set, ACookie("sid", 2))
        deleted == S!DeleteCookie(again, "example.test", "sid")
        disk    == S!SetCookie(all["persist:egtest"], ACookie("sid", 3))
        memory  == S!SetCookie(all["egtest-memory"], ACookie("sid", 4))
        filled  == S!SetCookie(S!ClearCache(deleted), ACookie("clearme", 1))
        cleared == S!ClearStorageData(filled, {"cookies", "localstorage"}, {"example.test"})
    IN Report(Refused({first, set, again, deleted, disk, memory, filled, cleared}),
              [persistStoragePath |-> disk.persistent, memoryStoragePathEmpty |-> ~memory.persistent,
               permissionCheckCalled |-> S!CheckPermission(first),
               cookieOverwriteValue |-> CookieValues(again, "sid") = {2},
               cookieOverwriteChange |-> again.replayed = again.jar,
               cookieRemoved |-> deleted.jar = {}, cookieRemoveChange |-> deleted.replayed = {},
               isolation |-> /\ CookieValues(disk, "sid") = {3}
                             /\ CookieValues(memory, "sid") = {4} /\ deleted.jar = {},
               cacheClear |-> filled.cacheCleared,
               storageClearRemovedCookies |-> CookieValues(cleared, "clearme") = {}])

\* Quotas are not looked at.
SessionQuotas ==
    LET cleared == S!ClearStorageData(S!NewSession(""), {}, {}) IN
    Report(cleared.ret \notin {"ok", "ErrUnsupportedClearOption"}, [acceptsQuotas |-> cleared.ret = "ok"])

SessionWebAuthn ==
    LET selected == S!SelectWebAuthnAccount(S!NewSession(""), "request",
                        <<"credential-1", "credential-2">>, <<"credential-2">>)
    IN Report(selected.ret = "ErrInvalidWebAuthnSelection",
              [selectedCredential |-> selected.ret = "credential-2"])
-----------------------------------------------------------------------------
\* The checks by their flag. ipc-check and app-lifecycle-check use the modules
\* Ipc and AppLifecycle, whose objects are no values, and are not scripts here.
Check(flag, os, disk) ==
    CASE flag = "window_options"        -> BrowserWindowOptions
      [] flag = "window_methods"        -> BrowserWindowMethods
      [] flag = "view_tree"             -> ViewTreeCheck
      [] flag = "view_animation"        -> ViewAnimation
      [] flag = "navigation"            -> WebContentsNavigation
      [] flag = "devtools_target"       -> DevToolsTarget
      [] flag = "print"                 -> WebContentsPrint
      [] flag = "focus"                 -> FocusOnNavigation
      [] flag = "offscreen"             -> OffscreenDeviceScale
      [] flag = "context_bridge"        -> ContextBridgeCheck
      [] flag = "clipboard"             -> Clipboard
      [] flag = "clipboard_formats"     -> ClipboardFormats
      [] flag = "shell"                 -> Shell
      [] flag = "chromium"              -> ChromiumFeatures
      [] flag = "tracing"               -> ContentTracing
      [] flag = "crash"                 -> CrashReporter
      [] flag = "app_paths"             -> AppPathsCheck(os, disk)
      [] flag = "asar"                  -> AsarCheck(disk)
      [] flag = "app_webauthn"          -> AppWebAuthn(os)
      [] flag = "auto_updater"          -> AutoUpdater(os)
      [] flag = "shortcut"              -> GlobalShortcut
      [] flag = "suspension"            -> ShortcutSuspension
      [] flag = "menu"                  -> MenuCheck
      [] flag = "netlog"                -> NetLogCheck
      [] flag = "client_request"        -> ClientRequest
      [] flag = "node_versions"         -> NodeVersions
      [] flag = "notification"          -> NotificationCheck
      [] flag = "notification_failure"  -> NotificationFailure(os)
      [] flag = "notification_identity" -> NotificationIdentity(os)
      [] flag = "safe_storage"          -> SafeStorage
      [] flag = "packaging"             -> Packaging
      [] flag = "protocol"              -> ProtocolCheck
      [] flag = "session"               -> SessionCheck
      [] flag = "session_quotas"        -> SessionQuotas
      [] flag = "session_webauthn"      -> SessionWebAuthn
      [] flag = "utility_process"       -> UtilityProcess

\* The fields that a check is to answer with no; all others with yes.
Denied ==
    {<<"window_options", f>> : f \in {"visible", "devTools", "explicitContextIsolation"}}
    \cup {<<"window_methods", f>> : f \in {"initialVisible", "afterHide", "enabledAfterDisable",
              "minimizedAfterRestore", "maximizedAfterUnmaximize", "enabledAfterEnd"}}
    \cup {<<"navigation", f>> : f \in {"didNavigateInPage", "canGoBack", "canGoForward", "loadingAfter"}}
    \cup {<<"utility_process", f>> : f \in {"stdinPiped", "stdinWrite"}}
    \cup {<<"focus", "explicitFalseFocuses">>, <<"tracing", "heapProfiling">>,
          <<"crash", "uploadInitial">>, <<"asar", "copySourceUnpacked">>,
          <<"app_webauthn", "invalidRejected">>, <<"suspension", "initialSuspended">>,
          <<"protocol", "handledAfterRemove">>, <<"notification_failure", "shown">>}
=============================================================================
