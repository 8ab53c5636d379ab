------------------------------ MODULE Electron ------------------------------
(* The modules of the electron API, and what looks on from outside: the tools *)
(* that compare it with Electron's, the process check. They share no state: a *)
(* behaviour picks one of them and is a behaviour of its specification, so    *)
(* that their states add up and do not multiply.                              *)
EXTENDS Integers, FiniteSets, Sequences

CONSTANTS
    Sizes, Origins, WindowCalls,                            \* Windows
    Views, Widths, NoView,                                  \* ViewTree
    Urls, Unparsable, PageCalls, MaxHistory,                \* WebContents
    Partitions, Default, Malformed, Persistent, Hosts, NoHost,
    MaxSessions, Cookies,                                   \* Sessions
    Accelerators, Callbacks, Goroutines,                    \* Shortcuts
    Templates, MenuIds, MenuEvents,                         \* Menus
    NoticeOptions, NoticeEvents,                            \* Notifications
    Versions, Current, UpdateEvents,                        \* Updates
    CrashKeys, ServiceEvents,                               \* Services
    Schemes, BadScheme,                                     \* Protocols
    Worlds, ApiKeys, Exposable,                             \* ContextBridge
    Systems, ConfigHomes, Moved, Arguments,                 \* AppPaths
    Files, Contents, MaxWrites, MaxHeader,                  \* Asar
    Texts, StorageKeys, MaxJournal,                         \* Desktop
    Iterations, Fixtures, Durations,                        \* Harness
    Pids, Programs                                          \* ProcessModel

ASSUME SizeAssumption == Sizes \subseteq Int
ASSUME ViewAssumption == NoView \notin Views
ASSUME FileAssumption == IsFiniteSet(Files)
ASSUME ContentAssumption == Contents \subseteq Seq(Int)

VARIABLES api, object

W == INSTANCE Windows WITH window <- object, MaxCalls <- WindowCalls
V == INSTANCE ViewTree WITH tree <- object
C == INSTANCE WebContents WITH contents <- object, MaxCalls <- PageCalls
S == INSTANCE Sessions WITH sessions <- object
K == INSTANCE Shortcuts WITH registry <- object
M == INSTANCE Menus WITH menus <- object, Ids <- MenuIds, MaxEvents <- MenuEvents
N == INSTANCE Notifications WITH notice <- object, OptionSets <- NoticeOptions,
                                 MaxEvents <- NoticeEvents
U == INSTANCE Updates WITH updater <- object, MaxEvents <- UpdateEvents
P == INSTANCE Services WITH service <- object, Keys <- CrashKeys, MaxEvents <- ServiceEvents
R == INSTANCE Protocols WITH registry <- object
B == INSTANCE ContextBridge WITH bridge <- object, Keys <- ApiKeys, Values <- Exposable
A == INSTANCE AppPaths WITH store <- object
Z == INSTANCE Asar WITH asar <- object
D == INSTANCE Desktop WITH desktop <- object, Keys <- StorageKeys
H == INSTANCE Harness WITH bench <- object
Q == INSTANCE ProcessModel WITH model <- object
-----------------------------------------------------------------------------
Init ==
    \/ api = "window" /\ W!Init
    \/ api = "view" /\ V!Init
    \/ api = "webContents" /\ C!Init
    \/ api = "session" /\ S!Init
    \/ api = "globalShortcut" /\ K!Init
    \/ api = "menu" /\ M!Init
    \/ api = "notification" /\ N!Init
    \/ api = "autoUpdater" /\ U!Init
    \/ api = "service" /\ P!Init
    \/ api = "protocol" /\ R!Init
    \/ api = "contextBridge" /\ B!Init
    \/ api = "app" /\ A!Init
    \/ api = "asar" /\ Z!Init
    \/ api = "desktop" /\ D!Init
    \/ api = "harness" /\ H!Init
    \/ api = "processes" /\ Q!Init

Next ==
    \/ api = "window" /\ UNCHANGED api /\ W!Next
    \/ api = "view" /\ UNCHANGED api /\ V!Next
    \/ api = "webContents" /\ UNCHANGED api /\ C!Next
    \/ api = "session" /\ UNCHANGED api /\ S!Next
    \/ api = "globalShortcut" /\ UNCHANGED api /\ K!Next
    \/ api = "menu" /\ UNCHANGED api /\ M!Next
    \/ api = "notification" /\ UNCHANGED api /\ N!Next
    \/ api = "autoUpdater" /\ UNCHANGED api /\ U!Next
    \/ api = "service" /\ UNCHANGED api /\ P!Next
    \/ api = "protocol" /\ UNCHANGED api /\ R!Next
    \/ api = "contextBridge" /\ UNCHANGED api /\ B!Next
    \/ api = "app" /\ UNCHANGED api /\ A!Next
    \/ api = "asar" /\ UNCHANGED api /\ Z!Next
    \/ api = "desktop" /\ UNCHANGED api /\ D!Next
    \/ api = "harness" /\ UNCHANGED api /\ H!Next
    \/ api = "processes" /\ UNCHANGED api /\ Q!Next

Spec == Init /\ [][Next]_<<api, object>>
-----------------------------------------------------------------------------
\* Closing is final, the flags of a window and its handlers agree whatever
\* handlers do in between; a view is in the list of the parent it names.
\* Handlers that load again, or go back, leave the page that is shown in the
\* history, and loading is set only while a load is going on.
WindowsKept ==
    /\ [](api = "window" => W!BooksKept) /\ [][api = "window" => W!ClosedIsFinal]_object
    /\ [](api = "view" => V!ParentsAgree) /\ [][api = "view" => V!OneMoves]_object
    /\ [](api = "webContents" => C!ShowsHistory /\ C!LoadingIsSomebodys)

\* The events of cookies tell what is in the jar.
SessionsKept == api = "session" => S!ChangesTellTheJar

\* A trigger calls what is registered, or was when it looked, and never a missing
\* callback.
ShortcutsKept == api = "globalShortcut" => K!CallsWhatIsRegistered

\* The journals: clicks on menus are answered in order, a notification has the
\* events its options allow, an update that is installed was downloaded last, and
\* what is downloaded had been announced last by then, services start and stop in
\* turn, and only its owner decrypts a stored text.
JournalsKept ==
    /\ [][api = "menu" => M!ClicksAreAnswered]_object
    /\ [](api = "notification" => N!JournalIsPossible)
    /\ [](api = "autoUpdater" => U!InstallsTheLastDownloaded)
    /\ [](api = "service" => P!Alternates) /\ [][api = "service" => P!ReportsStay]_object
    /\ [](api = "desktop" => D!OnlyItsOwnerDecrypts)

\* The registries: privileges are consistent and stay once locked, what a world
\* was given stays, a path follows what it is made of until it is set itself.
RegistriesKept ==
    /\ [](api = "protocol" => R!ExtensionsAreStandard)
    /\ [][api = "protocol" => R!PrivilegesStay]_object
    /\ [][api = "contextBridge" => B!ExposuresStay]_object
    /\ [](api = "app" => A!PathsFollow /\ A!RegistrationsAgree)
    /\ [][api = "app" => A!LogsStay]_object

\* What was packed is read back, byte for byte and where it was put.
AsarKept == api = "asar" => Z!ReadsBack /\ Z!PicklesReadBack

\* What the tools conclude of Electron and Electron-Go follows from what the
\* processes did, in turn, and nothing holds a tool past its deadline but the
\* pipe of a benchmark without the probe. What the process check concludes from
\* looks at /proc, of which none is of one moment and any may fail, is true of
\* the processes it could read.
ToolsKept ==
    /\ [](api = "harness" => H!ClaimsAreFounded /\ H!MatchesAreTrue /\ H!TakesTurns /\ H!DeadlineHolds)
    /\ [](api = "processes" => Q!CleanMeansAlone /\ Q!LastLookCounts)
    /\ [][api = "processes" => Q!TypesRemain]_object
=============================================================================
