SPECIFICATION Spec
CONSTANTS
    Sizes = {0, 5, 9}
    Origins = {1}
    WindowCalls = 2
    Views = {"a", "b", "c"}
    Widths <- MCWidths
    NoView = "nil"
    Urls = {"u", "v", "none:"}
    Unparsable = "none:"
    PageCalls = 2
    MaxHistory = 3
    Partitions = {"", "persist:a", "bad"}
    Default = ""
    Malformed = "bad"
    Persistent = {"persist:a"}
    Hosts = {"h", "g"}
    NoHost = ""
    MaxSessions = 1
    Cookies <- MCCookies
    Accelerators <- MCAccelerators
    Callbacks = {"f", "g"}
    Goroutines = {"g", "h"}
    Templates <- MCTemplates
    MenuIds = {"", "a", "b", "z"}
    MenuEvents = 3
    NoticeOptions <- MCNoticeOptions
    NoticeEvents = 4
    Versions = {"", "1", "2", "3"}
    Current = "1"
    UpdateEvents = 6
    CrashKeys = {"k", "l"}
    ServiceEvents = 5
    Schemes = {"app", "img", "BAD"}
    BadScheme = "BAD"
    Worlds <- MCWorlds
    ApiKeys = {"", "a.b", "k", "l"}
    Exposable <- BridgeValues
    Systems = {"linux", "darwin", "windows"}
    ConfigHomes <- MCConfigHomes
    Moved <- MCMoved
    Arguments <- MCArguments
    Files <- MCFiles
    Contents <- MCContents
    MaxWrites = 2
    MaxHeader = 16
    Texts = {"", "t"}
    StorageKeys = {"", "k"}
    MaxJournal = 1
    Iterations = 2
    Fixtures = 1
    Durations = {0, 1, 2}
    Pids = {1, 2}
    Programs = {"renderer"}
INVARIANTS
    SessionsKept
    ShortcutsKept
    AsarKept
PROPERTIES
    WindowsKept
    JournalsKept
    RegistriesKept
    ToolsKept
\* Journals are bounded: a module may stop at the end of its own.
CHECK_DEADLOCK FALSE
