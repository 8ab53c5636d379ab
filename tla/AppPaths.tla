------------------------------ MODULE AppPaths ------------------------------
(* What an app knows of its place (internal/apppaths): paths by name with     *)
(* defaults that follow each other, recent documents, protocols that it is    *)
(* the default client of, login items and the badge. A path is a sequence of  *)
(* its directories; Relative is one that is not absolute, Missing one that    *)
(* is not on the disk, "" is none.                                            *)
EXTENDS Integers, Sequences

CONSTANTS Systems,       \* GOOS: "linux", "darwin", "windows", others
          ConfigHomes,   \* APPDATA or XDG_CONFIG_HOME: <<>> when unset
          Moved,         \* a directory that callers set paths to
          Arguments      \* argument lists of registrations

VARIABLE store
-----------------------------------------------------------------------------
Relative == <<"relative">>
Missing  == <<"/", "missing">>
Home == <<"/", "home">>
Temp == <<"/", "tmp">>
Exe  == <<"/", "bin", "app">>

Names == {"home", "appData", "userData", "sessionData", "temp", "exe", "module", "desktop",
          "documents", "downloads", "music", "pictures", "videos", "recent", "logs",
          "crashDumps", "assets"}

NewStore(os, config, unity) ==
    [os |-> os, config |-> config, unity |-> unity, overrides |-> [n \in {} |-> <<>>],
     recents |-> <<>>, protocols |-> {}, loginItems |-> {},
     badge |-> [count |-> 0, visible |-> FALSE, unknown |-> FALSE], ret |-> "ok"]

Put(f, key, value) == [k \in DOMAIN f \cup {key} |-> IF k = key THEN value ELSE f[k]]
Refuse(s, error)   == [s EXCEPT !.ret = error]

Override(s, name, default) == IF name \in DOMAIN s.overrides THEN s.overrides[name] ELSE default

DefaultAppData(s) ==
    CASE s.os \in {"windows", "linux"} /\ s.config # <<>> -> s.config
      [] s.os = "windows" -> Home \o <<"AppData", "Roaming">>
      [] s.os = "darwin"  -> Home \o <<"Library", "Application Support">>
      [] OTHER            -> Append(Home, ".config")

\* Each of these follows the one before it until it is set.
AppData(s)  == Override(s, "appData", DefaultAppData(s))
UserData(s) == Override(s, "userData", Append(AppData(s), "App"))

DefaultLogsPath(s) == IF s.os = "darwin" THEN Home \o <<"Library", "Logs", "App">>
                      ELSE Append(UserData(s), "logs")

Folders == [desktop |-> "Desktop", documents |-> "Documents", downloads |-> "Downloads",
            music |-> "Music", pictures |-> "Pictures", videos |-> "Videos"]

\* <<>> for a name that is unknown here. recent starts from the default of
\* appData, whatever appData was set to.
DefaultPath(s, name) ==
    CASE name = "home"               -> Home
      [] name = "appData"            -> DefaultAppData(s)
      [] name = "userData"           -> Append(AppData(s), "App")
      [] name = "sessionData"        -> UserData(s)
      [] name = "temp"               -> Temp
      [] name \in {"exe", "module"}  -> Exe
      [] name \in DOMAIN Folders     -> Append(Home, Folders[name])
      [] name = "recent" /\ s.os = "windows" ->
             DefaultAppData(s) \o <<"Microsoft", "Windows", "Recent">>
      [] name = "logs"               -> DefaultLogsPath(s)
      [] name = "crashDumps"         -> Append(UserData(s), "Crashpad")
      [] name = "assets" /\ s.os # "darwin" -> SubSeq(Exe, 1, Len(Exe) - 1)
      [] OTHER                       -> <<>>

PathOf(s, name) == Override(s, name, DefaultPath(s, name))

\* makes: whether the directory could be made.
SetAppLogsPath(s, path, makes) ==
    IF ~makes THEN Refuse(s, "error")
    ELSE [s EXCEPT !.ret = "ok", !.overrides =
             Put(@, "logs", IF path = <<>> THEN DefaultLogsPath(s) ELSE path)]

\* Asking for a logs path that was not set makes the directory and sets it.
GetPath(s, name, makes) ==
    IF name = "logs" /\ name \notin DOMAIN s.overrides THEN SetAppLogsPath(s, <<>>, makes)
    ELSE Refuse(s, IF PathOf(s, name) = <<>> THEN "ErrUnknownPathName" ELSE "ok")

SetPath(s, name, path) ==
    IF name \notin Names THEN Refuse(s, "ErrUnknownPathName")
    ELSE IF path = <<>> THEN Refuse(s, "ErrPathRequired")
    ELSE IF path = Relative THEN Refuse(s, "ErrPathNotAbsolute")
    ELSE IF path = Missing \/ (path = Exe /\ name \notin {"exe", "module"})
    THEN Refuse(s, "ErrPathMissing")
    ELSE [s EXCEPT !.overrides = Put(@, name, path), !.ret = "ok"]
-----------------------------------------------------------------------------
SupportsRecentDocuments(s) == s.os \in {"darwin", "windows"}

Without(list, path) ==
    LET kept[n \in 0..Len(list)] ==
            IF n = 0 THEN <<>>
            ELSE IF list[n] = path THEN kept[n-1] ELSE Append(kept[n-1], list[n])
    IN kept[Len(list)]

\* The latest comes first, and a document is in the list once.
AddRecentDocument(s, path) ==
    IF ~SupportsRecentDocuments(s) THEN Refuse(s, "ErrUnsupported")
    ELSE IF path = <<>> THEN Refuse(s, "ErrPathRequired")
    ELSE IF path = Relative THEN Refuse(s, "ErrPathNotAbsolute")
    ELSE [s EXCEPT !.recents = <<path>> \o Without(@, path), !.ret = "ok"]

ClearRecentDocuments(s) == IF ~SupportsRecentDocuments(s) THEN Refuse(s, "ErrUnsupported")
                           ELSE [s EXCEPT !.recents = <<>>, !.ret = "ok"]

\* Default clients: <<protocol, path, args>>; the executable when no path is
\* given. On darwin the bundle has to declare the protocol.
Registration(protocol, path, args) == <<protocol, IF path = <<>> THEN Exe ELSE path, args>>

RegistrationError(protocol, path) ==
    IF protocol = "" THEN "ErrProtocolRequired" ELSE IF protocol = "a://" THEN "ErrInvalidProtocol"
    ELSE IF path = Relative THEN "ErrPathNotAbsolute" ELSE "ok"

SetAsDefaultProtocolClient(s, protocol, path, args, declared) ==
    LET error == RegistrationError(protocol, path) IN
    IF error # "ok" THEN Refuse(s, error)
    ELSE IF s.os = "darwin" /\ ~declared THEN Refuse(s, "ErrProtocolUnavailable")
    ELSE [s EXCEPT !.protocols = {r \in @ : r[1] # protocol}
                                     \cup {Registration(protocol, path, args)},
                   !.ret = "TRUE"]

IsDefaultProtocolClient(s, protocol, path, args) ==
    Registration(protocol, path, args) \in s.protocols

\* Removes the registration asked for and no other client's.
RemoveAsDefaultProtocolClient(s, protocol, path, args) ==
    LET error == RegistrationError(protocol, path) IN
    IF error # "ok" THEN Refuse(s, error)
    ELSE IF ~IsDefaultProtocolClient(s, protocol, path, args) THEN Refuse(s, "FALSE")
    ELSE [s EXCEPT !.protocols = {r \in @ : r[1] # protocol}, !.ret = "TRUE"]
-----------------------------------------------------------------------------
\* Names, paths and arguments are sequences of what stands between the colons
\* and separators; a service that is not named is <<>>.
LoginItem(type, service, path, args) ==
    [type |-> IF type = "" THEN "mainAppService" ELSE type, service |-> service,
     path |-> IF path = <<>> THEN Exe ELSE path, args |-> args]

LoginItemTypes == {"mainAppService", "agentService", "daemonService", "loginItemService"}

LoginItemError(item) ==
    IF item.type \notin LoginItemTypes THEN "ErrInvalidLoginItemType"
    ELSE IF item.type # "mainAppService" /\ item.service = <<>> THEN "ErrServiceNameRequired"
    ELSE IF item.path = Relative THEN "ErrPathNotAbsolute" ELSE "ok"

\* What an item is kept under: its parts with colons between them, which does
\* not tell a colon in a path from the one before the arguments.
Joined(args) == [i \in 1..2*Len(args) - 1 |-> IF i % 2 = 1 THEN args[(i + 1) \div 2] ELSE "nul"]
LoginItemKey(item) ==
    <<item.type, ":">> \o item.service \o <<":">> \o item.path
        \o IF item.args = <<>> THEN <<>> ELSE <<":">> \o Joined(item.args)

OfKey(s, item) == {i \in s.loginItems : LoginItemKey(i) = LoginItemKey(item)}

\* Two items of one key take each other's place.
SetLoginItemSettings(s, item, openAtLogin) ==
    IF LoginItemError(item) # "ok" THEN Refuse(s, LoginItemError(item))
    ELSE [s EXCEPT !.loginItems = (@ \ OfKey(s, item)) \cup (IF openAtLogin THEN {item} ELSE {}),
                   !.ret = "ok"]

\* The status of an item; whether the executable starts at login depends on
\* every item of its path.
GetLoginItemSettings(s, item) ==
    LET launched == {i \in s.loginItems : i.path = item.path} IN
    [openAtLogin |-> OfKey(s, item) # {}, launchItems |-> launched,
     executableWillLaunchAtLogin |-> OfKey(s, item) # {} \/ launched # {}]

\* The badge: on darwin a badge without a count is shown, elsewhere cleared.
SupportsBadgeCount(s) == s.os = "darwin" \/ (s.os = "linux" /\ s.unity)

SetBadgeCount(s, count) ==
    IF ~SupportsBadgeCount(s) THEN Refuse(s, "FALSE")
    ELSE IF count # <<>> /\ count[1] < 0 THEN Refuse(s, "ErrInvalidBadgeCount")
    ELSE [s EXCEPT !.ret = "TRUE", !.badge =
             IF count = <<>> THEN [count |-> 0, visible |-> s.os = "darwin",
                                   unknown |-> s.os = "darwin"]
             ELSE [count |-> count[1], visible |-> count[1] > 0, unknown |-> FALSE]]
-----------------------------------------------------------------------------
\* darwin asks for no config home, and only linux for Unity.
Init == \E os \in Systems, c \in ConfigHomes, unity \in BOOLEAN :
            /\ os = "darwin" => c = <<>>
            /\ unity => os = "linux"
            /\ store = NewStore(os, c, unity)

Asked == {<<>>, Relative, Missing, Exe, Moved}
Items == {LoginItem(t, s, p, <<>>) : t \in {"", "agentService", "other"}, s \in {<<>>, <<"s">>},
                                     p \in {<<>>, Relative}}
\* Two paths and arguments that make one key.
SameKeys == {LoginItem("", <<>>, Exe, <<"--x">>), LoginItem("", <<>>, Exe \o <<":", "--x">>, <<>>)}

\* One behaviour uses the paths, another the registrations: they share nothing
\* but the system they run on.
Paths ==
    \/ \E n \in Names \cup {"other"}, makes \in BOOLEAN : store' = GetPath(store, n, makes)
    \/ \E n \in {"appData", "userData", "sessionData", "crashDumps", "logs", "exe", "other"},
          p \in Asked : store' = SetPath(store, n, p)
    \/ \E p \in {<<>>, Moved}, makes \in BOOLEAN : store' = SetAppLogsPath(store, p, makes)

Registrations ==
    \/ \E p \in {<<>>, Relative, Exe, Moved} : store' = AddRecentDocument(store, p)
    \/ store' = ClearRecentDocuments(store)
    \/ \E pr \in {"", "a://", "app"}, p \in {<<>>, Relative, Moved}, a \in Arguments, declared \in BOOLEAN :
           store' = SetAsDefaultProtocolClient(store, pr, p, a, declared)
    \/ \E pr \in {"", "app"}, p \in {<<>>, Relative, Moved}, a \in Arguments :
           store' = RemoveAsDefaultProtocolClient(store, pr, p, a)
    \/ \E i \in Items \cup SameKeys, on \in BOOLEAN : store' = SetLoginItemSettings(store, i, on)
    \/ \E c \in {<<>>, <<-1>>, <<0>>, <<1>>} : store' = SetBadgeCount(store, c)

Next == \/ store.recents = <<>> /\ store.protocols = {} /\ store.loginItems = {} /\ Paths
        \/ store.overrides = [n \in {} |-> <<>>] /\ Registrations

Spec == Init /\ [][Next]_store
-----------------------------------------------------------------------------
\* userData goes with appData, and sessionData and crashDumps with userData,
\* each until it is set itself, in whatever order they are set.
PathsFollow ==
    /\ "userData" \notin DOMAIN store.overrides =>
           PathOf(store, "userData") = Append(PathOf(store, "appData"), "App")
    /\ "sessionData" \notin DOMAIN store.overrides =>
           PathOf(store, "sessionData") = PathOf(store, "userData")
    /\ "crashDumps" \notin DOMAIN store.overrides =>
           PathOf(store, "crashDumps") = Append(PathOf(store, "userData"), "Crashpad")

\* The logs path, once it was asked for or set, stays where it was when the
\* others move.
LogsStay ==
    "logs" \in DOMAIN store.overrides =>
        \/ PathOf(store', "logs") = PathOf(store, "logs")
        \/ PathOf(store', "logs") \in {Moved, DefaultLogsPath(store)}
             /\ store'.overrides = Put(store.overrides, "logs", PathOf(store', "logs"))

\* Each protocol has one client, a document is recent once, a key one login
\* item, and an item that is started at login is found and among those that
\* start its executable.
RegistrationsAgree ==
    /\ \A r, q \in store.protocols : r[1] = q[1] => r = q
    /\ \A i, j \in DOMAIN store.recents : store.recents[i] = store.recents[j] => i = j
    /\ \A i, j \in store.loginItems : LoginItemKey(i) = LoginItemKey(j) => i = j
    /\ \A i \in store.loginItems :
          LET status == GetLoginItemSettings(store, i) IN
          status.openAtLogin /\ i \in status.launchItems /\ status.executableWillLaunchAtLogin
    /\ store.badge.visible = (store.badge.count > 0 \/ store.badge.unknown)
=============================================================================
