------------------------------ MODULE Updates -------------------------------
(* The updater (internal/autoupdater). A version that was found, and one that *)
(* was downloaded, are kept through later checks that find nothing and        *)
(* through a change of the feed.                                              *)
EXTENDS Integers, Sequences

CONSTANTS Versions,      \* what a feed may offer; "" is none
          Current,       \* the version that runs
          MaxEvents      \* bound: length of the journal

VARIABLE updater
-----------------------------------------------------------------------------
New == [feed |-> "", available |-> "", downloaded |-> "", events |-> <<>>, ret |-> "ok"]

\* A feed has a URL with scheme and host, one of the providers, squirrel when
\* none is named, and headers without line breaks; they are looked at in turn.
SetFeedURL(u, url, provider, headers) ==
    IF url = "bad" THEN [u EXCEPT !.ret = "ErrInvalidFeed"]
    ELSE IF provider \notin {"", "squirrel", "nsis", "msix"}
    THEN [u EXCEPT !.ret = "ErrInvalidProvider"]
    ELSE IF headers = "bad" THEN [u EXCEPT !.ret = "ErrInvalidFeed"]
    ELSE [u EXCEPT !.feed = IF provider = "" THEN "squirrel" ELSE provider, !.ret = "ok"]

SupportsProvider(provider, os) ==
    \/ provider = "squirrel" /\ os \in {"darwin", "win32", "windows"}
    \/ provider \in {"nsis", "msix"} /\ os \in {"win32", "windows"}

Journal(u, event, version) == [u EXCEPT !.events = Append(@, <<event, version>>)]
Fails(u, error)            == [Journal(u, "error", "") EXCEPT !.ret = error]

\* remote is what the feed offers.
CheckForUpdates(u, remote) ==
    IF u.feed = "" THEN Fails(u, "ErrInvalidFeed")
    ELSE LET checking == Journal(u, "checking-for-update", "") IN
         IF remote \in {"", Current}
         THEN [Journal(checking, "update-not-available", "") EXCEPT !.ret = "FALSE"]
         ELSE [Journal(checking, "update-available", remote) EXCEPT
                  !.available = remote, !.ret = "TRUE"]

DownloadUpdate(u) ==
    IF u.available = "" THEN Fails(u, "ErrNotDownloaded")
    ELSE [Journal(u, "update-downloaded", u.available) EXCEPT
             !.downloaded = u.available, !.ret = "ok"]

QuitAndInstall(u) ==
    IF u.downloaded = "" THEN Fails(u, "ErrNotDownloaded")
    ELSE [Journal(u, "before-quit-for-update", u.downloaded) EXCEPT !.ret = "ok"]
-----------------------------------------------------------------------------
Init == updater = New

Room == Len(updater.events) < MaxEvents

Next ==
    \/ \E url \in {"ok", "bad"}, p \in {"", "nsis", "zip"}, headers \in {"ok", "bad"} :
           updater' = SetFeedURL(updater, url, p, headers)
    \/ \E v \in Versions : Room /\ updater' = CheckForUpdates(updater, v)
    \/ Room /\ updater' = DownloadUpdate(updater)
    \/ Room /\ updater' = QuitAndInstall(updater)

Spec == Init /\ [][Next]_updater
-----------------------------------------------------------------------------
\* What is installed is what was downloaded last, and what was downloaded is what
\* had been announced last by then, whatever was checked, fed or installed in
\* between; the version that runs is neither. A version announced after the last
\* download is not installed: the older one is, and nobody is told.
LastOf(event, n) ==
    LET at == {i \in 1..n : updater.events[i][1] = event} IN
    IF at = {} THEN "" ELSE updater.events[CHOOSE i \in at : \A j \in at : j <= i][2]

InstallsTheLastDownloaded ==
    \A i \in DOMAIN updater.events :
        LET event == updater.events[i][1] version == updater.events[i][2] IN
        /\ event = "update-downloaded" => version = LastOf("update-available", i)
        /\ event = "before-quit-for-update" => version = LastOf("update-downloaded", i)
        /\ version # "" => version # Current
=============================================================================
