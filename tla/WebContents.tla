---------------------------- MODULE WebContents ----------------------------
(* One webContents (internal/webcontents/webcontents.go): navigation, its     *)
(* history and the order of its events. Each emit runs the handlers, and they *)
(* may navigate again before the call that emitted goes on, so a call is a    *)
(* frame on a stack that stands at the event whose handlers run.              *)
EXTENDS Integers, Sequences

CONSTANTS Urls,          \* what callers load
          Unparsable,    \* the one of them that has no scheme
          MaxCalls,      \* bound: calls in progress at once
          MaxHistory     \* bound: entries of the history

VARIABLE contents
-----------------------------------------------------------------------------
None == "none"          \* the URL before the first navigation

New == [history |-> <<>>, index |-> 0, current |-> None, loading |-> FALSE,
        calls |-> <<>>, targetID |-> FALSE, lastPrint |-> <<>>, ret |-> "ok"]

\* Keeps the entries after the current one.
FaultyCommit(wc, url) ==
    [wc EXCEPT !.history = Append(@, url), !.index = @ + 1, !.current = url]

\* index counts from 1, 0 before the first entry. The entries after the current
\* one are dropped.
Commit(wc, url) ==
    LET kept == SubSeq(wc.history, 1, wc.index) IN
    [wc EXCEPT !.history = Append(kept, url), !.index = Len(kept) + 1, !.current = url]

CanGoBack(wc)    == wc.index > 1
CanGoForward(wc) == wc.index >= 1 /\ wc.index < Len(wc.history)

\* The events of each call in the order in which it emits them.
Stages ==
    [LoadURL |-> <<"did-start-navigation", "will-frame-navigate", "will-navigate",
                   "did-start-loading", "did-frame-navigate", "did-navigate",
                   "did-stop-loading", "did-finish-load">>,
     NavigateInPage |-> <<"did-start-navigation", "did-navigate-in-page">>,
     FailLoad |-> <<"did-start-loading", "did-stop-loading", "did-fail-load">>,
     GoTo |-> <<"did-navigate">>]

Cancellable == {"will-frame-navigate", "will-navigate"}

\* What a call writes before it emits the event, from the code between emits.
BeforeEmit(wc, event, url) ==
    CASE event = "did-start-loading"    -> [wc EXCEPT !.loading = TRUE]
      [] event = "did-stop-loading"     -> [wc EXCEPT !.loading = FALSE]
      [] event = "did-frame-navigate"   -> Commit(wc, url)
      [] event = "did-navigate-in-page" -> Commit(wc, url)
      [] OTHER                          -> wc

Emit(wc, call, url, at) ==
    LET event == Stages[call][at] IN
    [BeforeEmit(wc, event, url) EXCEPT
        !.calls = Append(@, [call |-> call, url |-> url, at |-> at, cancelled |-> FALSE])]

Begin(wc, call, url) ==
    IF url = Unparsable THEN [wc EXCEPT !.ret = "ErrInvalidURL"] ELSE Emit(wc, call, url, 1)

\* GoBack (by -1) and GoForward (by 1).
GoTo(wc, by) ==
    IF ~(IF by < 0 THEN CanGoBack(wc) ELSE CanGoForward(wc))
    THEN [wc EXCEPT !.ret = "ErrHistoryUnavailable"]
    ELSE LET url == wc.history[wc.index + by] IN
         Emit([wc EXCEPT !.index = @ + by, !.current = url], "GoTo", url, 1)

Innermost(wc)      == wc.calls[Len(wc.calls)]
PreventDefault(wc) == [wc EXCEPT !.calls[Len(wc.calls)].cancelled = TRUE]

\* The handlers of the event the innermost call stands at have returned; only
\* the events of Cancellable are asked whether they were prevented.
HandlersReturn(wc) ==
    LET top    == Innermost(wc)
        popped == [wc EXCEPT !.calls = SubSeq(@, 1, Len(@) - 1)]
    IN IF top.cancelled /\ Stages[top.call][top.at] \in Cancellable
       THEN [popped EXCEPT !.ret = "ErrNavigationCancelled"]
       ELSE IF top.at = Len(Stages[top.call]) THEN [popped EXCEPT !.ret = "ok"]
       ELSE Emit(popped, top.call, top.url, top.at + 1)

\* The DevTools target is made on the first request and is the same ever after.
GetOrCreateDevToolsTargetID(wc) == [wc EXCEPT !.targetID = TRUE]

\* A job has at least one copy and one size of page; a refused one is not kept.
PrintPage(wc, copies, pageSize, printerDefault) ==
    IF copies < 0 \/ (printerDefault /\ pageSize # <<>>)
       \/ (pageSize # <<>> /\ pageSize[1] <= 0)
    THEN [wc EXCEPT !.ret = "ErrInvalidPrintOptions"]
    ELSE [wc EXCEPT !.lastPrint = <<[copies |-> IF copies = 0 THEN 1 ELSE copies,
                                     pageSize |-> pageSize]>>, !.ret = "ok"]
-----------------------------------------------------------------------------
Init == contents = New

MayCall   == Len(contents.calls) < MaxCalls
MayCommit == Len(contents.history) + Len(contents.calls) < MaxHistory

Next ==
    \/ \E url \in Urls : MayCall /\ MayCommit /\ contents' = Begin(contents, "LoadURL", url)
    \/ \E url \in Urls : MayCall /\ MayCommit /\ contents' = Begin(contents, "NavigateInPage", url)
    \/ \E url \in Urls : MayCall /\ contents' = Begin(contents, "FailLoad", url)
    \/ \E by \in {-1, 1} : MayCall /\ contents' = GoTo(contents, by)
    \/ contents.calls # <<>> /\ contents' = PreventDefault(contents)
    \/ contents.calls # <<>> /\ contents' = HandlersReturn(contents)
    \/ contents' = GetOrCreateDevToolsTargetID(contents)
    \/ \E copies \in -1..1, size \in {<<>>, <<0>>, <<1>>}, default \in BOOLEAN :
           contents.calls = <<>> /\ contents' = PrintPage(contents, copies, size, default)

Spec == Init /\ [][Next]_contents
-----------------------------------------------------------------------------
\* However handlers navigate within navigations, the page shown is the one the
\* history is at.
ShowsHistory ==
    IF contents.history = <<>> THEN contents.index = 0 /\ contents.current = None
    ELSE /\ contents.index \in DOMAIN contents.history
         /\ contents.current = contents.history[contents.index]

\* A webContents says that it is loading only while some call is between its
\* did-start-loading and its did-stop-loading: never after the last returned.
LoadingIsSomebodys ==
    contents.loading => \E i \in DOMAIN contents.calls :
        /\ contents.calls[i].call # "GoTo"
        /\ Stages[contents.calls[i].call][contents.calls[i].at] \in
               {"did-start-loading", "did-frame-navigate", "did-navigate"}
=============================================================================
