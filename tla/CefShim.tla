-------------------------------- MODULE CefShim --------------------------------
(***************************************************************************)
(* The native browser layer: the static globals of native/cef_shim.c, the  *)
(* Go mirrors of them in internal/native/cef_linux.go, and the operations  *)
(* CEFBridge offers.  Everything runs on the one OS thread that owns CEF:  *)
(* an operation of the bridge outside the message loop, a callback of CEF  *)
(* inside it.                                                              *)
(*                                                                         *)
(* CEF itself is external: a browser finishes its navigations in order,    *)
(* each with an end, an error or an abort, is idle around the last of      *)
(* them, and goes away when told to or when the user closes its window.    *)
(* One browser is created in the life of a process.                        *)
(*                                                                         *)
(* g_quit_loop_on_load is left out: the shim never sets it.                *)
(***************************************************************************)
EXTENDS Integers, Sequences

VARIABLES
  g,        \* the globals of the shim
  mirror,   \* cefLastBrowserID and cefBrowserClosed
  loop,     \* the message loop: running, told to quit, the saved auto-close
  browser,  \* the CEF browser: none, alive or gone
  navs,     \* the pages its main frame has yet to finish, oldest first
  idleDue,  \* whether the loading state is still to become "not loading"
  scripts,  \* the pages the load-end script is running on
  seen      \* history: what completed the load; failures, aborts, closes

cef == <<browser, navs, idleDue, scripts>>
shimVars == <<g, mirror, loop, cef, seen>>

NoBrowser == 0
TheBrowser == 1

ShimInit ==
  /\ g = [initialized |-> FALSE, browser |-> FALSE, browserID |-> NoBrowser,
          loadComplete |-> FALSE, loadFailed |-> FALSE,
          closeRequested |-> FALSE, browserClosed |-> FALSE,
          autoClose |-> TRUE, script |-> FALSE]
  /\ mirror = [lastID |-> NoBrowser, closed |-> FALSE]
  /\ loop = [running |-> FALSE, quit |-> FALSE, autoClose |-> TRUE]
  /\ browser = "none"
  /\ navs = <<>>
  /\ idleDue = FALSE
  /\ scripts = {}
  /\ seen = [completed |-> "no", failed |-> FALSE, aborted |-> FALSE,
             closes |-> 0]

-----------------------------------------------------------------------------
(* Operations of the bridge, after the check of the context each begins with. *)

\* eg_cef_reset_browser_state.
ResetBrowser ==
  [g EXCEPT !.browser = FALSE, !.browserID = NoBrowser, !.loadComplete = FALSE,
            !.loadFailed = FALSE, !.closeRequested = FALSE,
            !.browserClosed = FALSE, !.autoClose = TRUE, !.script = FALSE]

\* The Go mirrors and the globals are reset, then CEF creates the browser and
\* calls eg_cef_on_after_created, or fails.
CreateBrowser(page, autoClose) ==
  /\ g' = [ResetBrowser EXCEPT !.autoClose = autoClose, !.browser = TRUE,
                               !.browserID = TheBrowser]
  /\ mirror' = [lastID |-> TheBrowser, closed |-> FALSE]
  /\ browser' = "alive"
  /\ navs' = <<page>>
  /\ idleDue' = TRUE
  /\ UNCHANGED <<loop, scripts, seen>>

CreateFails(autoClose) ==
  /\ g' = [ResetBrowser EXCEPT !.autoClose = autoClose]
  /\ mirror' = [lastID |-> NoBrowser, closed |-> FALSE]
  /\ UNCHANGED <<loop, cef, seen>>

\* What load_url, close_browser and set_load_end_script check first.  (Their
\* request names the one browser there is.)
Refused == ~g.initialized \/ ~g.browser

SetScript ==
  /\ g' = [g EXCEPT !.script = TRUE]
  /\ UNCHANGED <<mirror, loop, cef, seen>>

LoadPage ==
  /\ g' = [g EXCEPT !.loadComplete = FALSE, !.loadFailed = FALSE,
                    !.closeRequested = FALSE]
  /\ navs' = Append(navs, "page")
  /\ idleDue' = TRUE
  /\ UNCHANGED <<mirror, loop, browser, scripts, seen>>

FaultyHostAsked(h) == 1

\* eg_cef_request_close_browser, with the globals h: the flag it sets, and how
\* often it tells the host to close.
CloseRequested(h) == [h EXCEPT !.closeRequested = TRUE]

HostAsked(h) == IF h.closeRequested THEN 0 ELSE 1

CloseBrowser ==
  /\ g' = CloseRequested(g)
  /\ seen' = [seen EXCEPT !.closes = @ + HostAsked(g)]

FaultyAutoCloseIn(untilLoad) == g.autoClose

\* eg_cef_shim_run_message_loop_until_load forces auto-close for its loop and
\* restores it; eg_cef_shim_run_message_loop leaves it as it is.
AutoCloseIn(untilLoad) == untilLoad \/ g.autoClose

EnterLoop(untilLoad) ==
  /\ loop' = [running |-> TRUE, quit |-> FALSE, autoClose |-> g.autoClose]
  /\ g' = [g EXCEPT !.autoClose = AutoCloseIn(untilLoad)]
  /\ UNCHANGED <<mirror, cef, seen>>

FaultyLoopSucceeded == g.loadComplete \/ g.browserClosed \/ g.loadFailed

\* The status of a loop that has returned: STOPPED, or else FAILED.
LoopSucceeded == ~g.loadFailed /\ g.loadComplete /\ g.browserClosed

ReturnFromLoop ==
  /\ loop.running /\ loop.quit
  /\ loop' = [loop EXCEPT !.running = FALSE]
  /\ g' = [g EXCEPT !.autoClose = loop.autoClose]
  /\ UNCHANGED <<mirror, cef, seen>>

ShutdownCEF ==
  /\ g' = [g EXCEPT !.script = FALSE, !.browser = FALSE, !.initialized = FALSE]
  /\ UNCHANGED <<mirror, loop, cef, seen>>

-----------------------------------------------------------------------------
(* Callbacks of CEF, inside the message loop. *)

InCallback == loop.running /\ browser = "alive"

\* The load is complete: the flag, goOnBrowserLoadEnd, the automatic close.
Complete(h, how) ==
  LET done == [h EXCEPT !.loadComplete = TRUE, !.browserID = TheBrowser]
  IN  /\ mirror' = [mirror EXCEPT !.lastID = TheBrowser]
      /\ g' = IF h.autoClose THEN CloseRequested(done) ELSE done
      /\ seen' = [seen EXCEPT !.completed = how,
                    !.closes = @ + IF h.autoClose THEN HostAsked(h) ELSE 0]

\* eg_cef_on_load_end for the main frame.  With a load-end script set it only
\* starts the script, on whatever page has ended.
OnLoadEnd ==
  /\ InCallback /\ navs # <<>>
  /\ navs' = Tail(navs)
  /\ IF g.loadComplete \/ g.closeRequested
       THEN UNCHANGED <<g, mirror, scripts, seen>>
     ELSE IF g.script
       THEN /\ scripts' = {Head(navs)}
            /\ g' = [g EXCEPT !.browserID = TheBrowser]
            /\ UNCHANGED <<mirror, seen>>
     ELSE Complete(g, "end") /\ UNCHANGED scripts
  /\ UNCHANGED <<loop, browser, idleDue>>

\* eg_cef_on_load_error: a page whose load was aborted is passed over.
OnLoadAborted ==
  /\ InCallback /\ navs # <<>>
  /\ navs' = Tail(navs)
  /\ seen' = [seen EXCEPT !.aborted = TRUE]
  /\ UNCHANGED <<g, mirror, loop, browser, idleDue, scripts>>

\* eg_cef_on_load_error otherwise: the loop is told to quit at once, whether
\* or not the browser it closes is gone by then.  An error page then ends.
OnLoadError ==
  /\ InCallback /\ navs # <<>>
  /\ g' = CloseRequested([g EXCEPT !.loadFailed = TRUE,
                                   !.browserID = TheBrowser])
  /\ seen' = [seen EXCEPT !.failed = TRUE, !.closes = @ + HostAsked(g)]
  /\ mirror' = [mirror EXCEPT !.lastID = TheBrowser]
  /\ loop' = [loop EXCEPT !.quit = TRUE]
  /\ UNCHANGED cef

FaultyIdleIgnored == g.loadFailed \/ g.loadComplete \/ g.closeRequested

IdleIgnored ==
  g.loadFailed \/ g.loadComplete \/ g.closeRequested \/ g.script

\* eg_cef_on_loading_state_change with isLoading = 0, before or after the end
\* of the last page.
OnLoadingStateChange ==
  /\ InCallback /\ idleDue /\ Len(navs) <= 1
  /\ idleDue' = FALSE
  /\ IF IdleIgnored THEN UNCHANGED <<g, mirror, seen>> ELSE Complete(g, "idle")
  /\ UNCHANGED <<loop, browser, navs, scripts>>

\* eg_cef_on_console_message with the result of the load-end script.
OnConsoleMessage(page) ==
  /\ InCallback /\ page \in scripts
  /\ scripts' = scripts \ {page}
  /\ IF g.script THEN Complete([g EXCEPT !.script = FALSE], "result")
                 ELSE UNCHANGED <<g, mirror, seen>>
  /\ UNCHANGED <<loop, browser, navs, idleDue>>

FaultyMirrorClosed == mirror' = [mirror EXCEPT !.lastID = TheBrowser]

\* goOnBrowserBeforeClose.
MirrorClosed == mirror' = [lastID |-> TheBrowser, closed |-> TRUE]

\* cef_quit_message_loop: the loop returns some time after.
QuitLoop == loop' = [loop EXCEPT !.quit = TRUE]

\* eg_cef_on_before_close.
OnBeforeClose ==
  /\ InCallback
  /\ g' = [g EXCEPT !.browserID = TheBrowser, !.browserClosed = TRUE,
                    !.browser = FALSE]
  /\ MirrorClosed
  /\ QuitLoop
  /\ browser' = "gone"
  /\ navs' = <<>>
  /\ idleDue' = FALSE
  /\ scripts' = {}
  /\ UNCHANGED seen
===============================================================================
