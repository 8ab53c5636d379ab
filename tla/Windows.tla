------------------------------ MODULE Windows ------------------------------
(* A BrowserWindow (internal/browserwindow): normalised constructor options, *)
(* and the window made from them. Methods are operators from the window to   *)
(* the window after the call; field ret is what the call returned. A handler *)
(* runs inside emit and may call the window again, so Close, the one method  *)
(* that writes after an emit, takes several steps and keeps a stack of the   *)
(* calls in progress. events is abstracted to last, what the last event of   *)
(* each pair (show and hide, ...) says, and the number of closed events.     *)
EXTENDS Integers, Sequences

CONSTANTS Sizes,       \* widths and heights that callers ask for
          Origins,     \* x coordinates that callers ask for
          MaxCalls     \* bound: calls of Close in progress at once

VARIABLE window
-----------------------------------------------------------------------------
\* An optional value is a sequence of at most one.
Nil == <<>>
Or(value, default) == IF value = Nil THEN default ELSE value[1]

NoPreferences == [devTools |-> Nil, nodeIntegration |-> FALSE, contextIsolation |-> Nil,
                  preload |-> "none", focusOnNavigation |-> Nil,
                  offscreen |-> FALSE, deviceScaleFactor |-> Nil]

NoOptions == [width |-> Nil, height |-> Nil, x |-> Nil, y |-> Nil, show |-> Nil,
              parentID |-> 0, modal |-> FALSE, title |-> "", prefs |-> NoPreferences]

\* Infinite and not-a-number scale factors are left out.
BadPreferences(prefs) ==
    \/ prefs.preload = "relative"
    \/ ~prefs.offscreen /\ prefs.deviceScaleFactor # Nil
    \/ prefs.offscreen /\ Or(prefs.deviceScaleFactor, 1) <= 0

Rejected(o) == \/ Or(o.width, 800) <= 0 \/ Or(o.height, 600) <= 0
               \/ (o.x = Nil) # (o.y = Nil)
               \/ o.modal /\ o.parentID <= 0
               \/ BadPreferences(o.prefs)

NormalPreferences(prefs) ==
    [prefs EXCEPT !.devTools = Or(@, TRUE), !.contextIsolation = Or(@, TRUE),
                  !.focusOnNavigation = Or(@, TRUE),
                  !.deviceScaleFactor = IF prefs.offscreen THEN Or(@, 1) ELSE 0]

NormalizeOptions(o) ==
    [o EXCEPT !.width = Or(@, 800), !.height = Or(@, 600), !.show = Or(@, TRUE),
              !.prefs = NormalPreferences(@)]

\* The window of normalised options.
NewWindow(o) ==
    LET bounds == [x |-> Or(o.x, 0), y |-> Or(o.y, 0), w |-> o.width, h |-> o.height]
        modes  == [visible |-> o.show, minimized |-> FALSE, maximized |-> FALSE,
                   fullscreen |-> FALSE]
    IN [bounds |-> bounds, normal |-> bounds, modes |-> modes, last |-> modes,
        enabled |-> TRUE, title |-> o.title, closed |-> FALSE, closedEvents |-> 0,
        calls |-> <<>>, ret |-> "ok"]

IsVisible(w) == w.modes.visible /\ ~w.closed
IsEnabled(w) == w.enabled /\ ~w.closed
Refuse(w, error) == [w EXCEPT !.ret = error]
-----------------------------------------------------------------------------
SetBounds(w, b) ==
    IF b.w <= 0 \/ b.h <= 0 THEN Refuse(w, "ErrInvalidBounds")
    ELSE IF w.closed THEN Refuse(w, "ErrWindowClosed")
    ELSE [w EXCEPT !.bounds = b, !.ret = "ok",
                   !.normal = IF w.modes.maximized \/ w.modes.fullscreen THEN @ ELSE b]

SetSize(w, width, height) == SetBounds(w, [w.bounds EXCEPT !.w = width, !.h = height])

\* Enters or leaves one mode; the event is emitted on a change only.
Mode(w, mode, on) ==
    IF w.closed THEN Refuse(w, "ErrWindowClosed")
    ELSE IF w.modes[mode] = on THEN [w EXCEPT !.ret = "ok"]
    ELSE [w EXCEPT !.modes[mode] = on, !.last[mode] = on, !.ret = "ok"]

Show(w)     == Mode(w, "visible", TRUE)
Hide(w)     == Mode(w, "visible", FALSE)
Minimize(w) == Mode(w, "minimized", TRUE)
Restore(w)  == Mode(w, "minimized", FALSE)
Maximize(w) == Mode(w, "maximized", TRUE)

\* Forgets to put the bounds back.
FaultyBackToNormal(w, mode) == Mode(w, mode, FALSE)

\* Leaving either of the two large modes puts the normal bounds back, although
\* the window may still be in the other.
BackToNormal(w, mode) ==
    IF w.modes[mode] /\ ~w.closed THEN [Mode(w, mode, FALSE) EXCEPT !.bounds = w.normal]
                                  ELSE Mode(w, mode, FALSE)

Unmaximize(w)        == BackToNormal(w, "maximized")
SetFullScreen(w, on) == IF on THEN Mode(w, "fullscreen", TRUE)
                              ELSE BackToNormal(w, "fullscreen")

SetEnabled(w, on) == IF w.closed THEN Refuse(w, "ErrWindowClosed")
                                 ELSE [w EXCEPT !.enabled = on, !.ret = "ok"]
-----------------------------------------------------------------------------
\* Close emits close and waits for its handlers, any of which may prevent it.
BeginClose(w) ==
    IF w.closed THEN Refuse(w, "FALSE") ELSE [w EXCEPT !.calls = Append(@, "close")]

Innermost(w)      == w.calls[Len(w.calls)]
PreventDefault(w) == [w EXCEPT !.calls[Len(w.calls)] = "prevented"]
Done(w, answer)   == [w EXCEPT !.calls = SubSeq(@, 1, Len(@) - 1), !.ret = answer]

\* The handlers that the innermost Close waits for have returned.
HandlersReturn(w) ==
    CASE Innermost(w) = "prevented" -> Done(w, "FALSE")
      [] Innermost(w) = "close"     ->
           [w EXCEPT !.closed = TRUE, !.modes.visible = FALSE,
                     !.closedEvents = @ + 1, !.calls[Len(w.calls)] = "closed"]
      [] OTHER                      -> Done(w, "TRUE")

\* The whole of Close when no handler calls the window.
Close(w, prevents) ==
    LET asked == BeginClose(w) IN
    IF w.closed      THEN asked
    ELSE IF prevents THEN HandlersReturn(PreventDefault(asked))
    ELSE HandlersReturn(HandlersReturn(asked))
-----------------------------------------------------------------------------
Init ==
    \E x \in {Nil} \cup {<<p>> : p \in Origins}, width \in {Nil} \cup {<<s>> : s \in Sizes},
       show \in BOOLEAN :
        LET o == [NoOptions EXCEPT !.x = x, !.y = x, !.width = width, !.show = <<show>>] IN
        ~Rejected(o) /\ window = NewWindow(NormalizeOptions(o))

Next ==
    \/ \E x \in Origins, s \in Sizes :
           window' = SetBounds(window, [x |-> x, y |-> 0, w |-> s, h |-> s])
    \/ \E s \in Sizes : window' = SetSize(window, s, s)
    \/ window' = Show(window)
    \/ window' = Hide(window)
    \/ window' = Minimize(window)
    \/ window' = Restore(window)
    \/ window' = Maximize(window)
    \/ window' = Unmaximize(window)
    \/ \E on \in BOOLEAN : window' = SetFullScreen(window, on)
    \/ \E on \in BOOLEAN : window' = SetEnabled(window, on)
    \/ Len(window.calls) < MaxCalls /\ window' = BeginClose(window)
    \/ window.calls # <<>> /\ Innermost(window) = "close" /\ window' = PreventDefault(window)
    \/ window.calls # <<>> /\ window' = HandlersReturn(window)

Spec == Init /\ [][Next]_window
-----------------------------------------------------------------------------
\* The normal bounds are the bounds to come back to, whatever order the modes
\* were entered and left in and resized between; the journal of events says
\* the modes the window is in; a window has a size; a closed one is hidden.
BooksKept ==
    /\ ~window.modes.maximized /\ ~window.modes.fullscreen => window.bounds = window.normal
    /\ ~window.closed => window.last = window.modes
    /\ window.bounds.w > 0 /\ window.normal.w > 0
    /\ window.closed => ~window.modes.visible
    /\ (window.closedEvents = 0) = ~window.closed

\* Nothing changes a window once it is closed, calls of Close that began before
\* it and prevent or close it again included.
ClosedIsFinal ==
    window.closed => /\ window'.closed /\ window'.bounds = window.bounds
                     /\ window'.modes = window.modes /\ window'.enabled = window.enabled
=============================================================================
