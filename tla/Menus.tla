------------------------------- MODULE Menus --------------------------------
(* Menus and the tray (internal/menu). A menu is the sequence of its items in *)
(* the order in which ItemByID visits them, submenus in place; level says     *)
(* which list of the template an item comes from. Of the journals the events  *)
(* that are checked are kept: clicks, popups and dispose. Labels, roles,      *)
(* accelerators, tooltips and titles are left out but for being there.        *)
EXTENDS Integers, Sequences

CONSTANTS Templates,   \* sequences of template items, see Entry
          Ids,         \* what callers look up; "" among them
          MaxEvents    \* bound: length of the journals

VARIABLE menus
-----------------------------------------------------------------------------
\* An item of a template; type "" is a normal one, enabled and visible may be
\* left out, named: it has a label or a role.
Entry == [level |-> 0, id |-> "", type |-> "", enabled |-> <<>>, visible |-> <<>>,
          checked |-> FALSE, named |-> TRUE, parent |-> FALSE]

Types == {"", "normal", "separator", "checkbox", "radio", "submenu"}

BadItem(e) == e.type \notin Types \/ (e.type # "separator" /\ ~e.named)

\* Two items of one list with the same id are refused; lists may share ids.
BadTemplate(t) ==
    \/ \E i \in DOMAIN t : BadItem(t[i])
    \/ \E i, j \in DOMAIN t : i # j /\ t[i].id # "" /\ t[i].id = t[j].id /\ t[i].level = t[j].level

\* parent: the entry has a submenu of its own, whose entries follow.
NormalizeItem(e) ==
    [e EXCEPT !.enabled = IF @ = <<>> THEN TRUE ELSE @[1],
              !.visible = IF @ = <<>> THEN TRUE ELSE @[1],
              !.type = IF e.parent THEN "submenu" ELSE IF @ = "" THEN "normal" ELSE @]

NoMenu == [items |-> <<>>, disposed |-> FALSE, events |-> <<>>, ret |-> "ErrInvalidMenuItem"]

BuildFromTemplate(t) ==
    IF BadTemplate(t) THEN NoMenu
    ELSE [NoMenu EXCEPT !.items = [i \in DOMAIN t |-> NormalizeItem(t[i])], !.ret = "ok"]

\* ItemByID: the place of the first item with the id, 0 when there is none. The
\* empty id finds the first item that has none.
ItemByID(m, id) ==
    LET found == {i \in DOMAIN m.items : m.items[i].id = id}
    IN IF found = {} THEN 0 ELSE CHOOSE i \in found : \A j \in found : i <= j

UpdateItem(m, id, update) ==
    LET i == ItemByID(m, id) IN
    IF m.disposed THEN [m EXCEPT !.ret = "ErrMenuDisposed"]
    ELSE IF i = 0 THEN [m EXCEPT !.ret = "ErrMenuItemMissing"]
    ELSE [m EXCEPT !.ret = "ok", !.items[i] =
             [@ EXCEPT !.enabled = IF update.enabled = <<>> THEN @ ELSE update.enabled[1],
                       !.visible = IF update.visible = <<>> THEN @ ELSE update.visible[1],
                       !.checked = IF m.items[i].type \in {"checkbox", "radio"}
                                   THEN update.checked ELSE @]]

Journal(m, event) == [m EXCEPT !.events = Append(@, event), !.ret = "ok"]

\* With an id the item is clicked, without the whole menu pops up.
Popup(m, id) ==
    LET i == ItemByID(m, id) IN
    IF m.disposed THEN [m EXCEPT !.ret = "ErrMenuDisposed"]
    ELSE IF id = "" THEN Journal(m, <<"popup", 0>>)
    ELSE IF i = 0 THEN [m EXCEPT !.ret = "ErrMenuItemMissing"]
    ELSE IF ~m.items[i].enabled \/ ~m.items[i].visible \/ m.items[i].type = "separator"
    THEN [m EXCEPT !.ret = "ErrInvalidMenuItem"]
    ELSE Journal(m, <<"click", i>>)

Dispose(m) == Journal([m EXCEPT !.disposed = TRUE], <<"dispose", 0>>)

\* The tray and its menu: shows says whether SetContextMenu gave it the menu.
NewTray == [shows |-> FALSE, disposed |-> FALSE, events |-> <<>>, ret |-> "ok"]

SetContextMenu(tray) == IF tray.disposed THEN [tray EXCEPT !.ret = "ErrTrayDisposed"]
                        ELSE Journal([tray EXCEPT !.shows = TRUE], <<"context-menu", 0>>)

\* The click is recorded before the menu pops up, which it may refuse.
Click(both) ==
    IF both.tray.disposed THEN [both EXCEPT !.tray.ret = "ErrTrayDisposed"]
    ELSE LET clicked == Journal(both.tray, <<"click", 0>>)
             popped  == Popup(both.menu, "")
         IN IF ~both.tray.shows THEN [both EXCEPT !.tray = clicked]
            ELSE [menu |-> popped, tray |-> [clicked EXCEPT !.ret = popped.ret]]
-----------------------------------------------------------------------------
Init == \E t \in Templates :
            /\ ~BadTemplate(t)
            /\ menus = [menu |-> BuildFromTemplate(t), tray |-> NewTray]

Room == Len(menus.menu.events) < MaxEvents /\ Len(menus.tray.events) < MaxEvents

Next ==
    \/ \E id \in Ids, on \in {<<>>, <<FALSE>>, <<TRUE>>}, checked \in BOOLEAN :
           menus' = [menus EXCEPT !.menu = UpdateItem(@, id,
                        [enabled |-> on, visible |-> <<>>, checked |-> checked])]
    \/ \E id \in Ids : Room /\ menus' = [menus EXCEPT !.menu = Popup(@, id)]
    \/ Room /\ menus' = [menus EXCEPT !.menu = Dispose(@)]
    \/ Room /\ menus' = [menus EXCEPT !.tray = SetContextMenu(@)]
    \/ Room /\ menus' = Click(menus)
    \/ Room /\ menus' = [menus EXCEPT !.tray = Dispose(@)]

Spec == Init /\ [][Next]_menus
-----------------------------------------------------------------------------
\* An item is clicked only while it is enabled, visible and no separator, never
\* after the menu was disposed of, whether the tray or the app asks; and the
\* menu pops up for each click of a tray that shows it and finds it alive.
ClicksAreAnswered ==
    LET was == menus.menu now == menus'.menu IN
    /\ now.events # was.events =>
           LET e == now.events[Len(now.events)] IN
           /\ was.disposed => e[1] = "dispose"
           /\ e[1] = "click" => was.items[e[2]].enabled /\ was.items[e[2]].visible
    /\ menus'.tray.events # menus.tray.events /\ menus.tray.shows
           /\ menus'.tray.events[Len(menus'.tray.events)][1] = "click"
           => (menus'.tray.ret = "ok") = (now.events # was.events)
=============================================================================
