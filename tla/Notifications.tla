--------------------------- MODULE Notifications ----------------------------
(* A notification and the history it may be recorded in                       *)
(* (internal/notification). Texts are kept only as being there or not.        *)
EXTENDS Integers, SequencesExt

CONSTANTS OptionSets,  \* the options a notification may be made with, see Options
          MaxEvents    \* bound: length of the journal and of the history

VARIABLE notice
-----------------------------------------------------------------------------
\* Constructor options: actions is the sequence of the action types given, texts
\* and choices say whether each of them has a text, and each dropdown choices.
Options == [title |-> "t", id |-> "", urgency |-> "", actions |-> <<>>, texts |-> TRUE,
            choices |-> TRUE, hasReply |-> FALSE, unsigned |-> FALSE]

BadOptions(o) ==
    \/ o.title = "" \/ o.urgency \notin {"", "low", "normal", "critical"}
    \/ \E i \in DOMAIN o.actions :
           \/ o.actions[i] \notin {"", "button", "text", "dropdown"}
           \/ ~o.texts
           \/ o.actions[i] = "dropdown" /\ ~o.choices

New(o) == [options |-> [o EXCEPT !.urgency = IF @ = "" THEN "normal" ELSE @,
                                 !.actions = ReplaceAll(@, "", "button")],
           shown |-> FALSE, closed |-> FALSE, events |-> <<>>, history |-> <<>>,
           ret |-> "ok"]

\* An entry is an event and the index of the action, 0 where there is none.
JournalAction(n, event, index) ==
    [n EXCEPT !.events = Append(@, <<event, index>>), !.ret = "ok"]
Journal(n, event) == JournalAction(n, event, 0)

\* A notification may be shown again and again until it is closed.
Show(n) == IF n.options.unsigned \/ n.closed THEN Journal(n, "failed")
           ELSE Journal([n EXCEPT !.shown = TRUE], "show")

\* Does not look whether it was closed.
FaultyLive(n) == n.shown

Live(n) == n.shown /\ ~n.closed

Click(n) == IF Live(n) THEN Journal(n, "click") ELSE n

ActivateAction(n, index) ==
    IF ~Live(n) THEN [n EXCEPT !.ret = "ErrNotificationClosed"]
    ELSE IF index \notin 0..Len(n.options.actions) - 1 THEN [n EXCEPT !.ret = "ErrInvalidAction"]
    ELSE JournalAction(n, "action", index)

Reply(n) ==
    IF ~Live(n) THEN [n EXCEPT !.ret = "ErrNotificationClosed"]
    ELSE IF ~n.options.hasReply THEN [n EXCEPT !.ret = "ErrInvalidAction"]
    ELSE Journal(n, "reply")

\* Closing is possible before the notification was ever shown, and once.
Close(n) == IF n.closed THEN n ELSE Journal([n EXCEPT !.closed = TRUE], "close")

\* History: what was shown once and has an id, as often as it is recorded; a
\* removal takes the first of the id and says whether there was one.
Record(n) == IF ~n.shown \/ n.options.id = "" THEN n
             ELSE [n EXCEPT !.history = Append(@, n.options.id)]

RemoveByID(n, id) == [n EXCEPT !.history = RemoveFirst(@, id),
                               !.ret = IF Contains(n.history, id) THEN "TRUE" ELSE "FALSE"]
-----------------------------------------------------------------------------
Init == \E o \in OptionSets : ~BadOptions(o) /\ notice = New(o)

Room == Len(notice.events) < MaxEvents

Next ==
    \/ Room /\ notice' = Show(notice)
    \/ Room /\ notice' = Click(notice)
    \/ \E i \in -1..1 : Room /\ notice' = ActivateAction(notice, i)
    \/ Room /\ notice' = Reply(notice)
    \/ Room /\ notice' = Close(notice)
    \/ Len(notice.history) < MaxEvents /\ notice' = Record(notice)
    \/ \E id \in {"", "n1"} : notice' = RemoveByID(notice, id)

Spec == Init /\ [][Next]_notice
-----------------------------------------------------------------------------
\* The journal is one a user could have caused: clicks, actions and replies
\* come after a show and before the one close, after which only refusals come,
\* and what is in the history was on the screen.
Event(i) == notice.events[i][1]

UsesAreTimely ==
    LET e == notice.events IN
    /\ \A i \in DOMAIN e :
          Event(i) \in {"click", "action", "reply"} =>
              /\ \E j \in 1..i-1 : Event(j) = "show"
              /\ \A j \in 1..i-1 : Event(j) # "close"
    /\ \A i, j \in DOMAIN e : i < j /\ Event(i) = "close" => Event(j) = "failed"
    /\ notice.history # <<>> => \E i \in DOMAIN e : Event(i) = "show"

\* And one its options allow: an action is one of those it was made with, there
\* is a reply only to one that takes replies, and of an unsigned application
\* nothing but refusals and the close.
UsesAreOffered ==
    \A i \in DOMAIN notice.events :
        /\ Event(i) = "action" =>
              notice.events[i][2] \in 0..Len(notice.options.actions) - 1
        /\ Event(i) = "reply" => notice.options.hasReply
        /\ notice.options.unsigned => Event(i) \in {"failed", "close"}

JournalIsPossible == UsesAreTimely /\ UsesAreOffered
=============================================================================
