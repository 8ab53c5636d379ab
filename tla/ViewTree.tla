------------------------------ MODULE ViewTree ------------------------------
(* Views (internal/view): bounds with their change event, and the tree that   *)
(* AddChild and RemoveChild keep as a list of children in each view and a     *)
(* parent in each child. Of a rectangle the width is kept; colours, blur,     *)
(* radius and visibility are values that are set and read back, left out.     *)
EXTENDS Integers, SequencesExt

CONSTANTS Views, Widths,
          NoView               \* nil

VARIABLE tree
-----------------------------------------------------------------------------
NewTree == [children |-> [v \in Views |-> <<>>], parent |-> [v \in Views |-> NoView],
            width |-> [v \in Views |-> 0], animated |-> [v \in Views |-> FALSE],
            changed |-> {}, ret |-> "ok"]

\* changed is the set of views that have emitted bounds-changed.
SetBounds(t, v, width, animate) ==
    IF width < 0 THEN [t EXCEPT !.ret = "ErrInvalidBounds"]
    ELSE IF t.width[v] = width /\ t.animated[v] = animate THEN [t EXCEPT !.ret = "ok"]
    ELSE [t EXCEPT !.width[v] = width, !.animated[v] = animate, !.changed = @ \cup {v},
                   !.ret = "ok"]

RemoveChild(t, v, c) ==
    IF c = NoView \/ ~Contains(t.children[v], c) THEN t
    ELSE [t EXCEPT !.children[v] = RemoveFirst(@, c), !.parent[c] = NoView]

\* index counts from 0; it is clamped to the children left once c has been
\* taken from where it was. An ancestor of v is not refused.
Clamp(index, n) == IF index < 0 THEN 0 ELSE IF index > n THEN n ELSE index

AddChild(t, v, c, index) ==
    IF c = NoView \/ c = v THEN [t EXCEPT !.ret = "ErrInvalidChild"]
    ELSE LET freed  == IF t.parent[c] = NoView THEN t ELSE RemoveChild(t, t.parent[c], c)
             others == RemoveFirst(freed.children[v], c)
             at     == Clamp(index, Len(others))
         IN [freed EXCEPT !.children[v] = InsertAt(others, at + 1, c), !.parent[c] = v,
                          !.ret = "ok"]

AddLast(t, v, c) == AddChild(t, v, c, Len(t.children[v]))
ChildWidths(t, v) == [i \in DOMAIN t.children[v] |-> t.width[t.children[v][i]]]
-----------------------------------------------------------------------------
Init == tree = NewTree

Next ==
    \/ \E v \in Views, width \in Widths, animate \in BOOLEAN :
           tree' = SetBounds(tree, v, width, animate)
    \/ \E v \in Views, c \in Views \cup {NoView}, index \in -1..1 : tree' = AddChild(tree, v, c, index)
    \/ \E v, c \in Views : tree' = AddLast(tree, v, c)
    \/ \E v \in Views, c \in Views \cup {NoView} : tree' = RemoveChild(tree, v, c)

Spec == Init /\ [][Next]_tree
-----------------------------------------------------------------------------
\* The two halves of the tree agree whatever is moved where, inside one parent
\* too: a view is once among the children of its parent and of nobody else.
ParentsAgree ==
    \A v, c \in Views :
        Cardinality({i \in DOMAIN tree.children[v] : tree.children[v][i] = c})
            = IF tree.parent[c] = v THEN 1 ELSE 0

\* One call moves one view: whatever else is on screen keeps its parent and its
\* place before and behind the others.
OneMoves ==
    \E moved \in Views :
        /\ \A c \in Views \ {moved} : tree'.parent[c] = tree.parent[c]
        /\ \A v \in Views : RemoveFirst(tree'.children[v], moved)
                               = RemoveFirst(tree.children[v], moved)
=============================================================================
