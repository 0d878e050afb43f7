----------------------------- MODULE ClickIntent -----------------------------
(***************************************************************************)
(* Single- versus double-click disambiguation as spec 4.2 and 9 describe   *)
(* it: a first click leaves the diagram waiting (PendingSingle); when the  *)
(* 500 ms window closes the single-click action runs on the group that was *)
(* clicked; a second click on that group runs the double-click action on  *)
(* it; a second click elsewhere cancels.  effect is the action the last    *)
(* step started, None when it started none.                                *)
(***************************************************************************)
CONSTANTS
    Clicks,          \* pending clicks: [i : group index, target : entity]
    None

VARIABLES armed, effect

Action(kind, c) == [kind |-> kind, target |-> c.target]

Init == armed = {} /\ effect = None

\* A first click on a diagram
Arm(c) == c \notin armed /\ armed' = armed \cup {c} /\ effect' = None

\* The window closes: the single-click action on the clicked group
Single(c) == c \in armed /\ armed' = armed \ {c} /\ effect' = Action("single", c)

\* A second click on the clicked group
Double(c) == c \in armed /\ armed' = armed \ {c} /\ effect' = Action("double", c)

\* A second click on another group, or the window closing on a view that
\* no longer shows the diagram: nothing runs
Drop(c) == c \in armed /\ armed' = armed \ {c} /\ effect' = None

\* Any other event starts no click action
Other == UNCHANGED armed /\ effect' = None

Next ==
    \/ \E c \in Clicks : Arm(c)
    \/ \E c \in armed : Single(c) \/ Double(c) \/ Drop(c)
    \/ Other

Spec == Init /\ [][Next]_<<armed, effect>>

=============================================================================
