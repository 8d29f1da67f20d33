----------------------------- MODULE Selection -----------------------------
(***************************************************************************)
(* The selection of units with the left mouse button and the orders of the *)
(* right one: the input part of the main loop (main.cpp), UnitSelection    *)
(* and Collision.  Positions are whole numbers, and a frame sees the mouse *)
(* anywhere on the map.                                                    *)
(***************************************************************************)
EXTENDS Integers, Sequences, SequencesExt

CONSTANTS Units,            \* the transform components, in the order of their slots
          Owner,            \* the player of each
          Me,               \* _player
          Xs, Zs            \* the coordinates on the map

Points == Xs \X Zs          \* a point is <<x, z>>

VARIABLES position,         \* of each unit
          start, end,       \* _world_start, _world_end
          selection,        \* _selection
          lm_released,
          edit_mode,
          orders            \* history: the units of the last order

vars == <<position, start, end, selection, lm_released, edit_mode, orders>>

Init ==
    /\ position \in [DOMAIN Owner -> Points]
    /\ start \in Points /\ end = start
    /\ selection = <<>>
    /\ lm_released = TRUE /\ edit_mode = FALSE
    /\ orders = <<>>

\* The rectangle from corner a to corner b, as <<x, z, width, depth>>.
Region(a, b) ==
    LET width == b[1] - a[1]
        depth == b[2] - a[2]
    IN  << IF width < 0 THEN a[1] + width ELSE a[1], IF depth < 0 THEN a[2] + depth ELSE a[2],
           IF width < 0 THEN -width ELSE width,      IF depth < 0 THEN -depth ELSE depth >>

\* Collision::within_region: the right edge is taken from the point.
WithinRegion(p, r) ==
    /\ p[1] >= r[1] /\ p[1] <= p[1] + p[2]
    /\ p[2] >= r[2] /\ p[2] <= r[2] + r[4]

\* The units move as the entity manager updates them.
Update ==
    /\ \E u \in DOMAIN Owner, p \in Points : position' = [position EXCEPT ![u] = p]
    /\ UNCHANGED <<start, end, selection, lm_released, edit_mode, orders>>

\* The right button gives an order to the selected units.
RightButton == ~edit_mode' /\ orders' = selection

Press(mouse) ==
    /\ lm_released
    /\ start' = mouse /\ end' = mouse
    /\ selection' = <<>>
    /\ lm_released' = FALSE

Drag(mouse) ==
    /\ ~lm_released
    /\ end' = mouse
    /\ UNCHANGED <<start, selection, lm_released>>

\* finalize()
Release ==
    /\ ~lm_released
    /\ selection' = selection \o
           SelectSeq(Units, LAMBDA u : /\ Owner[u] = Me
                                       /\ WithinRegion(position[u], Region(start, end)))
    /\ lm_released' = TRUE
    /\ UNCHANGED <<start, end>>

\* The input of a frame.  The space bar switches the editor on and off; in the editor the
\* buttons do not select, and a drag goes on when it is left.
Frame ==
    /\ edit_mode' \in BOOLEAN
    /\ RightButton \/ UNCHANGED orders
    /\ IF edit_mode' THEN UNCHANGED <<start, end, selection, lm_released>>
       ELSE \/ \E mouse \in Points : Press(mouse) \/ Drag(mouse)
            \/ Release
            \/ lm_released /\ UNCHANGED <<start, end, selection, lm_released>>
    /\ UNCHANGED position

Next == Update \/ Frame

Spec == Init /\ [][Next]_vars

-----------------------------------------------------------------------------
\* p lies between the corners a and b.
Between(p, a, b) ==
    \A i \in 1 .. 2 : (a[i] <= p[i] /\ p[i] <= b[i]) \/ (b[i] <= p[i] /\ p[i] <= a[i])

\* When the button is released, the selection is the player's own units in the rectangle
\* that was dragged: within_region of a point and a rectangle, as Collision.h says of its
\* parameters (UnitSelection.cpp:52, Collision.cpp:3).
SelectsRectangle ==
    [][~lm_released /\ lm_released' =>
         ToSet(selection') =
             {u \in ToSet(Units) : Owner[u] = Me /\ Between(position[u], start, end)}]_vars
=============================================================================
