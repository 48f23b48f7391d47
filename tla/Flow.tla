-------------------------------- MODULE Flow --------------------------------
(***************************************************************************)
(* What every method that breaks a text promises: the items of the text    *)
(* are put into boxes in reading order.  Words are put on lines, lines on  *)
(* pages.  No item is left out, none is put in two boxes, no box is left   *)
(* out before the last one, and the items of a box have room in it; an     *)
(* item with no room in any box may, if Overflow says so, have a box to    *)
(* itself.                                                                 *)
(*                                                                         *)
(* Flow leaves open when a box is closed: whether boxes are filled is a    *)
(* property of the methods.                                                *)
(***************************************************************************)
EXTENDS Integers, Sequences

CONSTANTS
    Capacity,       \* the room in an empty box
    Gap,            \* the room between two items of a box
    Overflow        \* may an item too large for a box be in one alone?

VARIABLES
    items,          \* the sizes of the items of the text
    boxOf,          \* the number of the box of every item placed so far
    room,           \* the room left in the last box that has an item
    ended           \* has the last item been placed and the method ended?

flowVars == <<items, boxOf, room, ended>>

LastBox == IF boxOf = <<>> THEN 0 ELSE boxOf[Len(boxOf)]

Init ==
    /\ items \in Seq(Nat)
    /\ boxOf = <<>>
    /\ room = 0
    /\ ended = FALSE

\* The size of the next item, if there is one.
NextSize == items[Len(boxOf) + 1]

Placing == ~ended /\ Len(boxOf) < Len(items) /\ UNCHANGED <<items, ended>>

\* The next item joins the items of the last box.
Join ==
    /\ Placing
    /\ boxOf # <<>> /\ Gap + NextSize <= room
    /\ boxOf' = Append(boxOf, LastBox)
    /\ room' = room - Gap - NextSize

\* The next item is the first of the box after the last one.
Open ==
    /\ Placing
    /\ NextSize <= Capacity \/ Overflow
    /\ boxOf' = Append(boxOf, LastBox + 1)
    /\ room' = Capacity - NextSize

End ==
    /\ ~ended /\ Len(boxOf) = Len(items)
    /\ ended' = TRUE
    /\ UNCHANGED <<items, boxOf, room>>

Next == Join \/ Open \/ End

Spec == Init /\ [][Next]_flowVars /\ WF_flowVars(Next)

=============================================================================
