---------------------------- MODULE LayoutJournal ----------------------------
(***************************************************************************)
(* What a layout promises of the table: the document that is laid out is   *)
(* fixed when the layout begins, and either one row with that document is  *)
(* added, or the layout is given up and leaves no row.  One layout at a    *)
(* time, and the rows stay.                                                *)
(***************************************************************************)
EXTENDS Naturals, Sequences

CONSTANT
    Documents       \* what a layout may lay out

VARIABLES
    begun,          \* layouts begun so far
    running,        \* the running layout's number and document, if one runs
    journal         \* the rows

journalVars == <<begun, running, journal>>

Init ==
    /\ begun = 0
    /\ running = {}
    /\ journal = <<>>

Begin ==
    /\ running = {}
    /\ begun' = begun + 1
    /\ \E document \in Documents :
           running' = {[layout |-> begun', document |-> document]}
    /\ UNCHANGED journal

Save ==
    /\ \E entry \in running : journal' = Append(journal, entry)
    /\ running' = {}
    /\ UNCHANGED begun

\* An error, or the end of the process.
GiveUp ==
    /\ running # {}
    /\ running' = {}
    /\ UNCHANGED <<begun, journal>>

Next == Begin \/ Save \/ GiveUp

Spec == Init /\ [][Next]_journalVars

=============================================================================
