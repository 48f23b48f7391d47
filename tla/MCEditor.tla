------------------------------ MODULE MCEditor ------------------------------
(***************************************************************************)
(* The editor with three texts: one PaginationEngine makes no page of (it  *)
(* is blank or consists of notes), a short one and one that fills several  *)
(* lines.  PaginationEngine makes at most one page of a text because       *)
(* TextHelper joins its lines; ColumnLayoutEngine wraps them again and, as *)
(* written, makes a page of every line.                                    *)
(***************************************************************************)
EXTENDS EditorJournal

CONSTANTS Blank, Short, Long, NoText

MCTexts == {Blank, Short, Long}

MCPageCount ==
    [engine \in Engines |->
        [t \in MCTexts |-> CASE t = Blank -> 0
                             [] t = Long /\ engine = "columns" -> 3
                             [] OTHER -> 1]]

=============================================================================
