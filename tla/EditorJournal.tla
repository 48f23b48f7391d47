---------------------------- MODULE EditorJournal ----------------------------
(***************************************************************************)
(* The editor implements LayoutJournal.  The row is built at the end of    *)
(* the handler from whatever Text and Pages then hold, after callbacks and *)
(* a message box; what it must say was settled when the button was         *)
(* pressed.                                                                *)
(***************************************************************************)
EXTENDS Editor

\* A text, the engine that lays it out, and the number of pages it makes.
Document(engine, t) ==
    [text |-> t, engine |-> engine, pageCount |-> PageCount[engine][t]]

Documents == {Document(engine, t) : engine \in Engines, t \in Texts}

\* A layout command is between its first step and its last.
LayoutRuns ==
    \/ pc \in {"cleared", "laid out", "notes box", "saving"}
    \/ pc = "loading" /\ caller # "combo"

\* What the running layout has to record.
RunningLayout == [layout |-> layouts, document |-> Document(caller, text)]

\* What a row records, but for the count of glyphs.
Recorded(row) ==
    [layout   |-> row.layout,
     document |-> [text      |-> row.text,
                   engine    |-> row.engine,
                   pageCount |-> row.pageCount]]

Journal == INSTANCE LayoutJournal WITH
    begun   <- layouts,
    running <- IF LayoutRuns THEN {RunningLayout} ELSE {},
    journal <- [i \in DOMAIN rows |-> Recorded(rows[i])]

\* Every layout adds one row or none, and the row is of the text, the engine and
\* the pages the layout began with: neither a callback in the middle of the
\* handler, nor the time a box is open, nor a throw, a stop or a restart lets a
\* layout save twice or save what another one laid out.
EveryLayoutSavedOnce == Journal!Spec

=============================================================================
