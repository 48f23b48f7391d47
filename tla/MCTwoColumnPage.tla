--------------------------- MODULE MCTwoColumnPage ---------------------------
(***************************************************************************)
(* Pages with columns of no line up to a column longer than the page, and  *)
(* systems with no note up to more notes than there are letters.           *)
(***************************************************************************)
EXTENDS TwoColumnPage

\* Lines without words, of one word and of several; a column may be empty.
MCColumns == {<<>>, <<3>>, <<2, 0, 1>>, [k \in 1..40 |-> 3]}

Equal(count) == [n \in 1..count |-> 2]

\* No note; fewer, as many and more notes than symbols; one more than letters; a
\* wide note in the right column, and one in the left.
MCNotes == {Equal(0), Equal(1), Equal(7), Equal(8), Equal(21), <<9, 1>>, <<1, 1, 9>>}

MCPageModels ==
    [header : {{}, {"right", "center", "left"}},
     main   : [Columns -> MCColumns],
     notes  : [{"A", "B", "C"} -> MCNotes]]

=============================================================================
