----------------------------- MODULE MCPreview ------------------------------
(***************************************************************************)
(* Every main text of up to MaxChars characters, on lines of a few         *)
(* characters, and pages with no, one or two notes in each section.        *)
(***************************************************************************)
EXTENDS Preview

CONSTANT MaxChars

\* A normalised text: no blank at either end and no two in a row.
MCContents ==
    {t \in BoundedSeq(Letters \cup {Blank}, MaxChars) :
        /\ t # <<>> /\ t[1] # Blank /\ t[Len(t)] # Blank
        /\ \A k \in 1..(Len(t) - 1) : t[k] # Blank \/ t[k + 1] # Blank}

MCWrapTexts == {WordLengths(t) : t \in MCContents}

PlainNote == [prefix |-> 0, words |-> <<90>>]
LongNote == [prefix |-> 60, words |-> <<80, 70>>]

MCNotes == [Sections -> {<<>>, <<PlainNote>>, <<LongNote, PlainNote>>}]

=============================================================================
