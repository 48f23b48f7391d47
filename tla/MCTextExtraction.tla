-------------------------- MODULE MCTextExtraction --------------------------
(***************************************************************************)
(* Every text that is a few characters or tags in a row, with all three    *)
(* systems, and every longer one of letters, tags of two systems and half  *)
(* tags: unclosed, adjacent, nested, crossed and empty notes, up to two of *)
(* a system.                                                               *)
(***************************************************************************)
EXTENDS TextExtraction, SequencesExt

CONSTANTS Dollar, Percent, Ampersand, MaxPieces, MaxTagged

MCTagChars == <<Dollar, Percent, Ampersand>>

Tagged == {<<Dollar, Dollar>>, <<Percent, Percent>>, <<Dollar>>, <<Letter>>}

Pieces == Tagged \cup {<<Ampersand, Ampersand>>, <<Percent>>,
                  <<Space>>, <<LineBreak>>}

MCRawTexts ==
    {FlattenSeq(t) : t \in BoundedSeq(Pieces, MaxPieces)
                             \cup BoundedSeq(Tagged, MaxTagged)}

=============================================================================
