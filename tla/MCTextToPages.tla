--------------------------- MODULE MCTextToPages ---------------------------
(***************************************************************************)
(* Every text that is a few letters, blanks, tags and noted words in a row, *)
(* on pages of the application's size.                                     *)
(***************************************************************************)
EXTENDS TextToPages, SequencesExt

CONSTANTS Dollar, Percent, Ampersand, MaxPieces

MCTagChars == <<Dollar, Percent, Ampersand>>

Noted(tag) == <<tag, tag, Letter, tag, tag>>

Pieces == {<<Letter>>, <<Space>>, <<LineBreak>>, <<Dollar, Dollar>>, <<Percent>>,
           Noted(Dollar), Noted(Percent), Noted(Ampersand)}

MCRawTexts == {FlattenSeq(t) : t \in BoundedSeq(Pieces, MaxPieces)}

=============================================================================
