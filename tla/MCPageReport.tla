---------------------------- MODULE MCPageReport ----------------------------
(***************************************************************************)
(* Pages of the application's own size, and the texts TextHelper returns:  *)
(* it joins the lines of the main text, so there is one line or none.      *)
(***************************************************************************)
EXTENDS PageReport

CONSTANTS MaxLines, MaxNotes, ShortLine, LongerLine

ThreeSystems == {"A", "B", "C"}

MCLengths == {ShortLine, LongerLine}

MCTexts == [lines : BoundedSeq(MCLengths, MaxLines),
            notes : [ThreeSystems -> 0..MaxNotes]]

=============================================================================
