--------------------------- MODULE MCParagraphWrap ---------------------------
(***************************************************************************)
(* Up to three paragraphs of up to three words, five words together, on      *)
(* lines of five: two narrow words fill a line exactly with the blank or   *)
(* leave room for a third, and the widest word is wider than a line.       *)
(***************************************************************************)
EXTENDS ParagraphWrap

CONSTANTS
    Widths,         \* the widths of words
    MaxParagraphs,  \* bound on the paragraphs
    MaxWords        \* bound on the words of all paragraphs together

Paragraphs == SeqOf(Widths, 3)

MCParagraphLists ==
    {list \in SeqOf(Paragraphs, MaxParagraphs) : Len(FlattenSeq(list)) <= MaxWords}

=============================================================================
