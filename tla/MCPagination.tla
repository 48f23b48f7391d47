---------------------------- MODULE MCPagination ----------------------------
(***************************************************************************)
(* Pagination on small pages: every text of up to MaxLines lines, and what *)
(* the summary then says of the pages.                                     *)
(***************************************************************************)
EXTENDS PageReport, PaginationFlow

CONSTANTS MaxLines, MaxNotes

ThreeSystems == {"A", "B", "C"}

\* A line just at the bound of a long line, and one just above it.
MCLengths == {50, 51}

MCTexts == [lines : BoundedSeq(MCLengths, MaxLines),
            notes : [ThreeSystems -> 0..MaxNotes]]

=============================================================================
