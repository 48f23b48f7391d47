----------------------------- MODULE PageReport -----------------------------
(***************************************************************************)
(* What is said of the pages Paginate returns: the summary the window      *)
(* shows of them, and the rules of the page layout they are to obey.       *)
(***************************************************************************)
EXTENDS Pagination, SequencesExt

CONSTANT FootnoteHeight     \* _footnoteHeight, which the engine only stores

ASSUME FootnoteHeightAssumption == FootnoteHeight \in Nat

\* The sum of a count over the pages.
Total(counts) == RunningSum(counts)[Len(counts)]

\* The lines of every page, and its notes of system s.
LineCounts == [k \in DOMAIN pages |-> Len(pages[k].AllMainLines)]

NoteCounts(s) == [k \in DOMAIN pages |-> Len(pages[k].AllFootnotes[s])]

\* Slip: the sums of all systems are taken from the notes of one.
GetPaginationSummaryOfOneSystem ==
    IF pages = <<>> THEN [pages |-> 0]
    ELSE LET one == CHOOSE s \in Systems : TRUE
         IN  [pages      |-> Len(pages),
              totalChars |-> Total(LineCounts),
              notes      |-> [s \in Systems |-> Total(NoteCounts(one))]]

\* GetPaginationSummary: without pages it says only that there are none.  What it
\* calls totalChars, and shows as characters, are lines.
GetPaginationSummary ==
    IF pages = <<>> THEN [pages |-> 0]
    ELSE [pages      |-> Len(pages),
          totalChars |-> Total(LineCounts),
          notes      |-> [s \in Systems |-> Total(NoteCounts(s))]]

------------------------------------------------------------------------------
\* The notes of the summary are those of the text, each once, whichever pages took
\* them: the sums over the pages find no note twice and miss none.
SummaryCountsNotes ==
    pc = "returned" /\ pages # <<>> => GetPaginationSummary.notes = text.notes

\* The layout rules: a page holds its main text and all notes of its lines,
\* without overflow.
NotesFit ==
    \A k \in DOMAIN Layout :
        Layout[k].UsedHeight
          + FootnoteHeight * FoldFunction(+, 0, [s \in Systems |->
                                                    Len(NotesOnPage(k, s))])
            <= AvailableHeight

=============================================================================
