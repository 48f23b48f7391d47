----------------------------- MODULE Pagination -----------------------------
(***************************************************************************)
(* PaginationEngine.Paginate: the lines of an extracted text are laid on   *)
(* pages, first fit in reading order, and the footnotes of the three       *)
(* systems are attached to pages.                                          *)
(*                                                                         *)
(* A line is known by its position in the split main text and by its       *)
(* length (the only thing its height depends on); a footnote by its        *)
(* position in the list TextHelper returned for its system.  One step of   *)
(* this specification is one round of the while loop.  Heights are whole   *)
(* numbers of pixels.                                                      *)
(*                                                                         *)
(* A definition introduced by "Slip" is not part of the model: it is the   *)
(* next definition with a plausible mistake in it, kept to show that the   *)
(* properties below notice the mistake.                                    *)
(***************************************************************************)
EXTENDS Integers, Sequences, RunningSum

CONSTANTS
    Systems,        \* the footnote systems: $$ (A), %% (B), && (C)
    Texts,          \* what the extraction may return: lengths of the lines,
                    \* number of notes per system
    PageHeight,     \* the height a page is created with
    HeaderHeight,   \* the running header's share of it
    MarginOuter,    \* the outer margin's share of it
    LineHeight,     \* the height of an ordinary line
    LongLine        \* a line with more characters than this is a long line

\* Split drops empty entries, so a line has at least one character.
ASSUME TextsAssumption ==
    \A t \in Texts : /\ t.lines \in Seq(Nat \ {0})
                     /\ t.notes \in [Systems -> Nat]

\* An even line height keeps the height of a long line, half a line more, whole.
ASSUME SizesAssumption ==
    /\ PageHeight \in Nat /\ HeaderHeight \in Nat /\ MarginOuter \in Nat
    /\ LineHeight \in Nat \ {0} /\ LineHeight % 2 = 0
    /\ LongLine \in Nat

VARIABLES
    text,           \* the extraction of the raw text being paginated
    lineIndex,      \* lines placed so far
    noteIndex,      \* footnoteAIndex, footnoteBIndex, footnoteCIndex
    currentPage,    \* the page being filled
    pages,          \* the pages already closed
    pc              \* "loop" while the method runs, "returned" after it

vars == <<text, lineIndex, noteIndex, currentPage, pages, pc>>

------------------------------------------------------------------------------
\* PageModel: the fields Paginate reads and writes.

AvailableHeight == PageHeight - HeaderHeight - MarginOuter

RemainingHeight(page) == AvailableHeight - page.UsedHeight

\* Slip: pages numbered from zero.
CreateNewPageFromZero(number) ==
    [PageNumber |-> number - 1, AllMainLines |-> <<>>,
     AllFootnotes |-> [s \in Systems |-> <<>>], UsedHeight |-> 0]

CreateNewPage(number) ==
    [PageNumber   |-> number,
     AllMainLines |-> <<>>,
     AllFootnotes |-> [s \in Systems |-> <<>>],
     UsedHeight   |-> 0]

CalculateLineHeight(length) ==
    IF length > LongLine THEN LineHeight + LineHeight \div 2 ELSE LineHeight

------------------------------------------------------------------------------
\* The notes of system s that are on no page yet, in order.
RemainingNotes(s) ==
    [k \in 1..(text.notes[s] - noteIndex[s]) |-> noteIndex[s] + k]

\* AddFootnotesForLine gives every remaining note of every system to the page.
AddFootnotesForLine(page) ==
    [page EXCEPT !.AllFootnotes =
        [s \in Systems |-> page.AllFootnotes[s] \o RemainingNotes(s)]]

ReserveHeight(page, height) == [page EXCEPT !.UsedHeight = @ + height]

\* AllMainLines.Add and ReserveHeight for the line at position n.
AddMainLine(page, n) ==
    ReserveHeight([page EXCEPT !.AllMainLines = Append(@, n)],
                  CalculateLineHeight(text.lines[n]))

\* Slip: room is checked for an ordinary line.
FitsPlainLine == RemainingHeight(currentPage) >= LineHeight

\* Slip: a line that fits exactly is refused.
FitsNextStrictly ==
    RemainingHeight(currentPage) > CalculateLineHeight(text.lines[lineIndex + 1])

\* Is there room on the current page for the next line?
FitsNext ==
    RemainingHeight(currentPage) >= CalculateLineHeight(text.lines[lineIndex + 1])

Init ==
    /\ text \in Texts
    /\ lineIndex = 0
    /\ noteIndex = [s \in Systems |-> 0]
    /\ currentPage = CreateNewPage(1)
    /\ pages = <<>>
    /\ pc = "loop"

\* Slip: the note indices are passed by value and keep their old values.
PlaceLineKeepingNoteIndex ==
    /\ pc = "loop" /\ lineIndex < Len(text.lines)
    /\ FitsNext
    /\ currentPage' = AddFootnotesForLine(AddMainLine(currentPage, lineIndex + 1))
    /\ lineIndex' = lineIndex + 1
    /\ UNCHANGED <<text, noteIndex, pages, pc>>

PlaceLine ==
    /\ pc = "loop" /\ lineIndex < Len(text.lines)
    /\ FitsNext
    /\ currentPage' = AddFootnotesForLine(AddMainLine(currentPage, lineIndex + 1))
    /\ noteIndex' = [s \in Systems |-> text.notes[s]]
    /\ lineIndex' = lineIndex + 1
    /\ UNCHANGED <<text, pages, pc>>

\* Slip: the line that did not fit is skipped.
TurnPageSkippingLine ==
    /\ pc = "loop" /\ lineIndex < Len(text.lines)
    /\ ~FitsNext
    /\ pages' = Append(pages, currentPage)
    /\ currentPage' = CreateNewPage(Len(pages) + 2)
    /\ lineIndex' = lineIndex + 1
    /\ UNCHANGED <<text, noteIndex, pc>>

\* Slip: the number is taken from pages.Count before the full page is added.
TurnPageNumberingEarly ==
    /\ pc = "loop" /\ lineIndex < Len(text.lines)
    /\ ~FitsNext
    /\ pages' = Append(pages, currentPage)
    /\ currentPage' = CreateNewPage(Len(pages) + 1)
    /\ UNCHANGED <<text, lineIndex, noteIndex, pc>>

\* Slip: the full page is neither stored nor replaced.
TurnPageForgotten ==
    /\ pc = "loop" /\ lineIndex < Len(text.lines)
    /\ ~FitsNext
    /\ UNCHANGED vars

TurnPage ==
    /\ pc = "loop" /\ lineIndex < Len(text.lines)
    /\ ~FitsNext
    /\ pages' = Append(pages, currentPage)
    /\ currentPage' = CreateNewPage(Len(pages) + 2)
    /\ UNCHANGED <<text, lineIndex, noteIndex, pc>>

\* Slip: the page still open at the end of the text is dropped.
ReturnWithoutLastPage ==
    /\ pc = "loop" /\ lineIndex = Len(text.lines)
    /\ pc' = "returned"
    /\ UNCHANGED <<text, lineIndex, noteIndex, currentPage, pages>>

Return ==
    /\ pc = "loop" /\ lineIndex = Len(text.lines)
    /\ pages' = IF currentPage.AllMainLines # <<>>
                  THEN Append(pages, currentPage) ELSE pages
    /\ pc' = "returned"
    /\ UNCHANGED <<text, lineIndex, noteIndex, currentPage>>

\* The caller has the result: nothing more happens.
Returned == pc = "returned" /\ UNCHANGED vars

Next == PlaceLine \/ TurnPage \/ Return \/ Returned

\* The loop runs on the caller's thread and is never abandoned.
Spec == Init /\ [][Next]_vars /\ WF_vars(Next)

------------------------------------------------------------------------------
\* The invariants, in terms of the layout so far.

PageType ==
    [PageNumber   : Nat \ {0},
     AllMainLines : Seq(Nat \ {0}),
     AllFootnotes : [Systems -> Seq(Nat \ {0})],
     UsedHeight   : Nat]

\* Every variable has its type; the indices stay inside the text they index.
TypeOK ==
    /\ text \in Texts
    /\ lineIndex \in 0..Len(text.lines)
    /\ noteIndex \in [Systems -> Nat]
    /\ \A s \in Systems : noteIndex[s] <= text.notes[s]
    /\ currentPage \in PageType
    /\ pages \in Seq(PageType)
    /\ pc \in {"loop", "returned"}

\* The pages laid out so far, in order, the one being filled included.
Layout == IF pc = "loop" THEN Append(pages, currentPage) ELSE pages

\* The positions of the lines on page k of the layout.
LinesOf(k) == Layout[k].AllMainLines

\* No page's main text is higher than the room the page model leaves for it:
\* Paginate compares RemainingHeight with the line before reserving it.
MainTextFits ==
    \A k \in DOMAIN Layout :
        LinesOf(k) # <<>> => Layout[k].UsedHeight <= AvailableHeight

\* The pages cut the text into consecutive runs of lines: no line is lost,
\* printed twice or moved, however often the loop turned the page.
LinesInOrder ==
    /\ \A k \in DOMAIN Layout : \A j \in 1..(Len(LinesOf(k)) - 1) :
           LinesOf(k)[j + 1] = LinesOf(k)[j] + 1
    /\ \A k \in 1..(Len(Layout) - 1) :
           LinesOf(k) # <<>> /\ LinesOf(k + 1) # <<>> =>
               LinesOf(k + 1)[1] = LinesOf(k)[Len(LinesOf(k))] + 1
    /\ lineIndex > 0 =>
           /\ \E k \in DOMAIN Layout : LinesOf(k) # <<>> /\ LinesOf(k)[1] = 1
           /\ \E k \in DOMAIN Layout :
                  LinesOf(k) # <<>> /\ LinesOf(k)[Len(LinesOf(k))] = lineIndex

\* The page numbers the ComboBox shows are the positions in the result,
\* although they are computed from pages.Count before the page is stored.
NumberedInOrder ==
    \A k \in DOMAIN Layout : Layout[k].PageNumber = k

\* The notes of system s on page k of the layout.
NotesOnPage(k, s) == Layout[k].AllFootnotes[s]

\* Every extracted note is on exactly one page, once and in its place, as soon
\* as one line is placed, and on none before: the three note indices, passed by
\* reference, stop the later lines from attaching the notes again.
NotesExactlyOnce ==
    \A s \in Systems :
        LET holders == {k \in DOMAIN Layout : NotesOnPage(k, s) # <<>>}
        IN  IF lineIndex = 0 \/ text.notes[s] = 0
              THEN holders = {}
              ELSE \E k \in DOMAIN Layout :
                       /\ holders = {k}
                       /\ NotesOnPage(k, s) = [n \in 1..text.notes[s] |-> n]

\* A page is turned only when the next line does not fit any more: no page
\* could have taken the first line of the page after it.
GreedyFit ==
    \A k \in 1..(Len(Layout) - 1) :
        LinesOf(k + 1) # <<>> =>
            Layout[k].UsedHeight
              + CalculateLineHeight(text.lines[LinesOf(k + 1)[1]])
                > AvailableHeight

\* What Paginate returns covers the text: its last page ends with the last
\* line and no page is empty.
ResultComplete ==
    pc = "returned" =>
        /\ \A k \in DOMAIN pages : pages[k].AllMainLines # <<>>
        /\ IF text.lines = <<>>
             THEN pages = <<>>
             ELSE pages # <<>> /\ LinesOf(Len(pages))[Len(LinesOf(Len(pages)))]
                                    = Len(text.lines)

\* The heights of the lines of the text, and of all lines above a line.
LineHeights == [n \in DOMAIN text.lines |-> CalculateLineHeight(text.lines[n])]

HeightAbove == RunningSum(LineHeights)

\* Can the lines be cut into m consecutive runs that each fit a page?
CutInto(m) ==
    LET n == Len(text.lines)
    IN  \E cut \in [0..m -> 0..n] :
            /\ cut[0] = 0 /\ cut[m] = n
            /\ \A k \in 1..m :
                  /\ cut[k - 1] <= cut[k]
                  /\ HeightAbove[cut[k]] - HeightAbove[cut[k - 1]] <= AvailableHeight

\* First fit is optimal here: no layout of the same lines in the same order
\* has fewer pages than the one Paginate returns.
FewestPages ==
    pc = "returned" => \A m \in 0..(Len(pages) - 1) : ~CutInto(m)

------------------------------------------------------------------------------
\* What has to be known of a state for the next step to keep the above.

LastOf(k) == LinesOf(k)[Len(LinesOf(k))]

\* Lines on pages have been taken from the text.
PositionsInv ==
    \A k \in DOMAIN Layout : \A j \in DOMAIN LinesOf(k) :
        LinesOf(k)[j] \in 1..lineIndex

\* While lines remain to be placed: the next one does not fit page k.
NextTooHighFor(page) ==
    /\ lineIndex < Len(text.lines)
    /\ page.UsedHeight + CalculateLineHeight(text.lines[lineIndex + 1])
         > AvailableHeight

\* The page being filled ends with the line last placed; if it is empty, it
\* was opened because the next line did not fit the page before it.
OpenPageInv ==
    pc = "loop" =>
        LET k == Len(Layout)
        IN  IF LinesOf(k) # <<>>
              THEN LastOf(k) = lineIndex
              ELSE /\ Layout[k].UsedHeight = 0
                   /\ IF k = 1 THEN lineIndex = 0
                      ELSE /\ NextTooHighFor(Layout[k - 1])
                           /\ LinesOf(k - 1) # <<>> => LastOf(k - 1) = lineIndex

\* An empty page was turned only if the next line fits no page at all, and
\* then the loop is still turning pages.
EmptyPagesInv ==
    \A k \in 1..(Len(Layout) - 1) :
        LinesOf(k) = <<>> =>
            /\ pc = "loop"
            /\ LinesOf(Len(Layout)) = <<>>
            /\ NextTooHighFor(Layout[Len(Layout)])

\* The note indices move once, from nothing to everything.
NoteIndexInv ==
    \A s \in Systems :
        noteIndex[s] = IF lineIndex = 0 THEN 0 ELSE text.notes[s]

\* UsedHeight, which the loop accumulates, is the height of the page's lines.
HeightInv ==
    \A k \in DOMAIN Layout :
        LinesOf(k) # <<>> =>
            Layout[k].UsedHeight = HeightAbove[LastOf(k)] - HeightAbove[LinesOf(k)[1] - 1]

\* The method returns with every line placed, the last one on the last page.
ReturnedInv ==
    pc = "returned" =>
        /\ lineIndex = Len(text.lines)
        /\ IF pages = <<>> THEN lineIndex = 0
           ELSE LinesOf(Len(pages)) # <<>> /\ LastOf(Len(pages)) = lineIndex

\* The inductive invariant.
SafetyInv ==
    /\ TypeOK
    /\ PositionsInv
    /\ MainTextFits
    /\ LinesInOrder
    /\ NumberedInOrder
    /\ NotesExactlyOnce
    /\ GreedyFit
    /\ OpenPageInv
    /\ EmptyPagesInv
    /\ NoteIndexInv
    /\ ReturnedInv

=============================================================================
