-------------------------- MODULE PaginationProofs --------------------------
(***************************************************************************)
(* The safety of Pagination for every page geometry and every text, and    *)
(* that every step of it is one of Flow; what is proved of the pages it    *)
(* returns; and that no round is for nothing if every line fits a page.    *)
(*                                                                         *)
(* No layout of the same lines, in the same order, takes fewer pages:      *)
(* UsedHeight is the height of the lines of a page, so a page is a run of  *)
(* lines whose height is a difference of two running sums; and since every *)
(* page was filled as far as it went, no other cut of the text into such   *)
(* runs is ever ahead of the pages.                                        *)
(*                                                                         *)
(* The summary's sums are those of the text: the lines of the first k      *)
(* pages are as many as the place of the last of them, and one page alone  *)
(* has notes.                                                              *)
(***************************************************************************)
EXTENDS PaginationFlow, PageReport, DataLemmas, TLAPS

------------------------------------------------------------------------------
\* Sequences.

\* What Append keeps and adds.
LEMMA AppendFacts ==
    ASSUME NEW S, NEW q \in Seq(S), NEW x \in S
    PROVE  /\ Append(q, x) # <<>>
           /\ Len(Append(q, x)) = Len(q) + 1
           /\ Append(q, x)[Len(Append(q, x))] = x
           /\ q # <<>> => Append(q, x)[1] = q[1]
<1>1. Len(q) \in Nat /\ Len(Append(q, x)) = Len(q) + 1
  OBVIOUS
<1>2. Append(q, x)[Len(q) + 1] = x
  OBVIOUS
<1>3. Append(q, x) # <<>>
  <2>1. Append(q, x) = <<>> => Len(Append(q, x)) = 0
    OBVIOUS
  <2>2. QED
    BY <2>1, <1>1
<1>4. q # <<>> => Append(q, x)[1] = q[1]
  <2>1. q # <<>> => Len(q) >= 1
    BY <1>1
  <2>2. QED
    BY <2>1
<1>5. QED
  BY <1>1, <1>2, <1>3, <1>4

\* Nothing appended, nothing changed.
LEMMA ConcatEmpty ==
    ASSUME NEW S, NEW q \in Seq(S)
    PROVE  q \o <<>> = q /\ <<>> \o q = q
OBVIOUS

\* A sequence that is not empty has a last position.
LEMMA LastPosition ==
    ASSUME NEW S, NEW q \in Seq(S), q # <<>>
    PROVE  Len(q) \in DOMAIN q
<1>1. Len(q) \in Nat /\ DOMAIN q = 1..Len(q)
  OBVIOUS
<1>2. Len(q) # 0
  OBVIOUS
<1>3. QED
  BY <1>1, <1>2

\* A sequence without positions is empty.
LEMMA NoPositions ==
    ASSUME NEW S, NEW q \in Seq(S), DOMAIN q = {}
    PROVE  q = <<>>
OBVIOUS

------------------------------------------------------------------------------
\* Heights and pages have their types.

\* A line's height is a natural number and not zero.
LEMMA LineHeightType ==
    ASSUME NEW length \in Nat
    PROVE  CalculateLineHeight(length) \in Nat
BY SizesAssumption DEF CalculateLineHeight

\* A new page is a page, empty and unused.
LEMMA NewPageType ==
    ASSUME NEW number \in Nat \ {0}
    PROVE  /\ CreateNewPage(number) \in PageType
           /\ CreateNewPage(number).AllMainLines = <<>>
           /\ CreateNewPage(number).UsedHeight = 0
           /\ CreateNewPage(number).PageNumber = number
           /\ \A s \in Systems : CreateNewPage(number).AllFootnotes[s] = <<>>
BY DEF CreateNewPage, PageType

\* Placing a line on a page and attaching the remaining notes gives a page.
LEMMA PlacedPage ==
    ASSUME TypeOK, NEW page \in PageType, NEW n \in 1..Len(text.lines)
    PROVE  LET placed == AddFootnotesForLine(AddMainLine(page, n))
           IN  /\ placed \in PageType
               /\ placed.PageNumber = page.PageNumber
               /\ placed.AllMainLines = Append(page.AllMainLines, n)
               /\ placed.UsedHeight =
                      page.UsedHeight + CalculateLineHeight(text.lines[n])
               /\ placed.AllFootnotes =
                      [s \in Systems |-> page.AllFootnotes[s] \o RemainingNotes(s)]
<1>1. text.lines \in Seq(Nat \ {0}) /\ text.notes \in [Systems -> Nat]
  BY TextsAssumption DEF TypeOK
<1>2. text.lines[n] \in Nat
  BY <1>1
<1>3. CalculateLineHeight(text.lines[n]) \in Nat
  BY <1>2, LineHeightType
<1> DEFINE added == AddMainLine(page, n)
<1>4. /\ added \in PageType
      /\ added.PageNumber = page.PageNumber
      /\ added.AllMainLines = Append(page.AllMainLines, n)
      /\ added.UsedHeight = page.UsedHeight + CalculateLineHeight(text.lines[n])
      /\ added.AllFootnotes = page.AllFootnotes
  <2>1. n \in Nat \ {0}
    BY <1>1
  <2> DEFINE longer == [page EXCEPT !.AllMainLines = Append(page.AllMainLines, n)]
  <2>2. /\ longer \in PageType
        /\ longer.PageNumber = page.PageNumber
        /\ longer.AllMainLines = Append(page.AllMainLines, n)
        /\ longer.UsedHeight = page.UsedHeight
        /\ longer.AllFootnotes = page.AllFootnotes
    <3>1. Append(page.AllMainLines, n) \in Seq(Nat \ {0})
      BY <2>1 DEF PageType
    <3>2. QED
      BY <3>1 DEF PageType
  <2>3. added = ReserveHeight(longer, CalculateLineHeight(text.lines[n]))
    BY DEF AddMainLine
  <2> HIDE DEF longer, added
  <2>4. longer.UsedHeight + CalculateLineHeight(text.lines[n]) \in Nat
    BY <1>3, <2>2 DEF PageType
  <2>5. /\ added \in PageType
        /\ added.PageNumber = longer.PageNumber
        /\ added.AllMainLines = longer.AllMainLines
        /\ added.UsedHeight = longer.UsedHeight + CalculateLineHeight(text.lines[n])
        /\ added.AllFootnotes = longer.AllFootnotes
    BY <2>2, <2>3, <2>4 DEF ReserveHeight, PageType
  <2>6. QED
    BY <2>2, <2>5
<1>5. ASSUME NEW s \in Systems
      PROVE  page.AllFootnotes[s] \o RemainingNotes(s) \in Seq(Nat \ {0})
  <2>1. RemainingNotes(s) \in Seq(Nat \ {0})
    <3>1. text.notes[s] \in Nat /\ noteIndex[s] \in Nat
          /\ noteIndex[s] <= text.notes[s]
      BY <1>1 DEF TypeOK
    <3>2. text.notes[s] - noteIndex[s] \in Nat
      BY <3>1
    <3>3. \A k \in 1..(text.notes[s] - noteIndex[s]) : noteIndex[s] + k \in Nat \ {0}
      BY <3>1
    <3>4. QED
      BY <3>2, <3>3 DEF RemainingNotes
  <2>2. page.AllFootnotes[s] \in Seq(Nat \ {0})
    BY DEF PageType
  <2>3. QED
    BY <2>1, <2>2
<1>6. AddFootnotesForLine(added) =
        [added EXCEPT !.AllFootnotes =
            [s \in Systems |-> page.AllFootnotes[s] \o RemainingNotes(s)]]
  BY <1>4 DEF AddFootnotesForLine
<1>7. [s \in Systems |-> page.AllFootnotes[s] \o RemainingNotes(s)]
        \in [Systems -> Seq(Nat \ {0})]
  BY <1>5
<1> HIDE DEF added
<1>8. QED
  <2>1. /\ AddFootnotesForLine(added) \in PageType
        /\ AddFootnotesForLine(added).PageNumber = added.PageNumber
        /\ AddFootnotesForLine(added).AllMainLines = added.AllMainLines
        /\ AddFootnotesForLine(added).UsedHeight = added.UsedHeight
        /\ AddFootnotesForLine(added).AllFootnotes =
             [s \in Systems |-> page.AllFootnotes[s] \o RemainingNotes(s)]
    BY <1>4, <1>6, <1>7 DEF PageType
  <2>2. QED
    BY <2>1, <1>4 DEF added

------------------------------------------------------------------------------
\* Type correctness.

\* Every step keeps every variable in its type.
LEMMA TypeStep == TypeOK /\ [Next]_vars => TypeOK'
<1> SUFFICES ASSUME TypeOK, [Next]_vars PROVE TypeOK'
  OBVIOUS
<1>0. text.lines \in Seq(Nat \ {0}) /\ text.notes \in [Systems -> Nat]
  BY TextsAssumption DEF TypeOK
<1>1. CASE PlaceLine
  <2>1. lineIndex + 1 \in 1..Len(text.lines)
    BY <1>0, <1>1 DEF PlaceLine, TypeOK
  <2>2. currentPage' \in PageType
    BY <1>1, <2>1, PlacedPage DEF PlaceLine, TypeOK
  <2>3. noteIndex' \in [Systems -> Nat] /\ \A s \in Systems : noteIndex'[s] <= text.notes[s]
    BY <1>0, <1>1 DEF PlaceLine
  <2>4. QED
    BY <1>1, <2>1, <2>2, <2>3 DEF PlaceLine, TypeOK
<1>2. CASE TurnPage
  <2>1. Len(pages) + 2 \in Nat \ {0}
    BY DEF TypeOK
  <2>2. currentPage' \in PageType
    BY <1>2, <2>1, NewPageType DEF TurnPage
  <2>3. QED
    BY <1>2, <2>2 DEF TurnPage, TypeOK
<1>3. CASE Return
  BY <1>3 DEF Return, TypeOK
<1>4. CASE UNCHANGED vars
  BY <1>4 DEF TypeOK, vars
<1>5. QED
  BY <1>1, <1>2, <1>3, <1>4 DEF Next, Returned

\* The initial states have their types.
LEMMA TypeInit == Init => TypeOK
<1> SUFFICES ASSUME Init PROVE TypeOK
  OBVIOUS
<1>1. text.lines \in Seq(Nat \ {0}) /\ text.notes \in [Systems -> Nat]
  BY TextsAssumption DEF Init
<1>2. CreateNewPage(1) \in PageType
  BY NewPageType
<1>3. QED
  BY <1>1, <1>2 DEF Init, TypeOK

\* Pagination is type correct.
THEOREM TypeCorrect == Spec => []TypeOK
<1>1. TypeOK /\ [Next]_vars => TypeOK'
  BY TypeStep
<1>2. QED
  BY TypeInit, <1>1, PTL DEF Spec

------------------------------------------------------------------------------
\* How each action changes the layout.

\* The layout is a sequence of pages that ends with the page being filled.
LEMMA LayoutType ==
    ASSUME TypeOK
    PROVE  /\ Layout \in Seq(PageType)
           /\ pc = "loop" => /\ Len(Layout) = Len(pages) + 1
                             /\ Layout[Len(pages) + 1] = currentPage
                             /\ \A k \in 1..Len(pages) : Layout[k] = pages[k]
           /\ pc = "returned" => Layout = pages
BY DEF TypeOK, Layout

\* The parts of a text that the actions read have their types.
LEMMA TextType ==
    ASSUME TypeOK
    PROVE  /\ text.lines \in Seq(Nat \ {0})
           /\ text.notes \in [Systems -> Nat]
           /\ \A n \in 1..Len(text.lines) : CalculateLineHeight(text.lines[n]) \in Nat
<1>1. text.lines \in Seq(Nat \ {0}) /\ text.notes \in [Systems -> Nat]
  BY TextsAssumption DEF TypeOK
<1>2. \A n \in 1..Len(text.lines) : text.lines[n] \in Nat
  BY <1>1
<1>3. QED
  BY <1>1, <1>2, LineHeightType

\* The numbers the actions compare.
LEMMA HeightsType == AvailableHeight \in Int
BY SizesAssumption DEF AvailableHeight

\* The guard that opens a page says that the line is too high, the other one
\* that it is not.
LEMMA FitMeaning ==
    ASSUME TypeOK, lineIndex < Len(text.lines)
    PROVE  FitsNext <=> ~NextTooHighFor(currentPage)
<1>1. lineIndex + 1 \in 1..Len(text.lines)
  BY TextType DEF TypeOK
<1>2. CalculateLineHeight(text.lines[lineIndex + 1]) \in Nat
  BY <1>1, TextType
<1>3. currentPage.UsedHeight \in Nat
  BY DEF TypeOK, PageType
<1>4. QED
  BY <1>2, <1>3, HeightsType DEF FitsNext, NextTooHighFor, RemainingHeight

\* PlaceLine changes the last page of the layout only.
LEMMA LayoutPlaced ==
    ASSUME TypeOK, PlaceLine
    PROVE  LET k == Len(pages) + 1
           IN  /\ Len(Layout) = k /\ Len(Layout') = k /\ k \in Nat \ {0}
               /\ \A m \in 1..Len(pages) : Layout'[m] = Layout[m]
               /\ Layout[k] = currentPage
               /\ Layout'[k].PageNumber = Layout[k].PageNumber
               /\ Layout'[k].AllMainLines = Append(Layout[k].AllMainLines, lineIndex + 1)
               /\ Layout'[k].UsedHeight =
                      Layout[k].UsedHeight
                        + CalculateLineHeight(text.lines[lineIndex + 1])
               /\ Layout'[k].AllFootnotes =
                      [s \in Systems |-> Layout[k].AllFootnotes[s] \o RemainingNotes(s)]
               /\ lineIndex + 1 \in 1..Len(text.lines)
               /\ lineIndex' = lineIndex + 1 /\ text' = text
               /\ pc = "loop" /\ pc' = "loop"
               /\ ~NextTooHighFor(Layout[k])
<1>1. lineIndex + 1 \in 1..Len(text.lines)
  BY TextType DEF TypeOK, PlaceLine
<1>2. TypeOK'
  BY TypeStep DEF Next
<1>3. /\ Len(Layout') = Len(pages) + 1
      /\ Layout'[Len(pages) + 1] = currentPage'
      /\ \A m \in 1..Len(pages) : Layout'[m] = pages[m]
  <2>1. pages' = pages /\ pc' = "loop"
    BY DEF PlaceLine
  <2>2. Layout' = Append(pages, currentPage')
    BY <2>1 DEF Layout
  <2>3. pages \in Seq(PageType) /\ currentPage' \in PageType
    BY <1>2 DEF TypeOK, PlaceLine
  <2>4. QED
    BY <2>2, <2>3
<1>4. ~NextTooHighFor(currentPage)
  BY FitMeaning DEF PlaceLine
<1>5. currentPage \in PageType
  BY DEF TypeOK
<1>6. Len(pages) \in Nat
  BY DEF TypeOK
<1>7. currentPage' = AddFootnotesForLine(AddMainLine(currentPage, lineIndex + 1))
  BY DEF PlaceLine
<1>8. /\ currentPage'.PageNumber = currentPage.PageNumber
      /\ currentPage'.AllMainLines = Append(currentPage.AllMainLines, lineIndex + 1)
      /\ currentPage'.UsedHeight =
             currentPage.UsedHeight + CalculateLineHeight(text.lines[lineIndex + 1])
      /\ currentPage'.AllFootnotes =
             [s \in Systems |-> currentPage.AllFootnotes[s] \o RemainingNotes(s)]
  BY <1>1, <1>5, <1>7, PlacedPage
<1>9. lineIndex' = lineIndex + 1 /\ text' = text /\ pc = "loop" /\ pc' = "loop"
  BY DEF PlaceLine
<1>10. /\ Len(Layout) = Len(pages) + 1
       /\ Layout[Len(pages) + 1] = currentPage
       /\ \A m \in 1..Len(pages) : Layout[m] = pages[m]
  BY <1>9, LayoutType
<1>11. QED
  BY <1>1, <1>3, <1>4, <1>6, <1>8, <1>9, <1>10

\* TurnPage adds an empty page to the layout.
LEMMA LayoutTurned ==
    ASSUME TypeOK, TurnPage
    PROVE  LET k == Len(pages) + 1
           IN  /\ Len(Layout) = k /\ Len(Layout') = k + 1 /\ k \in Nat \ {0}
               /\ \A m \in 1..k : Layout'[m] = Layout[m]
               /\ Layout'[k + 1].PageNumber = k + 1
               /\ Layout'[k + 1].AllMainLines = <<>>
               /\ Layout'[k + 1].UsedHeight = 0
               /\ \A s \in Systems : Layout'[k + 1].AllFootnotes[s] = <<>>
               /\ lineIndex' = lineIndex /\ text' = text /\ noteIndex' = noteIndex
               /\ pc = "loop" /\ pc' = "loop"
               /\ NextTooHighFor(Layout[k])
<1>1. TypeOK'
  BY TypeStep DEF Next
<1>2. /\ pages' = Append(pages, currentPage)
      /\ currentPage' = CreateNewPage(Len(pages) + 2)
      /\ pc = "loop" /\ pc' = "loop"
      /\ lineIndex' = lineIndex /\ text' = text /\ noteIndex' = noteIndex
  BY DEF TurnPage
<1>3. pages \in Seq(PageType) /\ currentPage \in PageType
  BY DEF TypeOK
<1>4. /\ Len(Layout) = Len(pages) + 1
      /\ Layout = pages'
  BY <1>2, <1>3 DEF Layout
<1>5. /\ Len(Layout') = Len(pages') + 1
      /\ Layout'[Len(pages') + 1] = currentPage'
      /\ \A m \in 1..Len(pages') : Layout'[m] = pages'[m]
  <2>1. pages' \in Seq(PageType) /\ currentPage' \in PageType
    BY <1>1 DEF TypeOK
  <2>2. Layout' = Append(pages', currentPage')
    BY <1>2 DEF Layout
  <2>3. QED
    BY <2>1, <2>2
<1>6. Len(pages') = Len(pages) + 1 /\ Len(pages) \in Nat
  BY <1>2, <1>3
<1>7. NextTooHighFor(currentPage)
  BY FitMeaning DEF TurnPage
<1>8. Layout[Len(pages) + 1] = currentPage
  BY <1>2, LayoutType
<1>9. /\ currentPage'.PageNumber = Len(pages) + 2
      /\ currentPage'.AllMainLines = <<>>
      /\ currentPage'.UsedHeight = 0
      /\ \A s \in Systems : currentPage'.AllFootnotes[s] = <<>>
  <2>1. Len(pages) + 2 \in Nat \ {0}
    BY <1>6
  <2>2. QED
    BY <1>2, <2>1, NewPageType
<1>10. QED
  BY <1>2, <1>4, <1>5, <1>6, <1>7, <1>8, <1>9

\* Return leaves the layout as it is, unless there was nothing to lay out.
LEMMA LayoutReturned ==
    ASSUME TypeOK, OpenPageInv, Return
    PROVE  /\ pc = "loop" /\ pc' = "returned" /\ Layout' = pages'
           /\ lineIndex = Len(text.lines)
           /\ lineIndex' = lineIndex /\ text' = text /\ noteIndex' = noteIndex
           /\ \/ /\ Layout' = Layout
                 /\ Layout[Len(Layout)].AllMainLines # <<>>
              \/ Layout' = <<>> /\ Len(Layout) = 1 /\ lineIndex = 0
<1>1. /\ pc = "loop" /\ pc' = "returned" /\ lineIndex = Len(text.lines)
      /\ lineIndex' = lineIndex /\ text' = text /\ noteIndex' = noteIndex
  BY DEF Return
<1>2. Layout' = pages'
  BY <1>1 DEF Layout
<1>3. /\ Len(Layout) = Len(pages) + 1
      /\ Layout[Len(pages) + 1] = currentPage
      /\ Layout = Append(pages, currentPage)
      /\ Len(pages) \in Nat
  BY <1>1, LayoutType DEF Layout, TypeOK
<1>4. CASE currentPage.AllMainLines # <<>>
  BY <1>1, <1>2, <1>3, <1>4 DEF Return
<1>5. CASE currentPage.AllMainLines = <<>>
  <2>1. pages' = pages
    BY <1>5 DEF Return
  <2>2. Len(Layout) = 1 /\ lineIndex = 0
    <3>1. lineIndex = Len(text.lines) /\ lineIndex \in Nat
      BY <1>1, TextType DEF TypeOK
    <3>2. ~(lineIndex < Len(text.lines))
      BY <3>1
    <3>3. LinesOf(Len(Layout)) = <<>>
      BY <1>3, <1>5 DEF LinesOf
    <3>4. QED
      BY <1>1, <3>2, <3>3 DEF OpenPageInv, NextTooHighFor
  <2>3. pages = <<>>
    BY <2>2, <1>3 DEF TypeOK
  <2>4. QED
    BY <1>1, <1>2, <2>1, <2>2, <2>3
<1>6. QED
  BY <1>4, <1>5

------------------------------------------------------------------------------
\* The inductive step.

\* Placing a line keeps the safety invariant.
LEMMA SafetyPlace == SafetyInv /\ PlaceLine => SafetyInv'
<1> SUFFICES ASSUME SafetyInv, PlaceLine PROVE SafetyInv'
  OBVIOUS
<1> USE DEF LinesOf, LastOf, NotesOnPage
<1> DEFINE k == Len(pages) + 1
<1> DEFINE h == CalculateLineHeight(text.lines[lineIndex + 1])
<1>1. TypeOK
  BY DEF SafetyInv
<1>2. TypeOK'
  BY <1>1, TypeStep DEF Next
<1>3. /\ Len(Layout) = k /\ Len(Layout') = k /\ k \in Nat \ {0}
      /\ \A m \in 1..(k - 1) : Layout'[m] = Layout[m]
      /\ Layout'[k].PageNumber = Layout[k].PageNumber
      /\ Layout'[k].AllMainLines = Append(Layout[k].AllMainLines, lineIndex + 1)
      /\ Layout'[k].UsedHeight = Layout[k].UsedHeight + h
      /\ Layout'[k].AllFootnotes =
            [s \in Systems |-> Layout[k].AllFootnotes[s] \o RemainingNotes(s)]
      /\ lineIndex + 1 \in 1..Len(text.lines)
      /\ lineIndex' = lineIndex + 1 /\ text' = text
      /\ pc = "loop" /\ pc' = "loop"
      /\ ~NextTooHighFor(Layout[k])
  <2>1. Len(pages) \in Nat
    BY <1>1 DEF TypeOK
  <2>2. k - 1 = Len(pages)
    BY <2>1
  <2>3. QED
    BY <1>1, <2>2, LayoutPlaced
<1>4. /\ Layout \in Seq(PageType) /\ Layout' \in Seq(PageType)
      /\ DOMAIN Layout = 1..k /\ DOMAIN Layout' = 1..k
  <2>1. Layout \in Seq(PageType)
    BY <1>1, LayoutType
  <2>2. Layout' \in Seq(PageType)
    BY <1>2 DEF TypeOK, Layout
  <2>3. QED
    BY <2>1, <2>2, <1>3
<1>5. lineIndex \in Nat /\ h \in Nat /\ AvailableHeight \in Int
      /\ text.lines \in Seq(Nat \ {0}) /\ text.notes \in [Systems -> Nat]
  BY <1>1, <1>3, TextType, HeightsType DEF TypeOK
<1>6. \A m \in 1..k : /\ Layout[m].AllMainLines \in Seq(Nat \ {0})
                      /\ Layout[m].UsedHeight \in Nat
                      /\ Layout[m].AllFootnotes \in [Systems -> Seq(Nat \ {0})]
  <2>1. \A m \in 1..k : Layout[m] \in PageType
    BY <1>4
  <2>2. QED
    BY <2>1 DEF PageType
<1> HIDE DEF k, h
<1>6a. /\ Layout'[k].AllMainLines # <<>>
       /\ Layout'[k].AllMainLines[Len(Layout'[k].AllMainLines)] = lineIndex + 1
       /\ Layout[k].AllMainLines # <<>> =>
              Layout'[k].AllMainLines[1] = Layout[k].AllMainLines[1]
  <2>1. Layout[k].AllMainLines \in Seq(Nat \ {0})
    BY <1>3, <1>6
  <2>2. Layout'[k].AllMainLines = Append(Layout[k].AllMainLines, lineIndex + 1)
    BY <1>3
  <2>3. QED
    BY <2>1, <2>2, <1>5, AppendFacts
<1>7. Layout[k].UsedHeight + h <= AvailableHeight
  BY <1>3, <1>5, <1>6 DEF NextTooHighFor, h
<1>8. \A m \in 1..(k - 1) : Layout[m].AllMainLines # <<>>
  <2> SUFFICES ASSUME NEW m \in 1..(k - 1), Layout[m].AllMainLines = <<>>
               PROVE  FALSE
    OBVIOUS
  <2>1. NextTooHighFor(Layout[k])
    BY <1>3 DEF SafetyInv, EmptyPagesInv
  <2>2. QED
    BY <2>1, <1>3
<1>9. Layout[k].AllMainLines # <<>> =>
        Layout[k].AllMainLines[Len(Layout[k].AllMainLines)] = lineIndex
  BY <1>3 DEF SafetyInv, OpenPageInv
<1>10. PositionsInv'
  <2> SUFFICES ASSUME NEW m \in 1..k, NEW j \in DOMAIN Layout'[m].AllMainLines
               PROVE  Layout'[m].AllMainLines[j] \in 1..(lineIndex + 1)
    BY <1>3, <1>4 DEF PositionsInv
  <2>1. \A i \in DOMAIN Layout[m].AllMainLines :
            Layout[m].AllMainLines[i] \in 1..lineIndex
    BY <1>4 DEF SafetyInv, PositionsInv
  <2>2. CASE m = k
    <3>1. Layout'[k].AllMainLines = Append(Layout[k].AllMainLines, lineIndex + 1)
      BY <1>3
    <3>2. Layout[k].AllMainLines \in Seq(Nat \ {0})
      BY <1>3, <1>6
    <3>3. \/ j \in DOMAIN Layout[k].AllMainLines
             /\ Layout'[k].AllMainLines[j] = Layout[k].AllMainLines[j]
          \/ Layout'[k].AllMainLines[j] = lineIndex + 1
      BY <2>2, <3>1, <3>2
    <3>4. QED
      BY <2>1, <2>2, <3>3, <1>5
  <2>3. CASE m # k
    <3>1. Layout'[m] = Layout[m]
      BY <2>3, <1>3
    <3>2. QED
      BY <2>1, <3>1, <1>5
  <2>4. QED
    BY <2>2, <2>3
<1>11. MainTextFits'
  <2> SUFFICES ASSUME NEW m \in 1..k, Layout'[m].AllMainLines # <<>>
               PROVE  Layout'[m].UsedHeight <= AvailableHeight
    BY <1>4 DEF MainTextFits
  <2>1. CASE m = k
    BY <2>1, <1>3, <1>7
  <2>2. CASE m # k
    <3>1. Layout'[m] = Layout[m] /\ m \in DOMAIN Layout
      BY <2>2, <1>3, <1>4
    <3>2. MainTextFits
      BY DEF SafetyInv
    <3>3. QED
      BY <3>1, <3>2 DEF MainTextFits
  <2>3. QED
    BY <2>1, <2>2
<1>12. LinesInOrder'
  <2>1. ASSUME NEW m \in 1..k, NEW j \in 1..(Len(Layout'[m].AllMainLines) - 1)
        PROVE  Layout'[m].AllMainLines[j + 1] = Layout'[m].AllMainLines[j] + 1
    <3>1. \A i \in 1..(Len(Layout[m].AllMainLines) - 1) :
              Layout[m].AllMainLines[i + 1] = Layout[m].AllMainLines[i] + 1
      BY <1>4 DEF SafetyInv, LinesInOrder
    <3>2. CASE m = k
      <4>1. CASE j < Len(Layout[k].AllMainLines)
        BY <4>1, <3>1, <3>2, <1>3, <1>6
      <4>2. CASE j = Len(Layout[k].AllMainLines)
        <5>1. Layout[k].AllMainLines # <<>>
          BY <3>2, <4>2, <1>3, <1>6
        <5>2. QED
          BY <5>1, <4>2, <3>2, <1>3, <1>6, <1>9
      <4>3. j \in 1..Len(Layout[k].AllMainLines)
        <5>1. Layout'[m].AllMainLines = Append(Layout[k].AllMainLines, lineIndex + 1)
          BY <3>2, <1>3
        <5>2. Layout[k].AllMainLines \in Seq(Nat \ {0})
          BY <1>3, <1>6
        <5>3. QED
          BY <5>1, <5>2
      <4>4. Len(Layout[k].AllMainLines) \in Nat
        BY <1>3, <1>6
      <4>5. QED
        BY <4>1, <4>2, <4>3, <4>4
    <3>3. CASE m # k
      BY <3>1, <3>3, <1>3
    <3>4. QED
      BY <3>2, <3>3
  <2>2. ASSUME NEW m \in 1..(k - 1),
               Layout'[m].AllMainLines # <<>>, Layout'[m + 1].AllMainLines # <<>>
        PROVE  Layout'[m + 1].AllMainLines[1]
                 = Layout'[m].AllMainLines[Len(Layout'[m].AllMainLines)] + 1
    <3>1. Layout'[m] = Layout[m] /\ Layout[m].AllMainLines # <<>>
      BY <1>3, <1>8
    <3>2. Layout[m + 1].AllMainLines # <<>> =>
              Layout[m + 1].AllMainLines[1]
                = Layout[m].AllMainLines[Len(Layout[m].AllMainLines)] + 1
      BY <3>1, <1>3 DEF SafetyInv, LinesInOrder
    <3>3. CASE m + 1 = k /\ Layout[k].AllMainLines = <<>>
      <4>1. k # 1
        BY <3>3, <1>3
      <4>2. m = k - 1
        BY <3>3, <1>3
      <4>3. Layout[m].AllMainLines[Len(Layout[m].AllMainLines)] = lineIndex
        BY <4>1, <4>2, <3>1, <3>3, <1>3 DEF SafetyInv, OpenPageInv
      <4>4. Layout'[m + 1].AllMainLines = <<lineIndex + 1>>
        BY <3>3, <1>3
      <4>5. QED
        BY <4>3, <4>4, <3>1
    <3>4. CASE m + 1 = k /\ Layout[k].AllMainLines # <<>>
      <4>1. Layout'[k].AllMainLines[1] = Layout[k].AllMainLines[1]
        BY <3>4, <1>3, <1>6
      <4>2. QED
        BY <4>1, <3>1, <3>2, <3>4
    <3>5. CASE m + 1 # k
      <4>1. m + 1 \in 1..(k - 1)
        BY <3>5, <1>3
      <4>2. Layout'[m + 1] = Layout[m + 1]
        BY <4>1, <1>3
      <4>3. QED
        BY <4>2, <3>1, <3>2, <2>2
    <3>6. QED
      BY <3>3, <3>4, <3>5
  <2>3. \E m \in 1..k : Layout'[m].AllMainLines # <<>> /\ Layout'[m].AllMainLines[1] = 1
    <3>1. CASE lineIndex = 0
      <4>1. Layout[k].AllMainLines = <<>>
        <5>1. \A j \in DOMAIN Layout[k].AllMainLines :
                  Layout[k].AllMainLines[j] \in 1..lineIndex
          <6>1. k \in DOMAIN Layout
            BY <1>3, <1>4
          <6>2. PositionsInv
            BY DEF SafetyInv
          <6>3. QED
            BY <6>1, <6>2 DEF PositionsInv
        <5>2. DOMAIN Layout[k].AllMainLines = {}
          BY <5>1, <3>1
        <5>3. Layout[k].AllMainLines \in Seq(Nat \ {0})
          BY <1>3, <1>6
        <5>4. QED
          BY <5>2, <5>3, NoPositions
      <4>2. Layout'[k].AllMainLines = <<1>>
        BY <4>1, <3>1, <1>3
      <4>3. QED
        BY <4>2, <1>3
    <3>2. CASE lineIndex > 0
      <4>1. PICK m \in 1..k : Layout[m].AllMainLines # <<>> /\ Layout[m].AllMainLines[1] = 1
        BY <3>2, <1>4 DEF SafetyInv, LinesInOrder
      <4>2. CASE m = k
        <5>1. Layout'[k].AllMainLines[1] = 1 /\ Layout'[k].AllMainLines # <<>>
          BY <4>1, <4>2, <1>3, <1>6
        <5>2. QED
          BY <5>1, <1>3
      <4>3. CASE m # k
        <5>1. Layout'[m] = Layout[m]
          BY <4>3, <1>3
        <5>2. QED
          BY <4>1, <5>1
      <4>4. QED
        BY <4>2, <4>3
    <3>3. QED
      BY <3>1, <3>2, <1>5
  <2>4. \E m \in 1..k :
           /\ Layout'[m].AllMainLines # <<>>
           /\ Layout'[m].AllMainLines[Len(Layout'[m].AllMainLines)] = lineIndex + 1
    BY <1>3, <1>6a
  <2>5. DOMAIN Layout' = 1..k /\ Len(Layout') = k /\ lineIndex' = lineIndex + 1
    BY <1>3, <1>4
  <2>6. QED
    BY <2>1, <2>2, <2>3, <2>4, <2>5 DEF LinesInOrder
<1>13. NumberedInOrder'
  BY <1>3, <1>4 DEF SafetyInv, NumberedInOrder
<1>14. GreedyFit'
  <2> SUFFICES ASSUME NEW m \in 1..(k - 1), Layout'[m + 1].AllMainLines # <<>>
               PROVE  Layout'[m].UsedHeight
                        + CalculateLineHeight(text.lines[Layout'[m + 1].AllMainLines[1]])
                          > AvailableHeight
    <3>1. \A n : CalculateLineHeight(n)' = CalculateLineHeight(n)
      BY DEF CalculateLineHeight
    <3>2. AvailableHeight' = AvailableHeight
      BY DEF AvailableHeight
    <3>3. QED
      BY <1>3 DEF GreedyFit, CalculateLineHeight, AvailableHeight
  <2>1. Layout'[m] = Layout[m]
    BY <1>3
  <2>2. CASE Layout[m + 1].AllMainLines # <<>>
    <3>1. Layout'[m + 1].AllMainLines[1] = Layout[m + 1].AllMainLines[1]
      <4>1. CASE m + 1 = k
        BY <4>1, <2>2, <1>6a
      <4>2. CASE m + 1 # k
        BY <4>2, <1>3
      <4>3. QED
        BY <4>1, <4>2
    <3>2. QED
      BY <3>1, <2>1, <2>2, <1>3 DEF SafetyInv, GreedyFit
  <2>3. CASE Layout[m + 1].AllMainLines = <<>>
    <3>1. m + 1 = k
      <4>1. m + 1 \in 1..k
        BY <1>3
      <4>2. QED
        BY <4>1, <2>3, <1>3, <1>8
    <3>2. Layout'[m + 1].AllMainLines = <<lineIndex + 1>>
      BY <3>1, <2>3, <1>3
    <3>3. NextTooHighFor(Layout[k - 1])
      <4>1. k # 1
        BY <3>1, <1>3
      <4>2. QED
        BY <4>1, <3>1, <2>3, <1>3 DEF SafetyInv, OpenPageInv
    <3>4. m = k - 1
      BY <3>1, <1>3
    <3>5. QED
      BY <3>2, <3>3, <3>4, <2>1 DEF NextTooHighFor
  <2>4. QED
    BY <2>2, <2>3
<1>15. OpenPageInv'
  BY <1>3, <1>6a DEF OpenPageInv
<1>16. EmptyPagesInv'
  BY <1>3, <1>8 DEF EmptyPagesInv
<1>17. NoteIndexInv' /\ NotesExactlyOnce'
  <2>1. noteIndex' = [s \in Systems |-> text.notes[s]] /\ lineIndex' # 0
    BY <1>3, <1>5 DEF PlaceLine
  <2>2. NoteIndexInv'
    BY <2>1, <1>3 DEF NoteIndexInv
  <2>3. ASSUME NEW s \in Systems, text.notes[s] # 0
        PROVE  \E m \in 1..k :
                  /\ {i \in 1..k : Layout'[i].AllFootnotes[s] # <<>>} = {m}
                  /\ Layout'[m].AllFootnotes[s] = [n \in 1..text.notes[s] |-> n]
    <3> DEFINE all == [n \in 1..text.notes[s] |-> n]
    <3>1. all \in Seq(Nat) /\ all # <<>> /\ Len(all) = text.notes[s]
      BY <2>3, <1>5
    <3> HIDE DEF all
    <3>2. Layout[k].AllFootnotes[s] \in Seq(Nat \ {0})
      BY <1>3, <1>6
    <3>3. Layout'[k].AllFootnotes[s] = Layout[k].AllFootnotes[s] \o RemainingNotes(s)
      BY <1>3
    <3>4. CASE lineIndex = 0
      <4>1. RemainingNotes(s) = all
        <5>1. noteIndex[s] = 0
          BY <3>4 DEF SafetyInv, NoteIndexInv
        <5>2. QED
          BY <5>1, <1>5 DEF RemainingNotes, all
      <4>2. \A i \in 1..k : Layout[i].AllFootnotes[s] = <<>>
        BY <3>4, <1>4 DEF SafetyInv, NotesExactlyOnce
      <4>3. Layout'[k].AllFootnotes[s] = all
        <5>1. <<>> \o all = all
          BY <3>1, ConcatEmpty
        <5>2. Layout[k].AllFootnotes[s] = <<>>
          BY <4>2, <1>3
        <5>3. QED
          BY <5>1, <5>2, <4>1, <3>3
      <4>4. \A i \in 1..(k - 1) : Layout'[i].AllFootnotes[s] = <<>>
        BY <4>2, <1>3
      <4>5. {i \in 1..k : Layout'[i].AllFootnotes[s] # <<>>} = {k}
        BY <4>3, <4>4, <3>1, <1>3
      <4>6. QED
        BY <4>3, <4>5, <1>3 DEF all
    <3>5. CASE lineIndex # 0
      <4>1. RemainingNotes(s) = <<>>
        <5>1. noteIndex[s] = text.notes[s]
          BY <3>5 DEF SafetyInv, NoteIndexInv
        <5>2. QED
          BY <5>1, <1>5 DEF RemainingNotes
      <4>2. Layout'[k].AllFootnotes[s] = Layout[k].AllFootnotes[s]
        BY <4>1, <3>2, <3>3, ConcatEmpty
      <4>3. ASSUME NEW i \in 1..k
            PROVE  Layout'[i].AllFootnotes[s] = Layout[i].AllFootnotes[s]
        <5>1. CASE i = k
          BY <4>2, <5>1
        <5>2. CASE i # k
          <6>1. i \in 1..(k - 1)
            BY <5>2, <1>3
          <6>2. QED
            BY <6>1, <1>3
        <5>3. QED
          BY <5>1, <5>2
      <4>4. \E m \in 1..k :
                /\ {i \in 1..k : Layout[i].AllFootnotes[s] # <<>>} = {m}
                /\ Layout[m].AllFootnotes[s] = [n \in 1..text.notes[s] |-> n]
        BY <3>5, <2>3, <1>4 DEF SafetyInv, NotesExactlyOnce
      <4>5. QED
        BY <4>3, <4>4
    <3>6. QED
      BY <3>4, <3>5
  <2>4. ASSUME NEW s \in Systems, text.notes[s] = 0
        PROVE  {i \in 1..k : Layout'[i].AllFootnotes[s] # <<>>} = {}
    <3>1. RemainingNotes(s) = <<>>
      <4>1. noteIndex[s] = 0
        BY <2>4 DEF SafetyInv, NoteIndexInv
      <4>2. QED
        BY <4>1, <2>4 DEF RemainingNotes
    <3>2. \A i \in 1..k : Layout[i].AllFootnotes[s] = <<>>
      BY <2>4, <1>4 DEF SafetyInv, NotesExactlyOnce
    <3>3. Layout'[k].AllFootnotes[s] = <<>>
      BY <3>1, <3>2, <1>3
    <3>4. QED
      BY <3>2, <3>3, <1>3
  <2>5. NotesExactlyOnce'
    <3>1. /\ DOMAIN Layout' = 1..k /\ text' = text
          /\ ~(lineIndex' = 0)
      BY <1>3, <1>4, <1>5
    <3>2. QED
      BY <3>1, <2>3, <2>4 DEF NotesExactlyOnce
  <2>6. QED
    BY <2>2, <2>5
<1>18. ReturnedInv'
  BY <1>3 DEF ReturnedInv
<1>19. QED
  BY <1>2, <1>10, <1>11, <1>12, <1>13, <1>14, <1>15, <1>16, <1>17, <1>18 DEF SafetyInv

\* Turning a page keeps the safety invariant.
LEMMA SafetyTurn == SafetyInv /\ TurnPage => SafetyInv'
<1> SUFFICES ASSUME SafetyInv, TurnPage PROVE SafetyInv'
  OBVIOUS
<1> USE DEF LinesOf, LastOf, NotesOnPage
<1>0. PICK k : k = Len(pages) + 1
  OBVIOUS
<1>1. TypeOK
  BY DEF SafetyInv
<1>2. TypeOK'
  BY <1>1, TypeStep DEF Next
<1>3. /\ Len(Layout) = k /\ Len(Layout') = k + 1 /\ k \in Nat \ {0}
      /\ \A m \in 1..k : Layout'[m] = Layout[m]
      /\ Layout'[k + 1].PageNumber = k + 1
      /\ Layout'[k + 1].AllMainLines = <<>>
      /\ Layout'[k + 1].UsedHeight = 0
      /\ \A s \in Systems : Layout'[k + 1].AllFootnotes[s] = <<>>
      /\ lineIndex' = lineIndex /\ text' = text /\ noteIndex' = noteIndex
      /\ pc = "loop" /\ pc' = "loop"
      /\ NextTooHighFor(Layout[k])
  BY <1>0, <1>1, LayoutTurned
<1>4. DOMAIN Layout = 1..k /\ DOMAIN Layout' = 1..(k + 1)
  <2>1. Layout \in Seq(PageType)
    BY <1>1, LayoutType
  <2>2. Layout' \in Seq(PageType)
    BY <1>2 DEF TypeOK, Layout
  <2>3. QED
    BY <2>1, <2>2, <1>3
<1>5. \A m \in 1..(k + 1) : m = k + 1 \/ m \in 1..k
  BY <1>3
<1>6. NextTooHighFor(Layout[k])'
  <2>1. Layout'[k] = Layout[k]
    BY <1>3
  <2>2. QED
    BY <2>1, <1>3
    DEF NextTooHighFor, CalculateLineHeight, AvailableHeight
<1>7. PositionsInv'
  <2> SUFFICES ASSUME NEW m \in 1..(k + 1), NEW j \in DOMAIN Layout'[m].AllMainLines
               PROVE  Layout'[m].AllMainLines[j] \in 1..lineIndex
    BY <1>3, <1>4 DEF PositionsInv
  <2>1. CASE m = k + 1
    BY <2>1, <1>3
  <2>2. CASE m \in 1..k
    BY <2>2, <1>3, <1>4 DEF SafetyInv, PositionsInv
  <2>3. QED
    BY <2>1, <2>2, <1>5
<1>8. MainTextFits'
  <2> SUFFICES ASSUME NEW m \in 1..(k + 1), Layout'[m].AllMainLines # <<>>
               PROVE  Layout'[m].UsedHeight <= AvailableHeight
    BY <1>4 DEF MainTextFits
  <2>1. m \in 1..k
    BY <1>3, <1>5
  <2>2. QED
    BY <2>1, <1>3, <1>4 DEF SafetyInv, MainTextFits
<1>9. LinesInOrder'
  <2>1. ASSUME NEW m \in 1..(k + 1), NEW j \in 1..(Len(Layout'[m].AllMainLines) - 1)
        PROVE  Layout'[m].AllMainLines[j + 1] = Layout'[m].AllMainLines[j] + 1
    <3>1. CASE m = k + 1
      <4>1. Len(Layout'[m].AllMainLines) = 0
        BY <3>1, <1>3
      <4>2. QED
        BY <4>1, <2>1
    <3>2. CASE m \in 1..k
      <4>1. Layout'[m] = Layout[m] /\ m \in DOMAIN Layout
        BY <3>2, <1>3, <1>4
      <4>2. LinesInOrder
        BY DEF SafetyInv
      <4>3. QED
        BY <4>1, <4>2 DEF LinesInOrder
    <3>3. QED
      BY <3>1, <3>2, <1>5
  <2>2. ASSUME NEW m \in 1..k,
               Layout'[m].AllMainLines # <<>>, Layout'[m + 1].AllMainLines # <<>>
        PROVE  Layout'[m + 1].AllMainLines[1]
                 = Layout'[m].AllMainLines[Len(Layout'[m].AllMainLines)] + 1
    <3>1. m \in 1..(k - 1) /\ m + 1 \in 1..k
      BY <2>2, <1>3
    <3>2. Layout'[m] = Layout[m] /\ Layout'[m + 1] = Layout[m + 1]
      BY <3>1, <1>3
    <3>3. QED
      BY <2>2, <3>1, <3>2, <1>3 DEF SafetyInv, LinesInOrder
  <2>3. ASSUME lineIndex > 0
        PROVE  /\ \E m \in 1..(k + 1) : /\ Layout'[m].AllMainLines # <<>>
                                        /\ Layout'[m].AllMainLines[1] = 1
               /\ \E m \in 1..(k + 1) :
                     /\ Layout'[m].AllMainLines # <<>>
                     /\ Layout'[m].AllMainLines[Len(Layout'[m].AllMainLines)] = lineIndex
    <3>1. /\ \E m \in 1..k : /\ Layout[m].AllMainLines # <<>>
                             /\ Layout[m].AllMainLines[1] = 1
          /\ \E m \in 1..k :
                /\ Layout[m].AllMainLines # <<>>
                /\ Layout[m].AllMainLines[Len(Layout[m].AllMainLines)] = lineIndex
      BY <2>3, <1>4 DEF SafetyInv, LinesInOrder
    <3>2. \A m \in 1..k : m \in 1..(k + 1) /\ Layout'[m] = Layout[m]
      BY <1>3
    <3>3. QED
      BY <3>1, <3>2
  <2>4. DOMAIN Layout' = 1..(k + 1) /\ Len(Layout') - 1 = k /\ lineIndex' = lineIndex
    BY <1>3, <1>4
  <2>5. QED
    BY <2>1, <2>2, <2>3, <2>4 DEF LinesInOrder
<1>10. NumberedInOrder'
  <2> SUFFICES ASSUME NEW m \in 1..(k + 1) PROVE Layout'[m].PageNumber = m
    BY <1>4 DEF NumberedInOrder
  <2>1. CASE m \in 1..k
    BY <2>1, <1>3, <1>4 DEF SafetyInv, NumberedInOrder
  <2>2. QED
    BY <2>1, <1>3, <1>5
<1>11. NotesExactlyOnce'
  <2> SUFFICES ASSUME NEW s \in Systems
               PROVE  {m \in 1..(k + 1) : Layout'[m].AllFootnotes[s] # <<>>}
                        = {m \in 1..k : Layout[m].AllFootnotes[s] # <<>>}
    <3>1. \A s \in Systems :
             IF lineIndex = 0 \/ text.notes[s] = 0
               THEN {m \in 1..k : Layout[m].AllFootnotes[s] # <<>>} = {}
               ELSE \E m \in 1..k :
                        /\ {i \in 1..k : Layout[i].AllFootnotes[s] # <<>>} = {m}
                        /\ Layout[m].AllFootnotes[s] = [n \in 1..text.notes[s] |-> n]
      BY <1>4 DEF SafetyInv, NotesExactlyOnce
    <3>2. \A m \in 1..k : m \in 1..(k + 1) /\ Layout'[m] = Layout[m]
      BY <1>3
    <3>3. \A s \in Systems :
             IF lineIndex = 0 \/ text.notes[s] = 0
               THEN {m \in 1..(k + 1) : Layout'[m].AllFootnotes[s] # <<>>} = {}
               ELSE \E m \in 1..(k + 1) :
                        /\ {i \in 1..(k + 1) : Layout'[i].AllFootnotes[s] # <<>>} = {m}
                        /\ Layout'[m].AllFootnotes[s] = [n \in 1..text.notes[s] |-> n]
      BY <3>1, <3>2
    <3>4. QED
      BY <3>3, <1>3, <1>4 DEF NotesExactlyOnce
  <2>1. Layout'[k + 1].AllFootnotes[s] = <<>>
    BY <1>3
  <2>2. \A m \in 1..k : m \in 1..(k + 1) /\ Layout'[m] = Layout[m]
    BY <1>3
  <2>3. QED
    BY <2>1, <2>2, <1>5
<1>12. GreedyFit'
  <2> SUFFICES ASSUME NEW m \in 1..k, Layout'[m + 1].AllMainLines # <<>>
               PROVE  Layout'[m].UsedHeight
                        + CalculateLineHeight(text.lines[Layout'[m + 1].AllMainLines[1]])
                          > AvailableHeight
    <3>1. Len(Layout') - 1 = k /\ text' = text
      BY <1>3
    <3>2. QED
      BY <3>1 DEF GreedyFit, CalculateLineHeight, AvailableHeight
  <2>1. m \in 1..(k - 1) /\ m + 1 \in 1..k
    BY <1>3
  <2>2. Layout'[m] = Layout[m] /\ Layout'[m + 1] = Layout[m + 1]
    BY <2>1, <1>3
  <2>3. QED
    BY <2>1, <2>2, <1>3 DEF SafetyInv, GreedyFit
<1>13. OpenPageInv'
  <2>1. Layout[k].AllMainLines # <<>> =>
           Layout[k].AllMainLines[Len(Layout[k].AllMainLines)] = lineIndex
    BY <1>3 DEF SafetyInv, OpenPageInv
  <2>2. Layout'[k] = Layout[k] /\ k + 1 # 1 /\ (k + 1) - 1 = k
    BY <1>3
  <2>3. QED
    BY <2>1, <2>2, <1>3, <1>6 DEF OpenPageInv
<1>14. EmptyPagesInv'
  <2> SUFFICES ASSUME NEW m \in 1..k, Layout'[m].AllMainLines = <<>>
               PROVE  NextTooHighFor(Layout[k + 1])'
    <3>1. Len(Layout') - 1 = k /\ Len(Layout') = k + 1
      BY <1>3
    <3>2. QED
      BY <3>1, <1>3 DEF EmptyPagesInv
  <2>1. Layout[m].AllMainLines = <<>>
    BY <1>3
  <2>2. Layout[k].AllMainLines = <<>>
    <3>1. CASE m = k
      BY <3>1, <2>1
    <3>2. CASE m # k
      <4>1. m \in 1..(Len(Layout) - 1)
        BY <3>2, <1>3
      <4>2. QED
        BY <4>1, <2>1, <1>3 DEF SafetyInv, EmptyPagesInv
    <3>3. QED
      BY <3>1, <3>2
  <2>3. Layout[k].UsedHeight = 0
    BY <2>2, <1>3 DEF SafetyInv, OpenPageInv
  <2>4. Layout'[k + 1].UsedHeight = Layout'[k].UsedHeight
    BY <2>3, <1>3
  <2>5. QED
    BY <2>4, <1>6 DEF NextTooHighFor
<1>15. NoteIndexInv'
  BY <1>3 DEF SafetyInv, NoteIndexInv
<1>16. ReturnedInv'
  BY <1>3 DEF ReturnedInv
<1>17. QED
  BY <1>2, <1>7, <1>8, <1>9, <1>10, <1>11, <1>12, <1>13, <1>14, <1>15, <1>16 DEF SafetyInv

\* Returning keeps the safety invariant.
LEMMA SafetyReturn == SafetyInv /\ Return => SafetyInv'
<1> SUFFICES ASSUME SafetyInv, Return PROVE SafetyInv'
  OBVIOUS
<1> USE DEF LinesOf, LastOf, NotesOnPage
<1>1. TypeOK /\ TypeOK'
  BY TypeStep DEF SafetyInv, Next
<1>2. /\ pc = "loop" /\ pc' = "returned" /\ Layout' = pages'
      /\ lineIndex = Len(text.lines)
      /\ lineIndex' = lineIndex /\ text' = text /\ noteIndex' = noteIndex
      /\ \/ /\ Layout' = Layout
            /\ Layout[Len(Layout)].AllMainLines # <<>>
         \/ Layout' = <<>> /\ Len(Layout) = 1 /\ lineIndex = 0
  BY <1>1, LayoutReturned DEF SafetyInv
<1>3. Layout \in Seq(PageType) /\ Len(Layout) \in Nat /\ DOMAIN Layout = 1..Len(Layout)
      /\ lineIndex \in Nat
  BY <1>1, LayoutType DEF TypeOK
<1>4. NoteIndexInv'
  BY <1>2 DEF SafetyInv, NoteIndexInv
<1>5. CASE Layout' = Layout /\ Layout[Len(Layout)].AllMainLines # <<>>
  <2>1. /\ PositionsInv' /\ MainTextFits' /\ LinesInOrder' /\ NumberedInOrder'
        /\ NotesExactlyOnce'
    <3>1. PositionsInv' /\ NumberedInOrder'
      BY <1>2, <1>5 DEF SafetyInv, PositionsInv, NumberedInOrder
    <3>2. MainTextFits'
      BY <1>2, <1>5 DEF SafetyInv, MainTextFits, AvailableHeight
    <3>3. LinesInOrder'
      BY <1>2, <1>5 DEF SafetyInv, LinesInOrder
    <3>4. NotesExactlyOnce'
      BY <1>2, <1>5 DEF SafetyInv, NotesExactlyOnce
    <3>5. QED
      BY <3>1, <3>2, <3>3, <3>4
  <2>2. GreedyFit'
    BY <1>2, <1>5 DEF SafetyInv, GreedyFit, CalculateLineHeight, AvailableHeight
  <2>3. \A m \in 1..(Len(Layout) - 1) : Layout[m].AllMainLines # <<>>
    BY <1>5 DEF SafetyInv, EmptyPagesInv
  <2>4. EmptyPagesInv'
    BY <2>3, <1>5 DEF EmptyPagesInv
  <2>5. OpenPageInv'
    BY <1>2 DEF OpenPageInv
  <2>6. Layout[Len(Layout)].AllMainLines[Len(Layout[Len(Layout)].AllMainLines)]
          = lineIndex
    BY <1>2, <1>5 DEF SafetyInv, OpenPageInv
  <2>7. ReturnedInv'
    <3>1. pages' = Layout /\ pages' # <<>>
      <4>1. Len(Layout) = Len(pages) + 1 /\ Len(pages) \in Nat
        BY <1>1, <1>2, LayoutType DEF TypeOK
      <4>2. Layout # <<>>
        BY <4>1
      <4>3. QED
        BY <4>2, <1>2, <1>5
    <3>2. QED
      BY <3>1, <2>6, <1>2, <1>5 DEF ReturnedInv
  <2>8. QED
    BY <1>1, <1>4, <2>1, <2>2, <2>4, <2>5, <2>7 DEF SafetyInv
<1>6. CASE Layout' = <<>> /\ Len(Layout) = 1 /\ lineIndex = 0
  <2>1. DOMAIN Layout' = {} /\ Len(Layout') = 0 /\ lineIndex' = 0
    BY <1>2, <1>6
  <2>2. 1..(Len(Layout') - 1) = {}
    BY <2>1
  <2>3. PositionsInv' /\ MainTextFits' /\ NumberedInOrder'
    BY <2>1 DEF PositionsInv, MainTextFits, NumberedInOrder
  <2>4. LinesInOrder' /\ GreedyFit' /\ EmptyPagesInv'
    BY <2>1, <2>2 DEF LinesInOrder, GreedyFit, EmptyPagesInv
  <2>5. NotesExactlyOnce'
    BY <2>1 DEF NotesExactlyOnce
  <2>6. OpenPageInv' /\ ReturnedInv'
    BY <1>2, <1>6 DEF OpenPageInv, ReturnedInv
  <2>7. QED
    BY <1>1, <1>4, <2>3, <2>4, <2>5, <2>6 DEF SafetyInv
<1>7. QED
  BY <1>2, <1>5, <1>6

\* A stuttering step keeps it.
LEMMA SafetyStutter == SafetyInv /\ UNCHANGED vars => SafetyInv'
<1> SUFFICES ASSUME SafetyInv, UNCHANGED vars PROVE SafetyInv'
  OBVIOUS
<1>1. Layout' = Layout
  BY DEF vars, Layout
<1>2. TypeOK'
  BY DEF SafetyInv, TypeOK, vars
<1>3. PositionsInv' /\ MainTextFits' /\ LinesInOrder' /\ NumberedInOrder' /\ NotesExactlyOnce'
  BY <1>1 DEF SafetyInv, vars, PositionsInv, MainTextFits, LinesInOrder, NumberedInOrder,
              NotesExactlyOnce, LinesOf, NotesOnPage, AvailableHeight
<1>4. GreedyFit' /\ OpenPageInv' /\ EmptyPagesInv' /\ NoteIndexInv' /\ ReturnedInv'
  BY <1>1 DEF SafetyInv, vars, GreedyFit, OpenPageInv, EmptyPagesInv, NoteIndexInv,
              ReturnedInv, NextTooHighFor, LinesOf, LastOf, CalculateLineHeight,
              AvailableHeight
<1>5. QED
  BY <1>2, <1>3, <1>4 DEF SafetyInv

\* The safety invariant holds before the first line is placed.
LEMMA SafetyInit == Init => SafetyInv
<1> SUFFICES ASSUME Init PROVE SafetyInv
  OBVIOUS
<1> USE DEF LinesOf, LastOf, NotesOnPage
<1>1. TypeOK
  BY TypeInit
<1>2. /\ pc = "loop" /\ lineIndex = 0
      /\ Len(Layout) = 1 /\ DOMAIN Layout = {1}
      /\ Layout[1].PageNumber = 1 /\ Layout[1].AllMainLines = <<>>
      /\ Layout[1].UsedHeight = 0
      /\ \A s \in Systems : Layout[1].AllFootnotes[s] = <<>>
  <2>1. pages = <<>> /\ currentPage = CreateNewPage(1) /\ pc = "loop" /\ lineIndex = 0
    BY DEF Init
  <2>2. Layout = <<currentPage>>
    BY <2>1 DEF Layout
  <2>3. QED
    BY <2>1, <2>2, NewPageType
<1>3. 1..(Len(Layout) - 1) = {} /\ 1..(Len(<<>>) - 1) = {} /\ DOMAIN <<>> = {}
  BY <1>2
<1>4. PositionsInv /\ MainTextFits /\ NumberedInOrder
  BY <1>2 DEF PositionsInv, MainTextFits, NumberedInOrder
<1>5. LinesInOrder
  BY <1>2, <1>3 DEF LinesInOrder
<1>6. GreedyFit /\ EmptyPagesInv
  BY <1>3 DEF GreedyFit, EmptyPagesInv
<1>7. NotesExactlyOnce
  BY <1>2 DEF NotesExactlyOnce
<1>8. OpenPageInv /\ ReturnedInv
  BY <1>2 DEF OpenPageInv, ReturnedInv
<1>9. NoteIndexInv
  BY <1>2 DEF NoteIndexInv, Init
<1>10. QED
  BY <1>1, <1>4, <1>5, <1>6, <1>7, <1>8, <1>9 DEF SafetyInv

------------------------------------------------------------------------------
\* The theorems.

\* The safety invariant holds of every text on every page geometry, that of a
\* page too low for a single line included.
THEOREM Safety == Spec => []SafetyInv
<1>1. SafetyInv /\ [Next]_vars => SafetyInv'
  BY SafetyPlace, SafetyTurn, SafetyReturn, SafetyStutter DEF Next, Returned
<1>2. QED
  BY SafetyInit, <1>1, PTL DEF Spec

\* No page is given more main text than it has room for.
THEOREM PagesFit == Spec => []MainTextFits
<1>1. SafetyInv => MainTextFits
  BY DEF SafetyInv
<1>2. QED
  BY Safety, <1>1, PTL

\* The pages cut the text into consecutive runs of lines.
THEOREM LinesStayInOrder == Spec => []LinesInOrder
<1>1. SafetyInv => LinesInOrder
  BY DEF SafetyInv
<1>2. QED
  BY Safety, <1>1, PTL

\* The pages are numbered by their positions.
THEOREM PagesNumbered == Spec => []NumberedInOrder
<1>1. SafetyInv => NumberedInOrder
  BY DEF SafetyInv
<1>2. QED
  BY Safety, <1>1, PTL

\* Every note is printed once, with the other notes of its system.
THEOREM NotesPrintedOnce == Spec => []NotesExactlyOnce
<1>1. SafetyInv => NotesExactlyOnce
  BY DEF SafetyInv
<1>2. QED
  BY Safety, <1>1, PTL

\* Pages are turned only when the next line does not fit.
THEOREM FirstFit == Spec => []GreedyFit
<1>1. SafetyInv => GreedyFit
  BY DEF SafetyInv
<1>2. QED
  BY Safety, <1>1, PTL

\* The result has no empty page and ends with the last line.
THEOREM ResultIsComplete == Spec => []ResultComplete
<1>1. SafetyInv => ResultComplete
  <2> SUFFICES ASSUME SafetyInv, pc = "returned" PROVE ResultComplete
    BY DEF ResultComplete
  <2>1. TypeOK /\ Layout = pages /\ pages \in Seq(PageType)
    BY LayoutType DEF SafetyInv, TypeOK
  <2>2. text.lines \in Seq(Nat \ {0}) /\ lineIndex = Len(text.lines)
    BY <2>1, TextType DEF SafetyInv, ReturnedInv
  <2>3. \A k \in 1..(Len(pages) - 1) : pages[k].AllMainLines # <<>>
    BY <2>1 DEF SafetyInv, EmptyPagesInv, LinesOf
  <2>4. CASE pages = <<>>
    <3>1. lineIndex = 0
      BY <2>4 DEF SafetyInv, ReturnedInv
    <3>2. text.lines = <<>>
      BY <3>1, <2>2
    <3>3. QED
      BY <3>2, <2>4 DEF ResultComplete
  <2>5. CASE pages # <<>>
    <3>1. /\ pages[Len(pages)].AllMainLines # <<>>
          /\ LastOf(Len(pages)) = lineIndex
      BY <2>1, <2>5 DEF SafetyInv, ReturnedInv, LinesOf
    <3>2. \A k \in DOMAIN pages : pages[k].AllMainLines # <<>>
      <4>1. \A k \in DOMAIN pages : k \in 1..(Len(pages) - 1) \/ k = Len(pages)
        BY <2>1
      <4>2. QED
        BY <4>1, <2>3, <3>1
    <3>3. text.lines # <<>>
      <4>1. Len(pages) \in DOMAIN Layout
        <5>1. pages \in Seq(PageType)
          BY <2>1
        <5>2. Len(pages) \in DOMAIN pages
          BY <5>1, <2>5, LastPosition
        <5>3. QED
          BY <5>2, <2>1
      <4>2. Len(LinesOf(Len(pages))) \in DOMAIN LinesOf(Len(pages))
        <5>1. LinesOf(Len(pages)) \in Seq(Nat \ {0})
          <6>1. Layout[Len(pages)] \in PageType
            BY <2>1, <4>1
          <6>2. QED
            BY <6>1 DEF LinesOf, PageType
        <5>2. QED
          BY <5>1, <3>1, <2>1, LastPosition DEF LinesOf
      <4>3. LastOf(Len(pages)) \in 1..lineIndex
        BY <4>1, <4>2 DEF SafetyInv, PositionsInv, LastOf
      <4>4. lineIndex # 0
        BY <4>3, <3>1
      <4>5. QED
        BY <4>4, <2>2
    <3>4. QED
      BY <3>1, <3>2, <3>3, <2>2, <2>5 DEF ResultComplete, LastOf
  <2>6. QED
    BY <2>4, <2>5
<1>2. QED
  BY Safety, <1>1, PTL

------------------------------------------------------------------------------
\* Paginate ends.

\* Every line of the text fits a page that has no other.
EveryLineFitsAPage ==
    \A n \in 1..Len(text.lines) : CalculateLineHeight(text.lines[n]) <= AvailableHeight

\* The rounds of the loop still to come, at most: a line takes one to be placed and may
\* take one to turn the page it does not fit, which has a line of its own.
RoundsLeft ==
    2 * (Len(text.lines) - lineIndex)
      + (IF currentPage.AllMainLines # <<>> THEN 1 ELSE 0)
      + (IF pc = "loop" THEN 1 ELSE 0)

\* What the rounds are counted from.
LEMMA RoundsType ==
    ASSUME TypeOK
    PROVE  /\ Len(text.lines) \in Nat /\ lineIndex \in Nat
           /\ lineIndex <= Len(text.lines) /\ RoundsLeft \in Nat
<1>1. Len(text.lines) \in Nat /\ lineIndex \in 0..Len(text.lines)
  BY TextType DEF TypeOK
<1> DEFINE lines == Len(text.lines)
           open  == IF currentPage.AllMainLines # <<>> THEN 1 ELSE 0
           loop  == IF pc = "loop" THEN 1 ELSE 0
<1>2. open \in Nat /\ loop \in Nat /\ RoundsLeft = 2 * (lines - lineIndex) + open + loop
  BY DEF RoundsLeft
<1> HIDE DEF lines, open, loop
<1>3. lines \in Nat /\ lineIndex \in 0..lines
  BY <1>1 DEF lines
<1>4. lineIndex \in Nat /\ lineIndex <= lines /\ RoundsLeft \in Nat
  BY <1>2, <1>3
<1>5. QED
  BY <1>1, <1>4 DEF lines

\* A line placed, a page turned and the return each make the rounds left fewer.  A page
\* without a line is not turned: its height is not used, and the line would fit.
LEMMA RoundIsSpent ==
    ASSUME SafetyInv, EveryLineFitsAPage, Next, ~UNCHANGED vars
    PROVE  RoundsLeft' < RoundsLeft
<1>1. TypeOK /\ OpenPageInv
  BY DEF SafetyInv
<1>2. Len(text.lines) \in Nat /\ lineIndex \in Nat
  BY <1>1, RoundsType
<1> DEFINE lines == Len(text.lines)
           open(page) == IF page.AllMainLines # <<>> THEN 1 ELSE 0
<1>3. open(currentPage) \in {0, 1} /\ open(currentPage') \in {0, 1}
  OBVIOUS
<1>4. CASE PlaceLine
  <2>1. lineIndex' = lineIndex + 1 /\ text' = text /\ pc = "loop" /\ pc' = "loop"
    BY <1>4 DEF PlaceLine
  <2>2. /\ RoundsLeft = 2 * (lines - lineIndex) + open(currentPage) + 1
        /\ RoundsLeft' = 2 * (lines - (lineIndex + 1)) + open(currentPage') + 1
    BY <2>1 DEF RoundsLeft
  <2> HIDE DEF lines, open
  <2>3. lines \in Nat
    BY <1>2 DEF lines
  <2>4. QED
    BY <1>2, <1>3, <2>2, <2>3
<1>5. CASE TurnPage
  <2>1. /\ lineIndex' = lineIndex /\ text' = text /\ pc = "loop" /\ pc' = "loop"
        /\ currentPage'.AllMainLines = <<>>
    BY <1>5 DEF TurnPage, CreateNewPage
  <2>2. currentPage.AllMainLines # <<>>
    <3> SUFFICES ASSUME currentPage.AllMainLines = <<>>
                 PROVE  FALSE
      OBVIOUS
    <3>1. Len(Layout) = Len(pages) + 1 /\ Layout[Len(pages) + 1] = currentPage
      BY <1>1, <2>1, LayoutType
    <3>2. currentPage.UsedHeight = 0
      BY <1>1, <2>1, <3>1 DEF OpenPageInv, LinesOf
    <3>3. NextTooHighFor(currentPage)
      BY <1>1, <1>5, FitMeaning DEF TurnPage
    <3>4. /\ lineIndex < Len(text.lines)
          /\ 0 + CalculateLineHeight(text.lines[lineIndex + 1]) > AvailableHeight
      BY <3>2, <3>3 DEF NextTooHighFor
    <3>5. lineIndex + 1 \in 1..Len(text.lines)
      BY <1>2, <3>4
    <3>6. /\ CalculateLineHeight(text.lines[lineIndex + 1]) \in Nat
          /\ CalculateLineHeight(text.lines[lineIndex + 1]) <= AvailableHeight
      BY <1>1, <3>5, TextType DEF EveryLineFitsAPage
    <3>7. QED
      BY <3>4, <3>6, HeightsType
  <2>3. /\ RoundsLeft = 2 * (lines - lineIndex) + 1 + 1
        /\ RoundsLeft' = 2 * (lines - lineIndex) + 0 + 1
    BY <2>1, <2>2 DEF RoundsLeft
  <2> HIDE DEF lines
  <2>4. lines \in Nat
    BY <1>2 DEF lines
  <2>5. QED
    BY <1>2, <2>3, <2>4
<1>6. CASE Return
  <2>1. /\ lineIndex' = lineIndex /\ text' = text /\ currentPage' = currentPage
        /\ pc = "loop" /\ pc' = "returned"
    BY <1>6 DEF Return
  <2>2. /\ RoundsLeft = 2 * (lines - lineIndex) + open(currentPage) + 1
        /\ RoundsLeft' = 2 * (lines - lineIndex) + open(currentPage) + 0
    BY <2>1 DEF RoundsLeft
  <2> HIDE DEF lines, open
  <2>3. lines \in Nat
    BY <1>2 DEF lines
  <2>4. QED
    BY <1>2, <1>3, <2>2, <2>3
<1>7. QED
  BY <1>4, <1>5, <1>6 DEF Next, Returned

\* Paginate does not turn pages forever, if every line fits a page: it returns after at most
\* two rounds for a line and one more, because a step that changes something leaves fewer.
THEOREM PaginateEnds ==
    Spec => /\ [](RoundsLeft \in Nat)
            /\ [][EveryLineFitsAPage => RoundsLeft' < RoundsLeft]_vars
<1>1. SafetyInv => RoundsLeft \in Nat
  BY RoundsType DEF SafetyInv
<1>2. SafetyInv /\ [Next]_vars => [EveryLineFitsAPage => RoundsLeft' < RoundsLeft]_vars
  BY RoundIsSpent
<1>3. QED
  BY Safety, <1>1, <1>2, PTL DEF Spec

\* The lines placed fit a page that has no other.
PlacedLinesFit ==
    \A n \in 1..lineIndex : CalculateLineHeight(text.lines[n]) <= AvailableHeight

\* And if a line fits no page it never returns: what is returned has only lines that do.
THEOREM PaginateReturnsOnlyIfLinesFit == Spec => [](pc = "returned" => EveryLineFitsAPage)
<1>1. Init => PlacedLinesFit
  BY DEF Init, PlacedLinesFit
<1>2. ASSUME SafetyInv, PlacedLinesFit, [Next]_vars
      PROVE  PlacedLinesFit'
  <2>1. TypeOK
    BY <1>2 DEF SafetyInv
  <2>2. CASE PlaceLine
    <3>1. lineIndex' = lineIndex + 1 /\ text' = text /\ lineIndex < Len(text.lines)
      BY <2>2 DEF PlaceLine
    <3>2. lineIndex + 1 \in 1..Len(text.lines) /\ lineIndex \in Nat
      BY <2>1, <3>1, RoundsType
    <3>3. CalculateLineHeight(text.lines[lineIndex + 1]) <= AvailableHeight
      <4>1. CalculateLineHeight(text.lines[lineIndex + 1]) \in Nat
        BY <2>1, <3>2, TextType
      <4>2. currentPage.UsedHeight \in Nat
        BY <2>1 DEF TypeOK, PageType
      <4>3. AvailableHeight - currentPage.UsedHeight
              >= CalculateLineHeight(text.lines[lineIndex + 1])
        BY <2>2 DEF PlaceLine, FitsNext, RemainingHeight
      <4>4. QED
        BY <4>1, <4>2, <4>3, HeightsType
    <3>4. ASSUME NEW n \in 1..(lineIndex + 1)
          PROVE  CalculateLineHeight(text.lines[n]) <= AvailableHeight
      <4>1. n \in 1..lineIndex \/ n = lineIndex + 1
        BY <3>2
      <4>2. QED
        BY <1>2, <3>3, <4>1 DEF PlacedLinesFit
    <3>5. QED
      BY <3>1, <3>4 DEF PlacedLinesFit, CalculateLineHeight
  <2>3. ASSUME UNCHANGED <<text, lineIndex>>
        PROVE  PlacedLinesFit'
    BY <1>2, <2>3 DEF PlacedLinesFit, CalculateLineHeight
  <2>4. QED
    BY <1>2, <2>2, <2>3 DEF Next, TurnPage, Return, Returned, vars
<1>3. SafetyInv /\ PlacedLinesFit => (pc = "returned" => EveryLineFitsAPage)
  BY DEF SafetyInv, ReturnedInv, PlacedLinesFit, EveryLineFitsAPage
<1>4. SafetyInv /\ PlacedLinesFit /\ [Next]_vars => PlacedLinesFit'
  BY <1>2
<1>5. QED
  BY Safety, <1>1, <1>3, <1>4, PTL DEF Spec

------------------------------------------------------------------------------
\* Paginate flows.

\* The heights of the lines are the sizes of the items.
LEMMA LineHeightsType ==
    ASSUME TypeOK
    PROVE  /\ LineHeights \in Seq(Nat) /\ Len(LineHeights) = Len(text.lines)
           /\ \A n \in 1..Len(text.lines) :
                  LineHeights[n] = CalculateLineHeight(text.lines[n])
<1>1. /\ text.lines \in Seq(Nat \ {0})
      /\ \A n \in 1..Len(text.lines) : CalculateLineHeight(text.lines[n]) \in Nat
  BY TextType
<1>2. Len(text.lines) \in Nat /\ DOMAIN text.lines = 1..Len(text.lines)
  BY <1>1
<1> DEFINE L == Len(text.lines)
           Height(n) == CalculateLineHeight(text.lines[n])
<1>3. LineHeights = [n \in 1..L |-> Height(n)]
  BY <1>2 DEF LineHeights
<1>4. L \in Nat /\ \A n \in 1..L : Height(n) \in Nat
  BY <1>1, <1>2
<1> HIDE DEF L, Height
<1>5. LineHeights \in Seq(Nat) /\ Len(LineHeights) = L
        /\ \A n \in 1..L : LineHeights[n] = Height(n)
  BY <1>3, <1>4
<1>6. QED
  BY <1>5 DEF L, Height

\* Page page has line n.
OnPage(page, n) ==
    \E j \in DOMAIN page.AllMainLines : page.AllMainLines[j] = n

\* A line put at the end of a page is on it, with the lines that were there.
LEMMA OnPageMore ==
    ASSUME NEW page \in PageType, NEW later, NEW n \in Nat \ {0},
           later.AllMainLines = Append(page.AllMainLines, n)
    PROVE  \A m : OnPage(later, m) <=> OnPage(page, m) \/ m = n
<1>1. PICK ls : ls = page.AllMainLines
  OBVIOUS
<1>2. PICK L : L = Len(ls)
  OBVIOUS
<1>3. ls \in Seq(Nat \ {0}) /\ L \in Nat /\ DOMAIN ls = 1..L
  BY <1>1, <1>2 DEF PageType
<1>4. /\ DOMAIN Append(ls, n) = 1..(L + 1)
      /\ Append(ls, n)[L + 1] = n /\ \A j \in 1..L : Append(ls, n)[j] = ls[j]
  BY <1>2, <1>3
<1>5. \A j : j \in 1..(L + 1) <=> j \in 1..L \/ j = L + 1
  BY <1>3
<1>6. QED
  BY <1>1, <1>3, <1>4, <1>5 DEF OnPage

\* Placing a line gives it the last page of the layout, and no other line another
\* page.
LEMMA LinePlaced ==
    ASSUME SafetyInv, PlaceLine, NEW K, K = Len(Layout)
    PROVE  /\ PageOf' = Append(PageOf, K)
           /\ Len(PageOf) = lineIndex /\ (PageOf = <<>> <=> lineIndex = 0)
           /\ PageOf'[lineIndex'] = K
           /\ PlacedInv'
<1>0. TypeOK
  BY DEF SafetyInv
<1>1. PICK n : n = lineIndex + 1
  OBVIOUS
<1>2. /\ K = Len(pages) + 1 /\ Len(pages) = K - 1
      /\ Len(Layout') = K /\ K \in Nat \ {0}
      /\ \A k \in 1..(K - 1) : Layout'[k] = Layout[k]
      /\ Layout'[K].AllMainLines = Append(Layout[K].AllMainLines, n)
      /\ n \in 1..Len(text.lines) /\ lineIndex' = n /\ lineIndex = n - 1
  <2>1. /\ Len(Layout) = Len(pages) + 1 /\ Len(Layout') = Len(pages) + 1
        /\ \A k \in 1..Len(pages) : Layout'[k] = Layout[k]
        /\ Layout'[Len(pages) + 1].AllMainLines
             = Append(Layout[Len(pages) + 1].AllMainLines, lineIndex + 1)
        /\ lineIndex + 1 \in 1..Len(text.lines) /\ lineIndex' = lineIndex + 1
    BY <1>0, LayoutPlaced
  <2>2. Len(pages) \in Nat /\ lineIndex \in Nat
    BY <1>0 DEF TypeOK
  <2>3. K = Len(pages) + 1 /\ Len(pages) = K - 1 /\ K \in Nat \ {0}
    BY <2>1, <2>2
  <2>4. lineIndex = n - 1
    BY <1>1, <2>2
  <2>5. QED
    BY <1>1, <2>1, <2>3, <2>4
<1>3. /\ Layout \in Seq(PageType) /\ Layout' \in Seq(PageType)
      /\ DOMAIN Layout = 1..K /\ DOMAIN Layout' = 1..K
  <2>1. Layout \in Seq(PageType)
    BY <1>0, LayoutType
  <2>2. TypeOK'
    BY <1>0, TypeStep DEF Next
  <2>3. Layout' \in Seq(PageType)
    BY <2>2 DEF TypeOK, Layout
  <2>4. DOMAIN Layout = 1..Len(Layout)
    BY <2>1
  <2>5. DOMAIN Layout' = 1..Len(Layout')
    BY <2>3
  <2>6. QED
    BY <2>1, <2>3, <2>4, <2>5, <1>2
<1>4. n \in Nat \ {0} /\ lineIndex \in Nat /\ n \notin 1..lineIndex
        /\ n \in 1..n /\ 1..lineIndex \subseteq 1..n
  BY <1>0, <1>1, <1>2 DEF TypeOK
<1>5. \A m : OnPage(Layout'[K], m) <=> OnPage(Layout[K], m) \/ m = n
  <2>1. Layout[K] \in PageType
    BY <1>2, <1>3
  <2>2. QED
    BY <1>2, <1>4, <2>1, OnPageMore
<1>6. \A k \in 1..K : \A m : OnPage(Layout[k], m) => m \in 1..lineIndex
  BY <1>3 DEF SafetyInv, PositionsInv, LinesOf, OnPage
<1>7. /\ \A m : PagesWith(m) = {k \in 1..K : OnPage(Layout[k], m)}
      /\ \A m : PagesWith(m)' = {k \in 1..K : OnPage(Layout'[k], m)}
  BY <1>3 DEF PagesWith, LinesOf, OnPage
<1>8. \A k \in 1..K : k \in 1..(K - 1) \/ k = K
  BY <1>2
<1>9. K \in 1..K /\ \A k \in 1..(K - 1) : k # K
  BY <1>2
<1>10. \A m \in 1..lineIndex : PagesWith(m)' = PagesWith(m)
  <2>1. \A m \in 1..lineIndex : m # n
    BY <1>4
  <2>2. QED
    BY <1>2, <1>5, <1>7, <1>8, <2>1
<1>11. PagesWith(n)' = {K}
  <2>1. \A k \in 1..K : OnPage(Layout'[k], n) <=> k = K
    BY <1>2, <1>4, <1>5, <1>6, <1>8, <1>9
  <2>2. QED
    BY <1>7, <1>9, <2>1
<1>12. /\ PageOf = [m \in 1..lineIndex |-> CHOOSE k \in PagesWith(m) : TRUE]
       /\ PageOf' = [m \in 1..n |-> CHOOSE k \in PagesWith(m)' : TRUE]
  BY <1>2 DEF PageOf
<1>13. PageOf'[n] = K
  BY <1>4, <1>11, <1>12
<1>14. \A m \in 1..lineIndex : PageOf'[m] = PageOf[m]
  BY <1>4, <1>10, <1>12
<1>15. /\ Len(PageOf) = lineIndex /\ (PageOf = <<>> <=> lineIndex = 0)
       /\ PageOf' = Append(PageOf, PageOf'[lineIndex + 1])
  <2>1. PICK f, g : f = PageOf /\ g = PageOf'
    OBVIOUS
  <2>2. PageOf = [m \in 1..lineIndex |-> PageOf[m]]
    BY <1>12
  <2>3. PageOf' = [m \in 1..n |-> PageOf'[m]]
    BY <1>12
  <2>4. /\ f = [m \in 1..lineIndex |-> f[m]]
        /\ g = [m \in 1..(lineIndex + 1) |-> g[m]]
        /\ \A m \in 1..lineIndex : g[m] = f[m]
    BY <1>1, <1>14, <2>1, <2>2, <2>3
  <2>5. Len(f) = lineIndex /\ (f = <<>> <=> lineIndex = 0)
          /\ g = Append(f, g[lineIndex + 1])
    BY <1>4, <2>4, LongerByOne
  <2>6. QED
    BY <2>1, <2>5
<1>16. PlacedInv'
  <2>1. PagesWith(n)' = {PageOf'[n]}
    BY <1>11, <1>13
  <2>2. QED
    BY <1>2, <2>1 DEF PlacedInv
<1>17. QED
  BY <1>1, <1>2, <1>13, <1>15, <1>16

\* Where the line last placed is when the next one is placed: on the page being
\* filled, or, if that one is empty, on the page before it.
LEMMA LastPage ==
    ASSUME SafetyInv, PlacedInv, PlaceLine, NEW K, K = Len(Layout)
    PROVE  IF LinesOf(K) # <<>> THEN lineIndex > 0 /\ PageOf[lineIndex] = K
           ELSE /\ Layout[K].UsedHeight = 0
                /\ IF lineIndex = 0 THEN K = 1 ELSE PageOf[lineIndex] = K - 1
<1>0. TypeOK
  BY DEF SafetyInv
<1>1. /\ K = Len(pages) + 1 /\ K \in Nat \ {0} /\ pc = "loop"
      /\ ~NextTooHighFor(Layout[K]) /\ lineIndex \in Nat
  BY <1>0, LayoutPlaced DEF TypeOK
<1>2. Layout \in Seq(PageType) /\ DOMAIN Layout = 1..K
  BY <1>0, LayoutType
<1>3. ASSUME NEW k \in 1..K, LinesOf(k) # <<>>, LastOf(k) = lineIndex
      PROVE  lineIndex > 0 /\ PageOf[lineIndex] = k
  <2>1. LinesOf(k) \in Seq(Nat \ {0})
    <3>1. Layout[k] \in PageType
      BY <1>2
    <3>2. QED
      BY <3>1 DEF LinesOf, PageType
  <2>2. Len(LinesOf(k)) \in DOMAIN LinesOf(k)
    BY <1>3, <2>1, LastPosition
  <2>3. lineIndex \in 1..lineIndex
    BY <1>2, <1>3, <2>2 DEF SafetyInv, PositionsInv, LastOf
  <2>4. lineIndex > 0
    BY <1>1, <2>3
  <2>5. k \in PagesWith(lineIndex)
    BY <1>2, <1>3, <2>2 DEF PagesWith, LastOf
  <2>6. QED
    BY <2>4, <2>5 DEF PlacedInv
<1>4. CASE LinesOf(K) # <<>>
  <2>1. LastOf(K) = lineIndex
    BY <1>1, <1>4 DEF SafetyInv, OpenPageInv
  <2>2. K \in 1..K
    BY <1>1
  <2>3. QED
    BY <1>3, <1>4, <2>1, <2>2
<1>5. CASE LinesOf(K) = <<>>
  <2>1. /\ Layout[K].UsedHeight = 0
        /\ IF K = 1 THEN lineIndex = 0
           ELSE LinesOf(K - 1) # <<>> => LastOf(K - 1) = lineIndex
    BY <1>1, <1>5 DEF SafetyInv, OpenPageInv
  <2>2. CASE K = 1
    BY <1>5, <2>1, <2>2
  <2>3. CASE K # 1
    <3>1. K - 1 \in 1..K /\ K - 1 \in 1..(K - 1)
      BY <1>1, <2>3
    <3>2. LinesOf(K - 1) # <<>>
      BY <1>1, <3>1 DEF SafetyInv, EmptyPagesInv
    <3>3. lineIndex > 0 /\ PageOf[lineIndex] = K - 1
      BY <1>3, <2>1, <2>3, <3>1, <3>2
    <3>4. QED
      BY <1>1, <1>5, <2>1, <3>3
  <2>4. QED
    BY <2>2, <2>3
<1>6. QED
  BY <1>4, <1>5

\* A line placed is a step of Flow: it joins the lines of the page being filled, or
\* is the first of the page after theirs.
LEMMA PlaceFlows == SafetyInv /\ PlacedInv /\ PlaceLine => Flow!Next
<1> SUFFICES ASSUME SafetyInv, PlacedInv, PlaceLine PROVE Flow!Next
  OBVIOUS
<1>0. TypeOK
  BY DEF SafetyInv
<1>1. PICK K, h : K = Len(Layout) /\ h = CalculateLineHeight(text.lines[lineIndex + 1])
  OBVIOUS
<1>2. /\ K \in Nat \ {0} /\ Layout'[K].UsedHeight = Layout[K].UsedHeight + h
      /\ lineIndex + 1 \in 1..Len(text.lines)
      /\ lineIndex' = lineIndex + 1 /\ text' = text
      /\ pc = "loop" /\ pc' = "loop"
      /\ ~NextTooHighFor(Layout[K])
      /\ lineIndex \in Nat /\ lineIndex < Len(text.lines)
  BY <1>0, <1>1, LayoutPlaced DEF TypeOK, PlaceLine
<1>3. h \in Nat /\ AvailableHeight \in Int /\ Layout[K].UsedHeight \in Nat
  <2>1. h \in Nat
    BY <1>0, <1>1, <1>2, TextType
  <2>2. Layout \in Seq(PageType)
    BY <1>0, LayoutType
  <2>3. Layout[K] \in PageType
    BY <1>1, <1>2, <2>2
  <2>4. QED
    BY <2>1, <2>3, HeightsType DEF PageType
<1>4. /\ PageOf' = Append(PageOf, K)
      /\ Len(PageOf) = lineIndex /\ (PageOf = <<>> <=> lineIndex = 0)
      /\ PageOf'[lineIndex'] = K
  BY <1>1, LinePlaced
<1>5. /\ Len(LineHeights) = Len(text.lines) /\ LineHeights[lineIndex + 1] = h
      /\ LineHeights' = LineHeights
  <2>1. LineHeights' = LineHeights
    BY <1>2 DEF LineHeights, CalculateLineHeight
  <2>2. QED
    BY <1>0, <1>1, <1>2, <2>1, LineHeightsType
<1>6. Flow!Placing
  BY <1>2, <1>4, <1>5 DEF Flow!Placing
<1>7. Flow!NextSize = h
  BY <1>4, <1>5 DEF Flow!NextSize
<1>8. RoomLeft' = AvailableHeight - (Layout[K].UsedHeight + h)
  <2>1. lineIndex' # 0
    BY <1>2
  <2>2. QED
    BY <1>2, <1>4, <2>1 DEF RoomLeft, RemainingHeight
<1>9. Layout[K].UsedHeight + h <= AvailableHeight
  BY <1>1, <1>2, <1>3 DEF NextTooHighFor
<1>10. CASE LinesOf(K) # <<>>
  <2>1. lineIndex > 0 /\ PageOf[lineIndex] = K
    BY <1>1, <1>10, LastPage
  <2>2. PageOf # <<>> /\ Flow!LastBox = K
    BY <1>2, <1>4, <2>1 DEF Flow!LastBox
  <2>3. RoomLeft = AvailableHeight - Layout[K].UsedHeight
    BY <1>2, <2>1 DEF RoomLeft, RemainingHeight
  <2>4. 0 + h <= RoomLeft /\ RoomLeft' = RoomLeft - 0 - h
    BY <1>3, <1>8, <1>9, <2>3
  <2>5. Flow!Join
    BY <1>4, <1>6, <1>7, <2>2, <2>4 DEF Flow!Join
  <2>6. QED
    BY <2>5 DEF Flow!Next
<1>11. CASE LinesOf(K) = <<>>
  <2>1. /\ Layout[K].UsedHeight = 0
        /\ IF lineIndex = 0 THEN K = 1 ELSE PageOf[lineIndex] = K - 1
    BY <1>1, <1>11, LastPage
  <2>2. Flow!LastBox + 1 = K
    BY <1>2, <1>4, <2>1 DEF Flow!LastBox
  <2>3. h <= AvailableHeight /\ RoomLeft' = AvailableHeight - h
    BY <1>3, <1>8, <1>9, <2>1
  <2>4. Flow!Open
    BY <1>4, <1>6, <1>7, <2>2, <2>3 DEF Flow!Open
  <2>5. QED
    BY <2>4 DEF Flow!Next
<1>12. QED
  BY <1>10, <1>11

\* As many lines have a page as are placed.
LEMMA PageOfLength ==
    ASSUME TypeOK
    PROVE  Len(PageOf) = lineIndex
<1>1. lineIndex \in Nat
  BY DEF TypeOK
<1>2. PICK f : f = PageOf
  OBVIOUS
<1>3. DOMAIN f = 1..lineIndex /\ f = [m \in 1..lineIndex |-> f[m]]
  BY <1>2 DEF PageOf
<1>4. f \in Seq({f[m] : m \in 1..lineIndex})
  BY <1>1, <1>3
<1>5. QED
  BY <1>1, <1>2, <1>3, <1>4

\* If the pages of the lines are the same pages as before, nothing flows.
LEMMA SamePages ==
    ASSUME TypeOK, PlacedInv, lineIndex' = lineIndex, text' = text,
           \A m : PagesWith(m)' = PagesWith(m),
           \A k \in DOMAIN Layout : Layout'[k] = Layout[k]
    PROVE  /\ PageOf' = PageOf /\ RoomLeft' = RoomLeft /\ LineHeights' = LineHeights
           /\ PlacedInv'
<1>1. PageOf' = PageOf
  BY DEF PageOf
<1>2. LineHeights' = LineHeights
  BY DEF LineHeights, CalculateLineHeight
<1>3. lineIndex > 0 => /\ PagesWith(lineIndex) = {PageOf[lineIndex]}
                       /\ PagesWith(lineIndex)' = PagesWith(lineIndex)
  BY DEF PlacedInv
<1>4. PlacedInv'
  <2>1. lineIndex > 0 => PagesWith(lineIndex)' = {PageOf[lineIndex]}
    BY <1>3
  <2>2. QED
    BY <1>1, <2>1 DEF PlacedInv
<1>5. RoomLeft' = RoomLeft
  <2>1. CASE lineIndex = 0
    BY <2>1 DEF RoomLeft
  <2>2. CASE lineIndex # 0
    <3>1. PageOf[lineIndex] \in DOMAIN Layout
      <4>1. lineIndex > 0
        BY <2>2 DEF TypeOK
      <4>2. QED
        BY <1>3, <4>1 DEF PagesWith
    <3>2. QED
      BY <1>1, <2>2, <3>1 DEF RoomLeft, RemainingHeight
  <2>3. QED
    BY <2>1, <2>2
<1>6. QED
  BY <1>1, <1>2, <1>4, <1>5

\* Turning a page moves no line.
LEMMA TurnKeepsFlow ==
    SafetyInv /\ PlacedInv /\ TurnPage => UNCHANGED Flow!flowVars /\ PlacedInv'
<1> SUFFICES ASSUME SafetyInv, PlacedInv, TurnPage
             PROVE  UNCHANGED Flow!flowVars /\ PlacedInv'
  OBVIOUS
<1>0. TypeOK /\ TypeOK'
  BY TypeStep DEF SafetyInv, Next
<1>1. PICK k : k = Len(pages) + 1
  OBVIOUS
<1>2. /\ Len(Layout) = k /\ Len(Layout') = k + 1 /\ k \in Nat \ {0}
      /\ \A m \in 1..k : Layout'[m] = Layout[m]
      /\ Layout'[k + 1].AllMainLines = <<>>
      /\ lineIndex' = lineIndex /\ text' = text
      /\ pc = "loop" /\ pc' = "loop"
  BY <1>0, <1>1, LayoutTurned
<1>3. DOMAIN Layout = 1..k /\ DOMAIN Layout' = 1..(k + 1)
  <2>1. Layout \in Seq(PageType)
    BY <1>0, LayoutType
  <2>2. Layout' \in Seq(PageType)
    BY <1>0 DEF TypeOK, Layout
  <2>3. DOMAIN Layout = 1..Len(Layout)
    BY <2>1
  <2>4. DOMAIN Layout' = 1..Len(Layout')
    BY <2>2
  <2>5. QED
    BY <1>2, <2>3, <2>4
<1>4. \A m : PagesWith(m)' = PagesWith(m)
  <2>1. /\ \A m : PagesWith(m) = {i \in 1..k : OnPage(Layout[i], m)}
        /\ \A m : PagesWith(m)' = {i \in 1..(k + 1) : OnPage(Layout'[i], m)}
    BY <1>3 DEF PagesWith, LinesOf, OnPage
  <2>2. \A m : ~OnPage(Layout'[k + 1], m)
    BY <1>2 DEF OnPage
  <2>3. \A i : i \in 1..(k + 1) <=> i \in 1..k \/ i = k + 1
    BY <1>2
  <2>4. QED
    BY <1>2, <2>1, <2>2, <2>3
<1>5. /\ PageOf' = PageOf /\ RoomLeft' = RoomLeft /\ LineHeights' = LineHeights
      /\ PlacedInv'
  BY <1>0, <1>2, <1>3, <1>4, SamePages
<1>6. QED
  BY <1>2, <1>5 DEF Flow!flowVars

\* Returning, Paginate keeps the pages as they are, and all lines are on one.
LEMMA ReturnEndsFlow == SafetyInv /\ PlacedInv /\ Return => Flow!Next /\ PlacedInv'
<1> SUFFICES ASSUME SafetyInv, PlacedInv, Return PROVE Flow!Next /\ PlacedInv'
  OBVIOUS
<1>0. TypeOK
  BY DEF SafetyInv
<1>1. /\ pc = "loop" /\ pc' = "returned" /\ lineIndex = Len(text.lines)
      /\ lineIndex' = lineIndex /\ text' = text
      /\ \/ Layout' = Layout
         \/ Layout' = <<>> /\ lineIndex = 0
  BY <1>0, LayoutReturned DEF SafetyInv
<1>2. /\ PageOf' = PageOf /\ RoomLeft' = RoomLeft /\ LineHeights' = LineHeights
      /\ PlacedInv'
  <2>1. CASE Layout' = Layout
    <3>1. \A m : PagesWith(m)' = PagesWith(m)
      BY <2>1 DEF PagesWith, LinesOf
    <3>2. QED
      BY <1>0, <1>1, <2>1, <3>1, SamePages
  <2>2. CASE lineIndex = 0
    <3>1. 1..lineIndex = {} /\ lineIndex' = 0
      BY <1>1, <2>2
    <3>2. PageOf = [m \in {} |-> CHOOSE k \in PagesWith(m) : TRUE]
            /\ PageOf' = [m \in {} |-> CHOOSE k \in PagesWith(m)' : TRUE]
      BY <1>1, <3>1 DEF PageOf
    <3>3. PageOf' = PageOf
      BY <3>2
    <3>4. RoomLeft' = RoomLeft /\ PlacedInv'
      BY <2>2, <3>1 DEF RoomLeft, PlacedInv
    <3>5. LineHeights' = LineHeights
      BY <1>1 DEF LineHeights, CalculateLineHeight
    <3>6. QED
      BY <3>3, <3>4, <3>5
  <2>3. QED
    BY <1>1, <2>1, <2>2
<1>3. Len(PageOf) = Len(LineHeights)
  BY <1>0, <1>1, PageOfLength, LineHeightsType
<1>4. Flow!End
  BY <1>1, <1>2, <1>3 DEF Flow!End
<1>5. QED
  BY <1>2, <1>4 DEF Flow!Next

\* Paginate implements Flow, for every geometry of the page and every text: each
\* step puts the next line on the page of the line before it or on the next one,
\* where there is room for it, or leaves every line where it is.
THEOREM PaginateImplementsFlow == Spec => PaginateFlowsSafely
<1>1. Init => Flow!Init /\ PlacedInv
  <2> SUFFICES ASSUME Init PROVE Flow!Init /\ PlacedInv
    OBVIOUS
  <2>1. lineIndex = 0 /\ pc = "loop"
    BY DEF Init
  <2>2. 1..lineIndex = {}
    BY <2>1
  <2>3. PageOf = <<>> /\ RoomLeft = 0
    BY <2>1, <2>2 DEF PageOf, RoomLeft
  <2>4. LineHeights \in Seq(Nat)
    BY TypeInit, LineHeightsType
  <2>5. QED
    BY <2>1, <2>3, <2>4 DEF Flow!Init, PlacedInv
<1>2. SafetyInv /\ PlacedInv /\ [Next]_vars
        => [Flow!Next]_(Flow!flowVars) /\ PlacedInv'
  <2> SUFFICES ASSUME SafetyInv, PlacedInv, [Next]_vars
               PROVE  [Flow!Next]_(Flow!flowVars) /\ PlacedInv'
    OBVIOUS
  <2>1. CASE PlaceLine
    <3>1. PlacedInv'
      BY <2>1, LinePlaced
    <3>2. QED
      BY <2>1, <3>1, PlaceFlows
  <2>2. CASE TurnPage
    BY <2>2, TurnKeepsFlow
  <2>3. CASE Return
    BY <2>3, ReturnEndsFlow
  <2>4. CASE UNCHANGED vars
    <3>1. Layout' = Layout /\ lineIndex' = lineIndex /\ text' = text /\ pc' = pc
      BY <2>4 DEF vars, Layout
    <3>2. \A m : PagesWith(m)' = PagesWith(m)
      BY <3>1 DEF PagesWith, LinesOf
    <3>3. /\ PageOf' = PageOf /\ RoomLeft' = RoomLeft /\ LineHeights' = LineHeights
          /\ PlacedInv'
      BY <3>1, <3>2, SamePages DEF SafetyInv
    <3>4. QED
      BY <3>1, <3>3 DEF Flow!flowVars
  <2>5. QED
    BY <2>1, <2>2, <2>3, <2>4 DEF Next, Returned
<1>3. QED
  BY <1>1, <1>2, Safety, PTL DEF Spec, PaginateFlowsSafely

------------------------------------------------------------------------------
\* The pages returned.

\* The heights of a text's lines, and what is above each line.
LEMMA HeightAboveFacts ==
    ASSUME TypeOK
    PROVE  /\ HeightAbove \in [0..Len(text.lines) -> Nat]
           /\ HeightAbove[0] = 0
           /\ \A n \in 1..Len(text.lines) :
                  HeightAbove[n]
                    = HeightAbove[n - 1] + CalculateLineHeight(text.lines[n])
           /\ \A i, j \in 0..Len(text.lines) :
                  i <= j => HeightAbove[i] <= HeightAbove[j]
<1>1. /\ LineHeights \in Seq(Nat) /\ Len(LineHeights) = Len(text.lines)
      /\ \A n \in 1..Len(text.lines) :
             LineHeights[n] = CalculateLineHeight(text.lines[n])
  BY LineHeightsType
<1>2. /\ RunningSum(LineHeights) \in [0..Len(LineHeights) -> Nat]
      /\ RunningSum(LineHeights)[0] = 0
      /\ \A n \in 1..Len(LineHeights) :
             RunningSum(LineHeights)[n] = RunningSum(LineHeights)[n - 1] + LineHeights[n]
  BY <1>1, RunningSumFacts
<1>3. \A i, j \in 0..Len(LineHeights) :
          i <= j => RunningSum(LineHeights)[i] <= RunningSum(LineHeights)[j]
  BY <1>1, RunningSumGrows
<1>4. QED
  BY <1>1, <1>2, <1>3 DEF HeightAbove

------------------------------------------------------------------------------
\* UsedHeight is the height of the lines.

\* Placing a line adds its height to the page that takes it.
LEMMA HeightPlace == SafetyInv /\ HeightInv /\ PlaceLine => HeightInv'
<1> SUFFICES ASSUME SafetyInv, HeightInv, PlaceLine PROVE HeightInv'
  OBVIOUS
<1>0. PICK k : k = Len(pages) + 1
  OBVIOUS
<1> DEFINE h == CalculateLineHeight(text.lines[lineIndex + 1])
<1>1. TypeOK /\ PositionsInv /\ OpenPageInv
  BY DEF SafetyInv
<1>2. TypeOK'
  BY <1>1, TypeStep DEF Next
<1>3. /\ Len(Layout) = k /\ Len(Layout') = k /\ k \in Nat \ {0}
      /\ \A m \in 1..(k - 1) : Layout'[m] = Layout[m]
      /\ Layout'[k].AllMainLines = Append(Layout[k].AllMainLines, lineIndex + 1)
      /\ Layout'[k].UsedHeight = Layout[k].UsedHeight + h
      /\ lineIndex + 1 \in 1..Len(text.lines)
      /\ lineIndex' = lineIndex + 1 /\ text' = text
      /\ pc = "loop" /\ pc' = "loop"
  <2>1. Len(pages) \in Nat
    BY <1>1 DEF TypeOK
  <2>2. QED
    BY <1>0, <1>1, <2>1, LayoutPlaced
<1>4. Layout \in Seq(PageType) /\ Layout' \in Seq(PageType)
  <2>1. Layout' \in Seq(PageType)
    BY <1>2 DEF TypeOK, Layout
  <2>2. QED
    BY <1>1, <2>1, LayoutType
<1>5. DOMAIN Layout = 1..k /\ DOMAIN Layout' = 1..k
  BY <1>3, <1>4
<1>6. HeightAbove' = HeightAbove
  BY <1>3 DEF HeightAbove, LineHeights, CalculateLineHeight
<1>7. /\ HeightAbove \in [0..Len(text.lines) -> Nat]
      /\ HeightAbove[lineIndex + 1] = HeightAbove[lineIndex] + h
  <2>1. (lineIndex + 1) - 1 = lineIndex
    BY <1>1 DEF TypeOK
  <2>2. QED
    BY <1>1, <1>3, <2>1, HeightAboveFacts
<1> HIDE DEF h
<1>8. h \in Nat
  BY <1>1, <1>3, TextType DEF h
<1>9. ASSUME NEW m \in 1..k, LinesOf(m)' # <<>>
      PROVE  Layout'[m].UsedHeight
               = HeightAbove[LastOf(m)'] - HeightAbove[LinesOf(m)'[1] - 1]
  <2>1. CASE m # k
    <3>1. Layout'[m] = Layout[m]
      BY <1>3, <2>1
    <3>2. LinesOf(m)' = LinesOf(m) /\ LastOf(m)' = LastOf(m)
      BY <3>1 DEF LinesOf, LastOf
    <3>3. QED
      BY <1>5, <1>9, <3>1, <3>2 DEF HeightInv
  <2>2. CASE m = k
    <3>1. k \in DOMAIN Layout
      BY <1>3, <1>5
    <3>2. /\ LinesOf(k) \in Seq(Nat \ {0}) /\ Layout[k].UsedHeight \in Nat
          /\ LinesOf(k)' = Append(LinesOf(k), lineIndex + 1)
      <4>1. Layout[k] \in PageType
        BY <1>4, <3>1
      <4>2. LinesOf(k) \in Seq(Nat \ {0}) /\ Layout[k].UsedHeight \in Nat
        BY <4>1 DEF PageType, LinesOf
      <4>3. QED
        BY <1>3, <4>2 DEF LinesOf
    <3>3. LastOf(k)' = lineIndex + 1 /\ (LinesOf(k) # <<>> => LinesOf(k)'[1] = LinesOf(k)[1])
          /\ (LinesOf(k) = <<>> => LinesOf(k)'[1] = lineIndex + 1)
      <4>1. lineIndex + 1 \in Nat \ {0}
        BY <1>3
      <4>2. QED
        BY <3>2, <4>1, AppendFacts DEF LastOf
    <3>4. CASE LinesOf(k) = <<>>
      <4>1. Layout[k].UsedHeight = 0
        BY <1>1, <1>3, <3>4 DEF OpenPageInv
      <4>2. HeightAbove[lineIndex + 1] - HeightAbove[(lineIndex + 1) - 1] = h
        <5>1. lineIndex \in 0..Len(text.lines) /\ (lineIndex + 1) - 1 = lineIndex
          BY <1>1 DEF TypeOK
        <5>2. HeightAbove[lineIndex] \in Nat
          BY <5>1, <1>7
        <5>3. QED
          BY <5>1, <5>2, <1>7, <1>8
      <4>3. Layout'[k].UsedHeight = h
        BY <1>3, <1>8, <4>1
      <4>4. QED
        BY <2>2, <3>3, <3>4, <4>2, <4>3 DEF LinesOf, LastOf
    <3>5. CASE LinesOf(k) # <<>>
      <4>1. LastOf(k) = lineIndex
        BY <1>1, <1>3, <3>5 DEF OpenPageInv
      <4>2. Layout[k].UsedHeight = HeightAbove[lineIndex] - HeightAbove[LinesOf(k)[1] - 1]
        BY <3>1, <3>5, <4>1 DEF HeightInv
      <4>3. LinesOf(k)[1] \in 1..lineIndex
        <5>1. 1 \in DOMAIN LinesOf(k)
          BY <3>2, <3>5
        <5>2. QED
          BY <1>1, <3>1, <5>1 DEF PositionsInv
      <4>4. HeightAbove[lineIndex] \in Nat /\ HeightAbove[LinesOf(k)[1] - 1] \in Nat
        <5>1. lineIndex \in 0..Len(text.lines) /\ Len(text.lines) \in Nat
          BY <1>1, TextType DEF TypeOK
        <5>2. LinesOf(k)[1] - 1 \in 0..Len(text.lines)
          BY <5>1, <4>3
        <5>3. QED
          BY <1>7, <5>1, <5>2
      <4>5. Layout'[k].UsedHeight = Layout[k].UsedHeight + h
        BY <1>3
      <4>6. Layout'[k].UsedHeight
              = HeightAbove[lineIndex + 1] - HeightAbove[LinesOf(k)[1] - 1]
        BY <1>7, <1>8, <4>2, <4>4, <4>5
      <4>7. QED
        BY <2>2, <3>3, <3>5, <4>6 DEF LinesOf, LastOf
    <3>6. QED
      BY <3>4, <3>5
  <2>3. QED
    BY <2>1, <2>2
<1>10. QED
  BY <1>5, <1>6, <1>9 DEF HeightInv

\* Turning the page and returning change no page that has lines.
LEMMA HeightStep == SafetyInv /\ HeightInv /\ [Next]_vars => HeightInv'
<1> SUFFICES ASSUME SafetyInv, HeightInv, [Next]_vars PROVE HeightInv'
  OBVIOUS
<1>1. TypeOK /\ OpenPageInv /\ TypeOK'
  BY TypeStep DEF SafetyInv
<1>2. Layout \in Seq(PageType) /\ Layout' \in Seq(PageType)
  <2>1. Layout' \in Seq(PageType)
    BY <1>1 DEF TypeOK, Layout
  <2>2. QED
    BY <1>1, <2>1, LayoutType
<1>3. CASE PlaceLine
  BY <1>3, HeightPlace
<1>4. ASSUME text' = text,
             \A m \in DOMAIN Layout' :
                 Layout'[m].AllMainLines # <<>> =>
                     m \in DOMAIN Layout /\ Layout'[m] = Layout[m]
      PROVE  HeightInv'
  <2>1. HeightAbove' = HeightAbove
    BY <1>4 DEF HeightAbove, LineHeights, CalculateLineHeight
  <2>2. ASSUME NEW m \in DOMAIN Layout', LinesOf(m)' # <<>>
        PROVE  Layout'[m].UsedHeight
                 = HeightAbove[LastOf(m)'] - HeightAbove[LinesOf(m)'[1] - 1]
    <3>1. m \in DOMAIN Layout /\ Layout'[m] = Layout[m]
      BY <1>4, <2>2 DEF LinesOf
    <3>2. LinesOf(m)' = LinesOf(m) /\ LastOf(m)' = LastOf(m)
      BY <3>1 DEF LinesOf, LastOf
    <3>3. QED
      BY <2>2, <3>1, <3>2 DEF HeightInv
  <2>3. QED
    BY <2>1, <2>2 DEF HeightInv
<1>5. CASE TurnPage
  <2>1. PICK k \in Nat \ {0} :
               /\ Len(Layout) = k /\ Len(Layout') = k + 1
               /\ \A m \in 1..k : Layout'[m] = Layout[m]
               /\ Layout'[k + 1].AllMainLines = <<>>
               /\ text' = text
    BY <1>1, <1>5, LayoutTurned
  <2>2. DOMAIN Layout = 1..k /\ DOMAIN Layout' = 1..(k + 1)
    BY <1>2, <2>1
  <2>3. \A m \in 1..(k + 1) : m \in 1..k \/ m = k + 1
    OBVIOUS
  <2>4. QED
    BY <1>4, <2>1, <2>2, <2>3
<1>6. CASE Return
  <2>1. text' = text /\ (Layout' = Layout \/ Layout' = <<>>)
    BY <1>1, <1>6, LayoutReturned
  <2>2. QED
    BY <1>4, <2>1
<1>7. CASE UNCHANGED vars
  BY <1>4, <1>7 DEF vars, Layout
<1>8. QED
  BY <1>3, <1>5, <1>6, <1>7 DEF Next, Returned

\* At first the only page is empty.
LEMMA HeightInit == Init => HeightInv
<1> SUFFICES ASSUME Init PROVE HeightInv
  OBVIOUS
<1>1. Layout = <<currentPage>>
  BY DEF Init, Layout
<1>2. currentPage.AllMainLines = <<>>
  BY NewPageType DEF Init
<1>3. DOMAIN Layout = {1} /\ Layout[1] = currentPage
  BY <1>1
<1>4. QED
  BY <1>2, <1>3 DEF HeightInv, LinesOf

\* UsedHeight is always the height of the page's lines.
THEOREM UsedHeightIsHeight == Spec => [](SafetyInv /\ HeightInv)
<1>1. SafetyInv /\ HeightInv /\ [Next]_vars => (SafetyInv /\ HeightInv)'
  BY HeightStep, SafetyPlace, SafetyTurn, SafetyReturn, SafetyStutter DEF Next, Returned
<1>2. Init => SafetyInv /\ HeightInv
  BY SafetyInit, HeightInit
<1>3. QED
  BY <1>1, <1>2, PTL DEF Spec

------------------------------------------------------------------------------
\* What the result is: pages that follow each other.
LEMMA PagesFollow ==
    ASSUME SafetyInv, pc = "returned", pages # <<>>
    PROVE  /\ Layout = pages /\ DOMAIN Layout = 1..Len(pages)
           /\ Len(pages) \in Nat \ {0} /\ Len(text.lines) \in Nat
           /\ lineIndex = Len(text.lines)
           /\ \A k \in 1..Len(pages) :
                  /\ LinesOf(k) \in Seq(Nat \ {0}) /\ LinesOf(k) # <<>>
                  /\ Layout[k].UsedHeight \in Nat
                  /\ LinesOf(k)[1] = (IF k = 1 THEN 0 ELSE LastOf(k - 1)) + 1
                  /\ LinesOf(k)[1] \in 1..Len(text.lines)
                  /\ LastOf(k) \in 1..Len(text.lines)
           /\ LastOf(Len(pages)) = Len(text.lines)
<1>1. TypeOK /\ PositionsInv /\ LinesInOrder /\ EmptyPagesInv /\ ReturnedInv
  BY DEF SafetyInv
<1>2. Layout = pages /\ Layout \in Seq(PageType)
  BY <1>1, LayoutType
<1>3. Len(pages) \in Nat \ {0} /\ DOMAIN Layout = 1..Len(Layout) /\ Len(Layout) = Len(pages)
  BY <1>2
<1> DEFINE P == Len(pages)
           L == Len(text.lines)
<1>4. L \in Nat /\ lineIndex = L
  BY <1>1, TextType DEF ReturnedInv
<1>5. ASSUME NEW k \in 1..P
      PROVE  LinesOf(k) # <<>>
  <2>1. k = Len(pages) \/ k \in 1..(Len(pages) - 1)
    <3>1. Len(pages) \in Nat
      BY <1>3
    <3>2. QED
      BY <3>1
  <2>2. QED
    BY <2>1, <1>1, <1>3 DEF EmptyPagesInv, ReturnedInv
<1>6. ASSUME NEW k \in 1..P
      PROVE  /\ LinesOf(k) \in Seq(Nat \ {0}) /\ Layout[k].UsedHeight \in Nat
             /\ LinesOf(k)[1] \in 1..L /\ LastOf(k) \in 1..L
  <2>1. k \in DOMAIN Layout /\ Layout[k] \in PageType
    BY <1>2, <1>3
  <2>2. LinesOf(k) \in Seq(Nat \ {0}) /\ Layout[k].UsedHeight \in Nat
    BY <2>1 DEF PageType, LinesOf
  <2>3. 1 \in DOMAIN LinesOf(k) /\ Len(LinesOf(k)) \in DOMAIN LinesOf(k)
    <3>1. LinesOf(k) # <<>>
      BY <1>5
    <3>2. QED
      BY <2>2, <3>1
  <2>4. QED
    BY <1>1, <1>4, <2>1, <2>2, <2>3 DEF PositionsInv, LastOf
<1>7. \A k \in 1..(P - 1) : LinesOf(k + 1)[1] = LastOf(k) + 1
  <2>1. \A k \in 1..(P - 1) : k \in 1..P /\ k + 1 \in 1..P
    BY <1>3
  <2>2. QED
    BY <1>1, <1>3, <1>5, <2>1 DEF LinesInOrder, LastOf
<1>8. LinesOf(1)[1] = 1
  <2>1. L > 0
    <3>1. 1 \in 1..P
      BY <1>3
    <3>2. LinesOf(1)[1] \in 1..L
      BY <3>1, <1>6
    <3>3. QED
      BY <3>2, <1>4
  <2>2. PICK k \in 1..P : LinesOf(k)[1] = 1
    BY <1>1, <1>3, <1>4, <2>1 DEF LinesInOrder
  <2>3. k = 1
    <3>1. SUFFICES ASSUME k # 1 PROVE FALSE
      OBVIOUS
    <3>2. k - 1 \in 1..(P - 1) /\ k - 1 \in 1..P /\ (k - 1) + 1 = k
      BY <3>1, <1>3
    <3>3. LinesOf(k)[1] = LastOf(k - 1) + 1
      BY <3>2, <1>7
    <3>4. LastOf(k - 1) \in 1..L
      BY <3>2, <1>6
    <3>5. QED
      BY <2>2, <3>3, <3>4, <1>4
  <2>4. QED
    BY <2>2, <2>3
<1>9. ASSUME NEW k \in 1..P
      PROVE  LinesOf(k)[1] = (IF k = 1 THEN 0 ELSE LastOf(k - 1)) + 1
  <2>1. CASE k = 1
    BY <2>1, <1>8
  <2>2. CASE k # 1
    <3>1. k - 1 \in 1..(P - 1) /\ (k - 1) + 1 = k
      BY <2>2, <1>3
    <3>2. QED
      BY <2>2, <3>1, <1>7
  <2>3. QED
    BY <2>1, <2>2
<1>10. LastOf(P) = L
  BY <1>1, <1>4 DEF ReturnedInv
<1>11. QED
  BY <1>2, <1>3, <1>4, <1>5, <1>6, <1>9, <1>10

\* What the result is: pages filled as far as the lines let them.
LEMMA PagesAreGreedy ==
    ASSUME SafetyInv, HeightInv, pc = "returned", pages # <<>>
    PROVE  /\ Layout = pages /\ Len(pages) \in Nat \ {0} /\ Len(text.lines) \in Nat
           /\ \A k \in 1..Len(pages) : LastOf(k) \in 1..Len(text.lines)
           /\ LastOf(Len(pages)) = Len(text.lines)
           /\ \A k \in 1..Len(pages) :
                  Layout[k].UsedHeight =
                    HeightAbove[LastOf(k)] - HeightAbove[IF k = 1 THEN 0 ELSE LastOf(k - 1)]
           /\ \A k \in 1..(Len(pages) - 1) :
                  /\ LastOf(k) + 1 \in 1..Len(text.lines)
                  /\ Layout[k].UsedHeight
                       + CalculateLineHeight(text.lines[LastOf(k) + 1]) > AvailableHeight
<1>1. GreedyFit /\ TypeOK
  BY DEF SafetyInv
<1> DEFINE P == Len(pages)
           L == Len(text.lines)
<1>2. /\ Layout = pages /\ DOMAIN Layout = 1..P /\ P \in Nat \ {0} /\ L \in Nat
      /\ \A k \in 1..P :
             /\ LinesOf(k) # <<>>
             /\ LinesOf(k)[1] = (IF k = 1 THEN 0 ELSE LastOf(k - 1)) + 1
             /\ LinesOf(k)[1] \in 1..L /\ LastOf(k) \in 1..L
      /\ LastOf(P) = L
  BY PagesFollow
<1>3. ASSUME NEW k \in 1..P
      PROVE  Layout[k].UsedHeight =
               HeightAbove[LastOf(k)] - HeightAbove[IF k = 1 THEN 0 ELSE LastOf(k - 1)]
  <2>1. Layout[k].UsedHeight = HeightAbove[LastOf(k)] - HeightAbove[LinesOf(k)[1] - 1]
    BY <1>2 DEF HeightInv
  <2>2. LinesOf(k)[1] - 1 = IF k = 1 THEN 0 ELSE LastOf(k - 1)
    <3>1. k # 1 => k - 1 \in 1..P
      BY <1>2
    <3>2. (IF k = 1 THEN 0 ELSE LastOf(k - 1)) \in Int
      BY <1>2, <3>1
    <3>3. QED
      BY <1>2, <3>2, SMTT(30)
  <2>3. QED
    BY <2>1, <2>2
<1>4. ASSUME NEW k \in 1..(P - 1)
      PROVE  /\ LastOf(k) + 1 \in 1..L
             /\ Layout[k].UsedHeight
                  + CalculateLineHeight(text.lines[LastOf(k) + 1]) > AvailableHeight
  <2>1. k + 1 \in 1..P /\ k + 1 # 1 /\ (k + 1) - 1 = k /\ Len(Layout) = P
    BY <1>2
  <2>2. LinesOf(k + 1)[1] = LastOf(k) + 1 /\ LinesOf(k + 1)[1] \in 1..L
        /\ LinesOf(k + 1) # <<>>
    BY <1>2, <2>1
  <2>3. Layout[k].UsedHeight
          + CalculateLineHeight(text.lines[LinesOf(k + 1)[1]]) > AvailableHeight
    BY <1>1, <2>1, <2>2 DEF GreedyFit
  <2>4. QED
    BY <2>2, <2>3
<1>5. QED
  BY <1>2, <1>3, <1>4

\* The result has the fewest pages: a cut into fewer runs that fit ends before
\* the last line, because it is never ahead of the pages.
LEMMA GreedyIsFewest == SafetyInv /\ HeightInv => FewestPages
<1> SUFFICES ASSUME SafetyInv, HeightInv, pc = "returned",
                    NEW m \in 0..(Len(pages) - 1), CutInto(m)
             PROVE  FALSE
  BY DEF FewestPages
<1> DEFINE P == Len(pages)
           L == Len(text.lines)
<1>1. TypeOK /\ pages \in Seq(PageType)
  BY DEF SafetyInv, TypeOK
<1>2. P \in Nat \ {0} /\ m \in Nat /\ m < P /\ pages # <<>>
  BY <1>1
<1>3. /\ L \in Nat
      /\ \A k \in 1..P : LastOf(k) \in 1..L
      /\ LastOf(P) = L
      /\ \A k \in 1..P :
             Layout[k].UsedHeight =
               HeightAbove[LastOf(k)] - HeightAbove[IF k = 1 THEN 0 ELSE LastOf(k - 1)]
      /\ \A k \in 1..(P - 1) :
             /\ LastOf(k) + 1 \in 1..L
             /\ Layout[k].UsedHeight
                  + CalculateLineHeight(text.lines[LastOf(k) + 1]) > AvailableHeight
  BY <1>2, PagesAreGreedy
<1>4. /\ HeightAbove \in [0..L -> Nat]
      /\ \A n \in 1..L :
             HeightAbove[n] = HeightAbove[n - 1] + CalculateLineHeight(text.lines[n])
      /\ \A i, j \in 0..L : i <= j => HeightAbove[i] <= HeightAbove[j]
  BY <1>1, HeightAboveFacts
<1>5. AvailableHeight \in Int
  BY HeightsType
<1> DEFINE greedy == [k \in 0..P |-> IF k = 0 THEN 0 ELSE LastOf(k)]
           Runs == {r \in (0..L) \X (0..L) :
                       HeightAbove[r[2]] - HeightAbove[r[1]] <= AvailableHeight}
<1>6. greedy \in [0..P -> 0..L]
  <2>1. \A k \in 0..P : (IF k = 0 THEN 0 ELSE LastOf(k)) \in 0..L
    BY <1>2, <1>3
  <2>2. QED
    BY <2>1
<1>7. PICK cut \in [0..m -> 0..L] :
             /\ cut[0] = 0 /\ cut[m] = L
             /\ \A k \in 1..m :
                   /\ cut[k - 1] <= cut[k]
                   /\ HeightAbove[cut[k]] - HeightAbove[cut[k - 1]] <= AvailableHeight
  BY DEF CutInto
<1>8. \A k \in 1..m : <<cut[k - 1], cut[k]>> \in Runs
  <2>1. ASSUME NEW k \in 1..m
        PROVE  cut[k - 1] \in 0..L /\ cut[k] \in 0..L
    BY <1>2
  <2>2. QED
    BY <1>7, <2>1
<1>9. ASSUME NEW k \in 1..(P - 1), NEW i \in 0..greedy[k - 1], NEW j \in (greedy[k] + 1)..L
      PROVE  <<i, j>> \notin Runs
  <2>1. k \in 1..P /\ k \in 0..P /\ k - 1 \in 0..P /\ k \in Nat
    BY <1>2
  <2>2. /\ greedy[k] = LastOf(k)
        /\ greedy[k - 1] = IF k = 1 THEN 0 ELSE LastOf(k - 1)
    BY <2>1
  <2> DEFINE g == greedy[k - 1]
             n == greedy[k]
             h == CalculateLineHeight(text.lines[n + 1])
  <2>3. g \in 0..L /\ n \in 0..L
    BY <1>6, <2>1
  <2>4. /\ n + 1 \in 1..L
        /\ Layout[k].UsedHeight = HeightAbove[n] - HeightAbove[g]
        /\ Layout[k].UsedHeight + h > AvailableHeight
    BY <1>3, <2>1, <2>2
  <2> HIDE DEF g, n, h, greedy
  <2>5. HeightAbove[n + 1] = HeightAbove[n] + h
    <3>1. (n + 1) - 1 = n
      BY <2>3
    <3>2. QED
      BY <1>4, <2>4, <3>1 DEF h
  <2>6. i \in 0..L /\ j \in 0..L /\ i <= g /\ n + 1 <= j /\ n + 1 \in 0..L
    <3>1. i \in 0..g /\ j \in (n + 1)..L
      BY DEF g, n
    <3>2. \A b, c, l \in Nat : \A a \in 0..b, d \in (c + 1)..l :
              b <= l => a \in 0..l /\ d \in 0..l /\ a <= b /\ c + 1 <= d
      OBVIOUS
    <3>3. g \in Nat /\ g <= L /\ n \in Nat /\ L \in Nat
      BY <1>3, <2>3
    <3>4. n + 1 \in 0..L
      BY <2>4, <3>3
    <3>5. QED
      BY <3>1, <3>2, <3>3, <3>4
  <2>7. HeightAbove[i] <= HeightAbove[g] /\ HeightAbove[n + 1] <= HeightAbove[j]
    BY <1>4, <2>3, <2>6
  <2>8. /\ HeightAbove[i] \in Nat /\ HeightAbove[j] \in Nat /\ HeightAbove[g] \in Nat
        /\ HeightAbove[n] \in Nat /\ HeightAbove[n + 1] \in Nat
    BY <1>4, <2>3, <2>6
  <2>9. h \in Int
    <3>1. n + 1 \in 1..Len(text.lines)
      BY <2>4
    <3>2. CalculateLineHeight(text.lines[n + 1]) \in Nat
      BY <1>1, <3>1, TextType
    <3>3. QED
      BY <3>2 DEF h
  <2>10. ~(HeightAbove[j] - HeightAbove[i] <= AvailableHeight)
    <3>1. HeightAbove[n] - HeightAbove[g] + h > AvailableHeight
      BY <2>4
    <3>2. \A a, b, c, d, e, f, room \in Int :
              /\ c - b + f > room /\ d = c + f /\ a <= b /\ d <= e
              => ~(e - a <= room)
      OBVIOUS
    <3>3. /\ HeightAbove[i] \in Int /\ HeightAbove[g] \in Int /\ HeightAbove[n] \in Int
          /\ HeightAbove[n + 1] \in Int /\ HeightAbove[j] \in Int
      <4>1. \A x \in Nat : x \in Int
        OBVIOUS
      <4>2. QED
        BY <2>8, <4>1, Zenon
    <3>4. QED
      BY <1>5, <2>5, <2>7, <2>9, <3>1, <3>2, <3>3
  <2>11. QED
    BY <2>10
<1> HIDE DEF greedy, Runs, P, L
<1>10. cut[m] <= greedy[m]
  BY <1>2, <1>3, <1>6, <1>7, <1>8, <1>9, GreedyIsAhead
<1>11. greedy[m] < L
  <2>1. m \in 0..(P - 1) /\ m \in 0..P
    BY <1>2
  <2>2. CASE m = 0
    BY <2>1, <2>2, <1>2, <1>3 DEF greedy
  <2>3. CASE m # 0
    <3>1. m \in 1..(P - 1)
      BY <2>1, <2>3
    <3>2. LastOf(m) + 1 \in 1..L /\ LastOf(m) \in 1..L
      BY <3>1, <1>2, <1>3 DEF P, L
    <3>3. greedy[m] = LastOf(m)
      BY <2>1, <2>3 DEF greedy
    <3>4. QED
      BY <3>2, <3>3, <1>3
  <2>4. QED
    BY <2>2, <2>3
<1>12. greedy[m] \in Nat
  BY <1>2, <1>3, <1>6
<1>13. QED
  BY <1>3, <1>7, <1>10, <1>11, <1>12

\* The layout Paginate returns has as few pages as any layout of the same lines
\* in the same order.
THEOREM FirstFitIsOptimal == Spec => []FewestPages
BY UsedHeightIsHeight, GreedyIsFewest, PTL

------------------------------------------------------------------------------
\* The summary.

\* The pages' lines add up to the place of the last of them.
LEMMA LinesAddUp ==
    ASSUME SafetyInv, pc = "returned", pages # <<>>
    PROVE  Total(LineCounts) = Len(text.lines)
<1> DEFINE P == Len(pages)
           L == Len(text.lines)
           sum == RunningSum(LineCounts)
<1>1. /\ Layout = pages /\ DOMAIN Layout = 1..P /\ P \in Nat \ {0} /\ L \in Nat
      /\ \A k \in 1..P :
             /\ LinesOf(k) \in Seq(Nat \ {0}) /\ LinesOf(k) # <<>>
             /\ LinesOf(k)[1] = (IF k = 1 THEN 0 ELSE LastOf(k - 1)) + 1
             /\ LinesOf(k)[1] \in 1..L /\ LastOf(k) \in 1..L
      /\ LastOf(P) = L
  BY PagesFollow
<1>2. LinesInOrder
  BY DEF SafetyInv
<1>3. ASSUME NEW k \in 1..P
      PROVE  /\ Len(LinesOf(k)) \in Nat
             /\ Len(LinesOf(k)) = LastOf(k) - (IF k = 1 THEN 0 ELSE LastOf(k - 1))
  <2>1. \A j \in 1..(Len(LinesOf(k)) - 1) : LinesOf(k)[j + 1] = LinesOf(k)[j] + 1
    BY <1>1, <1>2 DEF LinesInOrder
  <2>2. LinesOf(k) \in Seq(Nat) /\ LinesOf(k) # <<>> /\ Len(LinesOf(k)) \in Nat
    BY <1>1
  <2>3. LastOf(k) = LinesOf(k)[1] + (Len(LinesOf(k)) - 1)
    BY <2>1, <2>2, RunOfNumbers DEF LastOf
  <2>4. k # 1 => k - 1 \in 1..P
    BY <1>1
  <2>5. (IF k = 1 THEN 0 ELSE LastOf(k - 1)) \in Int
    BY <1>1, <2>4
  <2>6. QED
    BY <1>1, <2>2, <2>3, <2>5
<1>4. LineCounts \in Seq(Nat) /\ Len(LineCounts) = P
      /\ \A k \in 1..P : LineCounts[k] = Len(LinesOf(k))
  <2>1. LineCounts = [k \in 1..P |-> Len(LinesOf(k))]
    BY <1>1 DEF LineCounts, LinesOf
  <2>2. \A k \in 1..P : Len(LinesOf(k)) \in Nat
    BY <1>3
  <2>3. QED
    BY <1>1, <2>1, <2>2
<1>5. sum[0] = 0 /\ \A n \in 1..P : sum[n] = sum[n - 1] + LineCounts[n]
  BY <1>4, RunningSumFacts
<1> HIDE DEF sum
<1> DEFINE upTo == {m \in Nat : m <= P => sum[m] = IF m = 0 THEN 0 ELSE LastOf(m)}
<1>6. 0 \in upTo
  BY <1>5
<1>7. ASSUME NEW m \in Nat, m \in upTo
      PROVE  m + 1 \in upTo
  <2> SUFFICES ASSUME m + 1 <= P PROVE sum[m + 1] = LastOf(m + 1)
    OBVIOUS
  <2>1. m + 1 \in 1..P /\ (m + 1) - 1 = m /\ m <= P
    BY <1>1
  <2>2. sum[m + 1] = sum[m] + Len(LinesOf(m + 1))
    BY <1>4, <1>5, <2>1
  <2>3. Len(LinesOf(m + 1)) = LastOf(m + 1) - (IF m + 1 = 1 THEN 0 ELSE LastOf(m))
    BY <1>3, <2>1
  <2>4. sum[m] = IF m = 0 THEN 0 ELSE LastOf(m)
    BY <1>7, <2>1
  <2>5. LastOf(m + 1) \in Int /\ (m # 0 => LastOf(m) \in Int)
    BY <1>1, <2>1
  <2>6. QED
    BY <2>2, <2>3, <2>4, <2>5
<1> HIDE DEF upTo
<1>8. Nat \subseteq upTo
  BY <1>6, <1>7, Induction
<1>9. P \in upTo
  BY <1>1, <1>8
<1>10. sum[P] = L
  BY <1>1, <1>9 DEF upTo
<1>11. QED
  BY <1>4, <1>10 DEF Total, sum

\* One page has the notes of a system, if it has any.
LEMMA NotesAddUp ==
    ASSUME SafetyInv, pc = "returned", pages # <<>>, NEW s \in Systems
    PROVE  Total(NoteCounts(s)) = text.notes[s]
<1> DEFINE P == Len(pages)
           N == text.notes[s]
<1>1. /\ Layout = pages /\ DOMAIN Layout = 1..P /\ P \in Nat \ {0}
      /\ lineIndex = Len(text.lines) /\ Len(text.lines) \in Nat
      /\ LastOf(1) \in 1..Len(text.lines)
  BY PagesFollow
<1>2. lineIndex # 0
  BY <1>1
<1>3. TypeOK /\ NotesExactlyOnce
  BY DEF SafetyInv
<1>4. N \in Nat /\ Layout \in Seq(PageType)
  BY <1>3, TextType, LayoutType
<1>5. ASSUME NEW k \in 1..P
      PROVE  NotesOnPage(k, s) \in Seq(Nat \ {0})
  <2>1. Layout[k] \in PageType
    BY <1>1, <1>4
  <2>2. QED
    BY <2>1 DEF PageType, NotesOnPage
<1> DEFINE holders == {k \in DOMAIN Layout : NotesOnPage(k, s) # <<>>}
<1>6. PICK h \in 1..P : \A k \in 1..P :
          NotesOnPage(k, s) = IF k = h THEN [n \in 1..N |-> n] ELSE <<>>
  <2>1. CASE N = 0
    <3>1. holders = {}
      BY <1>3, <2>1 DEF NotesExactlyOnce
    <3>2. \A k \in 1..P : NotesOnPage(k, s) = <<>>
      BY <1>1, <3>1
    <3>3. [n \in 1..N |-> n] = <<>> /\ 1 \in 1..P
      BY <1>1, <2>1
    <3>4. QED
      BY <3>2, <3>3
  <2>2. CASE N # 0
    <3>1. PICK h \in DOMAIN Layout :
              holders = {h} /\ NotesOnPage(h, s) = [n \in 1..N |-> n]
      BY <1>2, <1>3, <2>2 DEF NotesExactlyOnce
    <3>2. \A k \in 1..P : k # h => NotesOnPage(k, s) = <<>>
      BY <1>1, <3>1
    <3>3. QED
      BY <1>1, <3>1, <3>2
  <2>3. QED
    BY <2>1, <2>2
<1> HIDE DEF holders
<1>7. \A k \in 1..P : Len(NotesOnPage(k, s)) = IF k = h THEN N ELSE 0
  <2>1. Len([n \in 1..N |-> n]) = N /\ Len(<<>>) = 0
    BY <1>4
  <2>2. QED
    BY <1>6, <2>1
<1>8. /\ NoteCounts(s) \in Seq(Nat) /\ Len(NoteCounts(s)) = P
      /\ \A k \in 1..P : NoteCounts(s)[k] = IF k = h THEN N ELSE 0
  <2>1. NoteCounts(s) = [k \in 1..P |-> Len(NotesOnPage(k, s))]
    BY <1>1 DEF NoteCounts, NotesOnPage
  <2>2. \A k \in 1..P : Len(NotesOnPage(k, s)) \in Nat
    BY <1>4, <1>7
  <2>3. QED
    BY <1>1, <1>7, <2>1, <2>2
<1>9. RunningSum(NoteCounts(s))[P] = N
  BY <1>4, <1>8, RunningSumOfOne
<1>10. QED
  BY <1>8, <1>9 DEF Total

\* The sums of notes in the summary are those of the text, whichever pages took the
\* notes.
THEOREM SummaryIsRight == Spec => []SummaryCountsNotes
<1>1. SafetyInv => SummaryCountsNotes
  <2> SUFFICES ASSUME SafetyInv, pc = "returned", pages # <<>>
               PROVE  GetPaginationSummary.notes = text.notes
    BY DEF SummaryCountsNotes
  <2>1. \A s \in Systems : Total(NoteCounts(s)) = text.notes[s]
    BY NotesAddUp
  <2>2. text.notes \in [Systems -> Nat]
    BY TextType DEF SafetyInv
  <2>3. [s \in Systems |-> Total(NoteCounts(s))] = text.notes
    BY <2>1, <2>2
  <2>4. QED
    BY <2>3 DEF GetPaginationSummary
<1>2. QED
  BY <1>1, Safety, PTL

\* What the summary calls totalChars is the number of lines of the text.
THEOREM TotalIsOfLines ==
    Spec => [](pc = "returned" /\ pages # <<>> =>
                  GetPaginationSummary.totalChars = Len(text.lines))
<1>1. SafetyInv => (pc = "returned" /\ pages # <<>> =>
                       GetPaginationSummary.totalChars = Len(text.lines))
  BY LinesAddUp DEF GetPaginationSummary
<1>2. QED
  BY <1>1, Safety, PTL

=============================================================================
