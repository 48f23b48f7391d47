---------------------------- MODULE EditorProofs ----------------------------
(***************************************************************************)
(* The safety of Editor for every set of texts, every number of pages an   *)
(* engine makes of them, and any number of layouts and restarts.           *)
(***************************************************************************)
EXTENDS EditorJournal, TLAPS

------------------------------------------------------------------------------
\* The pages of a layout.

\* An engine's pages are pages of this layout, numbered in order.
LEMMA NewPagesType ==
    ASSUME NEW engine \in Engines, text \in Texts, NEW n \in Nat
    PROVE  /\ NewPages(engine, n) \in Seq(Page)
           /\ Len(NewPages(engine, n)) = PageCount[engine][text]
           /\ DOMAIN NewPages(engine, n) = 1..PageCount[engine][text]
           /\ \A k \in DOMAIN NewPages(engine, n) :
                 NewPages(engine, n)[k] =
                    [engine |-> engine, text |-> text, layout |-> n, number |-> k]
           /\ PageCount[engine][text] \in Nat
<1>1. PageCount[engine][text] \in Nat
  BY ConstantsAssumption
<1>2. \A k \in 1..PageCount[engine][text] :
         [engine |-> engine, text |-> text, layout |-> n, number |-> k] \in Page
  BY <1>1 DEF Page
<1>3. QED
  BY <1>1, <1>2 DEF NewPages

\* A sequence that is not empty has a first element of its set.
LEMMA FirstElement ==
    ASSUME NEW S, NEW q \in Seq(S), q # <<>>
    PROVE  1 \in DOMAIN q /\ q[1] \in S
OBVIOUS

\* What Append keeps and adds.
LEMMA AppendFacts ==
    ASSUME NEW S, NEW q \in Seq(S), NEW x \in S
    PROVE  /\ Append(q, x) \in Seq(S)
           /\ Append(q, x) # <<>>
           /\ DOMAIN Append(q, x) = DOMAIN q \cup {Len(Append(q, x))}
           /\ \A i \in DOMAIN q : Append(q, x)[i] = q[i]
           /\ Append(q, x)[Len(Append(q, x))] = x
<1>1. Len(q) \in Nat /\ Len(Append(q, x)) = Len(q) + 1
  OBVIOUS
<1>2. /\ Append(q, x) \in Seq(S)
      /\ DOMAIN Append(q, x) = 1..(Len(q) + 1) /\ DOMAIN q = 1..Len(q)
      /\ \A i \in 1..Len(q) : Append(q, x)[i] = q[i]
      /\ Append(q, x)[Len(q) + 1] = x
  OBVIOUS
<1>3. Append(q, x) # <<>>
  <2>1. Append(q, x) = <<>> => Len(Append(q, x)) = 0
    OBVIOUS
  <2>2. QED
    BY <2>1, <1>1
<1>4. 1..(Len(q) + 1) = 1..Len(q) \cup {Len(q) + 1}
  BY <1>1
<1>5. QED
  BY <1>1, <1>2, <1>3, <1>4

\* Since the list was cleared before, it holds the new pages only.
LEMMA ShownPages ==
    ASSUME TypeOK, HandlerInv, ShowFirstPage
    PROVE  /\ caller \in Engines /\ text \in Texts /\ layouts \in Nat
           /\ pages' = NewPages(caller, layouts)
           /\ pages' \in Seq(Page)
<1>1. caller \in Engines /\ text \in Texts /\ layouts \in Nat /\ pages = <<>>
  BY DEF ShowFirstPage, HandlerInv, LayingOut, TypeOK
<1>2. NewPages(caller, layouts) \in Seq(Page)
  BY <1>1, NewPagesType
<1>3. pages' = <<>> \o NewPages(caller, layouts)
  BY <1>1 DEF ShowFirstPage
<1>4. QED
  BY <1>1, <1>2, <1>3

\* What is drawn is a canvas.
LEMMA CanvasType ==
    ASSUME NEW g \in Page \cup {NoPage}, NEW n \in Page \cup {NoPage}
    PROVE  DrawGlyphs(g, n) \in [glyphs : Page \cup {NoPage}, notes : Page \cup {NoPage}]
BY DEF DrawGlyphs, BlankCanvas

\* Clearing the list leaves a canvas.
LEMMA ClearedCanvas ==
    ASSUME TypeOK, NEW g \in Page \cup {NoPage}, ClearPages(g)
    PROVE  /\ canvas' \in [glyphs : Page \cup {NoPage}, notes : Page \cup {NoPage}]
           /\ pages' = <<>> /\ currentPage' = NoPage
BY CanvasType DEF ClearPages, TypeOK

\* What either layout command has done when it has cleared the list.
LEMMA BeginFacts ==
    ASSUME BeginLayout \/ BeginColumnLayout
    PROVE  /\ pc = "idle" /\ text # EmptyText
           /\ layouts' = layouts + 1 /\ status' = "working" /\ pc' = "cleared"
           /\ ClearPages(glyphs)
           /\ caller' \in Engines
           /\ UNCHANGED <<text, glyphs, lastGlyphCount, rows>>
<1>1. PICK engine \in {"pagination", "columns"} : LayOut(engine)
  BY Zenon DEF BeginLayout, BeginColumnLayout
<1>2. QED
  BY <1>1, Zenon DEF LayOut

\* The two ways a command fails before it clears the list.
LEMMA GivenUpEarly ==
    ASSUME FindNoWindow \/ PaginateThrows
    PROVE  /\ pc = "idle" /\ pc' \in {"idle", "error box"} /\ status' = "error"
           /\ UNCHANGED <<text, pages, currentPage, glyphs, lastGlyphCount, canvas,
                          rows, layouts, caller>>
BY DEF FindNoWindow, PaginateThrows

------------------------------------------------------------------------------
\* Type correctness.  The types of the state are kept with what a handler may
\* rely on, which the types of new pages and rows need.

\* The initial states have their types.
LEMMA InitInv == Init => EditorInv /\ PreviewInv
<1> SUFFICES ASSUME Init PROVE EditorInv /\ PreviewInv
  OBVIOUS
<1>1. TypeOK
  BY DEF Init, TypeOK, BlankCanvas
<1>2. HandlerInv /\ StatusInv
  BY DEF Init, HandlerInv, StatusInv
<1>3. SelectionListed /\ GlyphsCounted /\ PreviewInv
  BY DEF Init, SelectionListed, GlyphsCounted, PreviewInv
<1>4. PagesOfOneLayout /\ RowMatchesText /\ RowCountsFirstPage
  BY DEF Init, PagesOfOneLayout, RowMatchesText, RowCountsFirstPage
<1>5. QED
  BY <1>1, <1>2, <1>3, <1>4 DEF EditorInv

\* A row saved at the end of a layout is a row of the table.
LEMMA RowHasType ==
    ASSUME TypeOK, HandlerInv, pc = "saving"
    PROVE  Row \in RowType
<1>1. caller \in Engines /\ text \in Texts
  BY DEF HandlerInv, LayingOut
<1>2. Len(pages) \in Nat
  <2>1. pages \in Seq(Page)
    BY DEF TypeOK
  <2>2. QED
    BY <2>1
<1>3. lastGlyphCount \in Page \cup {NoPage} /\ layouts \in Nat
  BY DEF TypeOK
<1>4. QED
  BY <1>1, <1>2, <1>3 DEF Row, RowType

\* Every step keeps every variable in its type.
LEMMA TypeStep == TypeOK /\ HandlerInv /\ [Next]_vars => TypeOK'
<1> SUFFICES ASSUME TypeOK, HandlerInv, [Next]_vars PROVE TypeOK'
  OBVIOUS
<1>0. <<>> \in Seq(Page)
  OBVIOUS
<1>1. CASE TypeText
  BY <1>1 DEF TypeText, TypeOK
<1>2. CASE LayoutNothing
  <2>1. /\ canvas' \in [glyphs : Page \cup {NoPage}, notes : Page \cup {NoPage}]
        /\ pages' = <<>> /\ currentPage' = NoPage
    BY <1>2, ClearedCanvas DEF LayoutNothing
  <2>2. QED
    BY <1>0, <1>2, <2>1 DEF LayoutNothing, TypeOK
<1>3. CASE LayoutNoColumns
  BY <1>3 DEF LayoutNoColumns, TypeOK
<1>4. CASE BeginLayout \/ BeginColumnLayout
  <2>1. /\ canvas' \in [glyphs : Page \cup {NoPage}, notes : Page \cup {NoPage}]
        /\ pages' = <<>> /\ currentPage' = NoPage
    <3>1. ClearPages(glyphs)
      BY <1>4, BeginFacts, Zenon
    <3>2. glyphs \in Page \cup {NoPage}
      BY DEF TypeOK
    <3>3. QED
      BY <3>1, <3>2, ClearedCanvas, Zenon
  <2>2. layouts' \in Nat
    <3>1. layouts \in Nat
      BY DEF TypeOK
    <3>2. layouts' = layouts + 1
      BY <1>4, BeginFacts
    <3>3. QED
      BY <3>1, <3>2
  <2>3. caller' \in Engines \cup {"combo"} /\ status' = "working" /\ pc' = "cleared"
    BY <1>4, BeginFacts
  <2>4. /\ text' = text /\ glyphs' = glyphs /\ lastGlyphCount' = lastGlyphCount
        /\ rows' = rows
    BY <1>4, BeginFacts
  <2>5. /\ text' \in Texts \cup {EmptyText} /\ glyphs' \in Page \cup {NoPage}
        /\ lastGlyphCount' \in Page \cup {NoPage} /\ rows' \in Seq(RowType)
    BY <2>4 DEF TypeOK
  <2>6. QED
    BY <1>0, <2>1, <2>2, <2>3, <2>5 DEF TypeOK
<1>5. CASE SelectPage
  <2>0. \A k \in DOMAIN pages : pages[k] \in Page
    <3>1. pages \in Seq(Page)
      BY DEF TypeOK
    <3>2. QED
      BY <3>1
  <2>1. PICK k \in DOMAIN pages :
            /\ currentPage' = pages[k] /\ canvas' = DrawGlyphs(glyphs, pages[k])
            /\ pc' = "loading"
    BY <1>5 DEF SelectPage, SetCurrentPage
  <2>2. pages[k] \in Page
    BY <2>0, Zenon
  <2>3. /\ canvas' \in [glyphs : Page \cup {NoPage}, notes : Page \cup {NoPage}]
        /\ currentPage' \in Page /\ pc' = "loading"
    BY <2>1, <2>2, CanvasType DEF TypeOK
  <2>4. QED
    BY <1>5, <2>3 DEF SelectPage, TypeOK
<1>6. CASE ShowFirstPage
  <2>1. caller \in Engines /\ text \in Texts /\ layouts \in Nat
    BY <1>6 DEF ShowFirstPage, HandlerInv, LayingOut, TypeOK
  <2>2. pages' \in Seq(Page)
    BY <1>6, ShownPages
  <2>3. CASE pages' = <<>>
    BY <1>6, <2>2, <2>3 DEF ShowFirstPage, TypeOK
  <2>4. CASE pages' # <<>>
    <3>1. pages'[1] \in Page
      BY <2>2, <2>4, FirstElement
    <3>2. SetCurrentPage(pages'[1])
      BY <1>6, <2>4 DEF ShowFirstPage
    <3>3. /\ canvas' \in [glyphs : Page \cup {NoPage}, notes : Page \cup {NoPage}]
          /\ currentPage' \in Page /\ pc' = "loading"
      BY <3>1, <3>2, CanvasType DEF SetCurrentPage, TypeOK
    <3>4. QED
      BY <1>6, <2>2, <3>3 DEF ShowFirstPage, TypeOK
  <2>5. QED
    BY <2>3, <2>4
<1>7. CASE LoadGlyphsForPage
  <2>1. canvas' \in [glyphs : Page \cup {NoPage}, notes : Page \cup {NoPage}]
    BY <1>7, CanvasType DEF LoadGlyphsForPage, TypeOK
  <2>2. QED
    BY <1>7, <2>1 DEF LoadGlyphsForPage, TypeOK
<1>8. CASE LayoutTextThrows
  BY <1>8 DEF LayoutTextThrows, TypeOK
<1>9. CASE Report
  BY <1>9 DEF Report, TypeOK
<1>10. CASE CloseNotesBox
  BY <1>10 DEF CloseNotesBox, TypeOK
<1>11. CASE SaveToDatabase
  <2>1. rows' \in Seq(RowType)
    <3>1. Row \in RowType
      BY <1>11, RowHasType DEF SaveToDatabase
    <3>2. rows \in Seq(RowType)
      BY DEF TypeOK
    <3>3. QED
      BY <1>11, <3>1, <3>2, AppendFacts DEF SaveToDatabase
  <2>2. QED
    BY <1>11, <2>1 DEF SaveToDatabase, TypeOK
<1>12. CASE InsertThrows
  BY <1>12 DEF InsertThrows, TypeOK
<1>13. CASE CloseErrorBox
  BY <1>13 DEF CloseErrorBox, TypeOK
<1>14. CASE Stop
  <2>1. BlankCanvas \in [glyphs : Page \cup {NoPage}, notes : Page \cup {NoPage}]
    BY DEF BlankCanvas
  <2>2. QED
    BY <1>0, <1>14, <2>1 DEF Stop, TypeOK
<1>15. CASE Start
  BY <1>15 DEF Start, TypeOK
<1>16. CASE UNCHANGED vars
  <2>1. /\ text' = text /\ pages' = pages /\ currentPage' = currentPage
        /\ glyphs' = glyphs /\ lastGlyphCount' = lastGlyphCount
        /\ canvas' = canvas /\ status' = status /\ rows' = rows
        /\ layouts' = layouts /\ caller' = caller /\ pc' = pc
    BY <1>16 DEF vars
  <2>2. /\ text' \in Texts \cup {EmptyText} /\ pages' \in Seq(Page)
        /\ rows' \in Seq(RowType) /\ layouts' \in Nat
    BY <2>1 DEF TypeOK
  <2>3. /\ currentPage' \in Page \cup {NoPage} /\ glyphs' \in Page \cup {NoPage}
        /\ lastGlyphCount' \in Page \cup {NoPage}
        /\ canvas' \in [glyphs : Page \cup {NoPage}, notes : Page \cup {NoPage}]
    BY <2>1 DEF TypeOK
  <2>4. /\ status' \in {"ready", "no text", "working", "summary", "error"}
        /\ caller' \in Engines \cup {"combo"}
        /\ pc' \in {"idle", "cleared", "loading", "laid out", "notes box", "saving",
                    "error box", "off"}
    BY <2>1 DEF TypeOK
  <2>5. QED
    BY <2>2, <2>3, <2>4 DEF TypeOK
<1>17. CASE FindNoWindow \/ PaginateThrows
  BY <1>17, GivenUpEarly DEF TypeOK
<1>18. CASE LoadNoGlyphs
  BY <1>18 DEF LoadNoGlyphs, TypeOK
<1>19. QED
  BY <1>1, <1>2, <1>3, <1>4, <1>5, <1>6, <1>7, <1>8, <1>9, <1>10, <1>11, <1>12,
     <1>13, <1>14, <1>15, <1>16, <1>17, <1>18 DEF Next, UserStep, HandlerStep

------------------------------------------------------------------------------
\* The list of pages and its selection.

\* The pages of one layout differ in their number only.
LEMMA NewPagesOfOneLayout ==
    ASSUME NEW engine \in Engines, text \in Texts, NEW n \in Nat,
           NEW list, list = NewPages(engine, n), NEW k \in DOMAIN list
    PROVE  list[k] = [list[1] EXCEPT !.number = k] /\ list[k].layout = n
<1>1. /\ DOMAIN list = 1..PageCount[engine][text]
      /\ PageCount[engine][text] \in Nat
      /\ \A j \in DOMAIN list :
            list[j] = [engine |-> engine, text |-> text, layout |-> n, number |-> j]
  BY NewPagesType
<1>2. 1 \in DOMAIN list
  BY <1>1
<1>3. /\ list[1] = [engine |-> engine, text |-> text, layout |-> n, number |-> 1]
      /\ list[k] = [engine |-> engine, text |-> text, layout |-> n, number |-> k]
  BY <1>1, <1>2
<1>4. QED
  BY <1>3

\* Every step keeps the listed pages of one layout and the selection listed.
LEMMA ListStep ==
    ASSUME TypeOK, HandlerInv, SelectionListed, PagesOfOneLayout, [Next]_vars
    PROVE  SelectionListed' /\ PagesOfOneLayout'
<1>1. CASE UNCHANGED <<pages, currentPage, layouts>>
  BY <1>1 DEF SelectionListed, PagesOfOneLayout, ListedPages
<1>2. ASSUME pages' = <<>>, currentPage' = NoPage
      PROVE  SelectionListed' /\ PagesOfOneLayout'
  BY <1>2 DEF SelectionListed, PagesOfOneLayout
<1>3. CASE LayoutNothing
  BY <1>2, <1>3 DEF LayoutNothing, ClearPages
<1>4. CASE BeginLayout \/ BeginColumnLayout
  BY <1>2, <1>4, BeginFacts DEF ClearPages
<1>5. CASE Stop
  BY <1>2, <1>5 DEF Stop
<1>6. CASE SelectPage
  <2>1. pages' = pages /\ layouts' = layouts
    BY <1>6 DEF SelectPage
  <2>2. PICK k \in DOMAIN pages : currentPage' = pages[k]
    BY <1>6 DEF SelectPage, SetCurrentPage
  <2>3. SelectionListed'
    BY <2>1, <2>2 DEF SelectionListed, ListedPages
  <2>4. PagesOfOneLayout'
    BY <2>1 DEF PagesOfOneLayout
  <2>5. QED
    BY <2>3, <2>4
<1>7. CASE ShowFirstPage
  <2>1. /\ caller \in Engines /\ text \in Texts /\ layouts \in Nat
        /\ currentPage = NoPage
    BY <1>7 DEF ShowFirstPage, HandlerInv, LayingOut, TypeOK
  <2>2. pages' = NewPages(caller, layouts)
    BY <1>7, ShownPages
  <2>3. PagesOfOneLayout'
    <3>1. \A k \in DOMAIN pages' :
             /\ pages'[k] = [pages'[1] EXCEPT !.number = k]
             /\ pages'[k].layout = layouts
      BY <2>1, <2>2, NewPagesOfOneLayout
    <3>2. layouts' = layouts
      BY <1>7 DEF ShowFirstPage
    <3>3. QED
      BY <3>1, <3>2 DEF PagesOfOneLayout
  <2>4. pages' \in Seq(Page)
    BY <2>1, <2>2, NewPagesType
  <2>5. SelectionListed'
    <3>1. CASE pages' = <<>>
      BY <1>7, <2>1, <3>1 DEF ShowFirstPage, SelectionListed
    <3>2. CASE pages' # <<>>
      <4>1. currentPage' = pages'[1]
        BY <1>7, <3>2 DEF ShowFirstPage, SetCurrentPage
      <4>2. 1 \in DOMAIN pages'
        BY <2>4, <3>2, FirstElement
      <4>3. QED
        BY <4>1, <4>2 DEF SelectionListed, ListedPages
    <3>3. QED
      BY <3>1, <3>2
  <2>6. QED
    BY <2>3, <2>5
<1>8. CASE TypeText \/ LayoutNoColumns \/ CloseNotesBox \/ CloseErrorBox
  BY <1>1, <1>8 DEF TypeText, LayoutNoColumns, CloseNotesBox, CloseErrorBox
<1>9. CASE LoadGlyphsForPage \/ LoadNoGlyphs \/ LayoutTextThrows \/ Report
  BY <1>1, <1>9 DEF LoadGlyphsForPage, LoadNoGlyphs, LayoutTextThrows, Report
<1>10. CASE SaveToDatabase \/ InsertThrows \/ Start
  BY <1>1, <1>10 DEF SaveToDatabase, InsertThrows, Start
<1>11. CASE UNCHANGED vars
  BY <1>1, <1>11 DEF vars
<1>12. CASE FindNoWindow \/ PaginateThrows
  BY <1>1, <1>12, GivenUpEarly
<1>13. QED
  BY <1>3, <1>4, <1>5, <1>6, <1>7, <1>8, <1>9, <1>10, <1>11, <1>12
     DEF Next, UserStep, HandlerStep

\* A step leaves glyphs and count alone, sets them together, or loads a page
\* without lines.
LEMMA CountStep ==
    ASSUME [Next]_vars
    PROVE  \/ UNCHANGED <<glyphs, lastGlyphCount>>
           \/ lastGlyphCount' = glyphs'
           \/ pc = "loading" /\ ~HasLines(currentPage) /\ glyphs' = NoPage
<1>1. CASE LayoutNothing
  BY <1>1, Zenon DEF LayoutNothing
<1>2. CASE LoadGlyphsForPage
  BY <1>2, Zenon DEF LoadGlyphsForPage
<1>3. CASE LoadNoGlyphs
  BY <1>3, Zenon DEF LoadNoGlyphs
<1>4. CASE Stop
  BY <1>4 DEF Stop
<1>5. CASE BeginLayout \/ BeginColumnLayout
  BY <1>5, BeginFacts
<1>6. CASE FindNoWindow \/ PaginateThrows
  BY <1>6, GivenUpEarly
<1>7. CASE SelectPage \/ ShowFirstPage
  BY <1>7 DEF SelectPage, ShowFirstPage
<1>8. CASE TypeText \/ LayoutNoColumns \/ CloseNotesBox \/ CloseErrorBox
  BY <1>8 DEF TypeText, LayoutNoColumns, CloseNotesBox, CloseErrorBox
<1>9. CASE LayoutTextThrows \/ Report \/ SaveToDatabase \/ InsertThrows \/ Start
  BY <1>9 DEF LayoutTextThrows, Report, SaveToDatabase, InsertThrows, Start
<1>10. CASE UNCHANGED vars
  BY <1>10 DEF vars
<1>11. QED
  BY <1>1, <1>2, <1>3, <1>4, <1>5, <1>6, <1>7, <1>8, <1>9, <1>10
     DEF Next, UserStep, HandlerStep

\* Every step keeps the glyphs that are held counted.
LEMMA GlyphsStayCounted ==
    ASSUME GlyphsCounted, [Next]_vars
    PROVE  GlyphsCounted'
BY CountStep DEF GlyphsCounted

------------------------------------------------------------------------------
\* What the steps of a layout handler rely on.

\* Every step keeps what its successors rely on.
LEMMA HandlerStepKeeps ==
    ASSUME TypeOK, HandlerInv, [Next]_vars
    PROVE  HandlerInv'
<1>1. ASSUME pc' \in {"idle", "error box", "off"}
      PROVE  HandlerInv'
  BY <1>1 DEF HandlerInv
<1>2. CASE TypeText \/ LayoutNoColumns \/ Start
  BY <1>1, <1>2 DEF TypeText, LayoutNoColumns, Start
<1>3. CASE LayoutNothing
  <2>1. pc' = "idle"
    BY <1>3, Zenon DEF LayoutNothing
  <2>2. QED
    BY <1>1, <2>1
<1>4. CASE SaveToDatabase \/ InsertThrows \/ CloseErrorBox \/ Stop
  BY <1>1, <1>4 DEF SaveToDatabase, InsertThrows, CloseErrorBox, Stop
<1>5. CASE LayoutTextThrows
  BY <1>1, <1>5 DEF LayoutTextThrows
<1>6. CASE BeginLayout \/ BeginColumnLayout
  <2>1. pages' = <<>> /\ currentPage' = NoPage
    BY <1>6, BeginFacts DEF ClearPages
  <2>2. pc' = "cleared" /\ caller' \in Engines /\ text # EmptyText /\ text' = text
    BY <1>6, BeginFacts
  <2>3. text' \in Texts
    BY <2>2 DEF TypeOK
  <2>4. QED
    BY <2>1, <2>2, <2>3 DEF HandlerInv, LayingOut
<1>7. CASE SelectPage
  <2>1. pages \in Seq(Page)
    BY DEF TypeOK
  <2>2. \A k \in DOMAIN pages : pages[k] \in Page
    BY <2>1
  <2>3. PICK k \in DOMAIN pages : currentPage' = pages[k]
    BY <1>7 DEF SelectPage, SetCurrentPage
  <2>4. currentPage' # NoPage
    BY <2>2, <2>3, ConstantsAssumption
  <2>5. pc' = "loading" /\ caller' = "combo"
    BY <1>7 DEF SelectPage, SetCurrentPage
  <2>6. QED
    BY <2>4, <2>5 DEF HandlerInv
<1>8. CASE ShowFirstPage
  <2>1. /\ caller \in Engines /\ text \in Texts /\ layouts \in Nat
        /\ caller' = caller /\ text' = text /\ layouts' = layouts
    BY <1>8 DEF ShowFirstPage, HandlerInv, LayingOut, TypeOK
  <2>2. pages' = NewPages(caller, layouts)
    BY <1>8, ShownPages
  <2>3. LayingOut' /\ pages' = NewPages(caller, layouts)'
    BY <2>1, <2>2 DEF LayingOut, NewPages
  <2>4. pages' \in Seq(Page)
    BY <2>1, <2>2, NewPagesType
  <2>5. CASE pages' = <<>>
    <3>1. pc' = "laid out"
      BY <1>8, <2>5 DEF ShowFirstPage
    <3>2. QED
      BY <2>3, <2>5, <3>1 DEF HandlerInv
  <2>6. CASE pages' # <<>>
    <3>1. currentPage' = pages'[1] /\ pc' = "loading"
      BY <1>8, <2>6 DEF ShowFirstPage, SetCurrentPage
    <3>2. pages'[1] \in Page
      BY <2>4, <2>6, FirstElement
    <3>3. currentPage' # NoPage
      BY <3>1, <3>2, ConstantsAssumption
    <3>4. QED
      BY <2>3, <2>6, <3>1, <3>3 DEF HandlerInv
  <2>7. QED
    BY <2>5, <2>6
<1>9. CASE LoadGlyphsForPage \/ LoadNoGlyphs
  <2>1. CASE caller = "combo"
    BY <1>1, <1>9, <2>1 DEF LoadGlyphsForPage, LoadNoGlyphs
  <2>2. CASE caller # "combo"
    <3>1. /\ LayingOut /\ pages = NewPages(caller, layouts)
          /\ pages # <<>> /\ currentPage = pages[1]
      BY <1>9, <2>2 DEF LoadGlyphsForPage, LoadNoGlyphs, HandlerInv
    <3>2. /\ pages' = pages /\ currentPage' = currentPage
          /\ HasLines(currentPage) => glyphs' = currentPage
          /\ pc' = "laid out"
          /\ caller' = caller /\ text' = text /\ layouts' = layouts
      BY <1>9, <2>2 DEF LoadGlyphsForPage, LoadNoGlyphs
    <3>3. LayingOut' /\ pages' = NewPages(caller, layouts)'
      BY <3>1, <3>2 DEF LayingOut, NewPages
    <3>4. HasLines(pages[1])' = HasLines(pages[1])
      BY <3>2 DEF HasLines
    <3>5. QED
      BY <3>1, <3>2, <3>3, <3>4 DEF HandlerInv
  <2>3. QED
    BY <2>1, <2>2
<1>10. CASE Report \/ CloseNotesBox
  <2>1. /\ LayingOut /\ pages = NewPages(caller, layouts)
        /\ pages # <<>> => /\ currentPage = pages[1]
                           /\ HasLines(pages[1]) => glyphs = pages[1]
    BY <1>10 DEF Report, CloseNotesBox, HandlerInv
  <2>2. /\ pages' = pages /\ currentPage' = currentPage /\ glyphs' = glyphs
        /\ pc' \in {"notes box", "saving"}
        /\ caller' = caller /\ text' = text /\ layouts' = layouts
    BY <1>10 DEF Report, CloseNotesBox
  <2>3. LayingOut' /\ pages' = NewPages(caller, layouts)'
    BY <2>1, <2>2 DEF LayingOut, NewPages
  <2>4. QED
    BY <2>1, <2>2, <2>3 DEF HandlerInv, HasLines
<1>11. CASE UNCHANGED vars
  <2>1. NewPages(caller, layouts)' = NewPages(caller, layouts)
    BY <1>11 DEF vars, NewPages
  <2>2. LayingOut' = LayingOut
    BY <1>11 DEF vars, LayingOut
  <2>3. QED
    BY <1>11, <2>1, <2>2 DEF vars, HandlerInv, HasLines
<1>12. CASE FindNoWindow \/ PaginateThrows
  BY <1>1, <1>12, GivenUpEarly
<1>13. QED
  BY <1>2, <1>3, <1>4, <1>5, <1>6, <1>7, <1>8, <1>9, <1>10, <1>11, <1>12
     DEF Next, UserStep, HandlerStep

------------------------------------------------------------------------------
\* The rows of the table.

\* A row whose counts are those of its own text and layout.
GoodRow(row) ==
    /\ row.pageCount = PageCount[row.engine][row.text]
    /\ row.pageCount > 0 /\ row.engine \notin LinelessEngines =>
          row.glyphs = [engine |-> row.engine, text |-> row.text,
                        layout |-> row.layout, number |-> 1]

\* What a layout saves is a good row.
LEMMA RowIsGood ==
    ASSUME TypeOK, HandlerInv, GlyphsCounted, pc = "saving"
    PROVE  GoodRow(Row)
<1>1. /\ caller \in Engines /\ text \in Texts /\ layouts \in Nat
      /\ pages = NewPages(caller, layouts)
      /\ pages # <<>> => (HasLines(pages[1]) => glyphs = pages[1])
  BY DEF HandlerInv, LayingOut, TypeOK
<1>2. /\ Len(pages) = PageCount[caller][text]
      /\ PageCount[caller][text] \in Nat
      /\ DOMAIN pages = 1..PageCount[caller][text]
      /\ \A k \in DOMAIN pages :
            pages[k] = [engine |-> caller, text |-> text, layout |-> layouts, number |-> k]
  BY <1>1, NewPagesType
<1>3. ASSUME Len(pages) > 0, caller \notin LinelessEngines
      PROVE  lastGlyphCount =
                [engine |-> caller, text |-> text, layout |-> layouts, number |-> 1]
  <2>1. 1 \in DOMAIN pages
    BY <1>2, <1>3
  <2>2. pages # <<>>
    BY <1>3
  <2>3. pages[1] = [engine |-> caller, text |-> text, layout |-> layouts, number |-> 1]
    BY <1>2, <2>1
  <2>4. pages[1] \in Page
    BY <1>1, <2>3 DEF Page
  <2>5. glyphs = pages[1] /\ glyphs # NoPage
    BY <1>1, <1>3, <2>2, <2>3, <2>4, ConstantsAssumption DEF HasLines
  <2>6. QED
    BY <2>3, <2>5 DEF GlyphsCounted
<1>4. QED
  BY <1>2, <1>3 DEF GoodRow, Row

\* Every step keeps the rows as they are, or appends a good one.
LEMMA RowsStep ==
    ASSUME TypeOK, HandlerInv, GlyphsCounted, [Next]_vars
    PROVE  \/ UNCHANGED rows
           \/ SaveToDatabase /\ rows' = Append(rows, Row) /\ Row \in RowType /\ GoodRow(Row)
<1>1. CASE SaveToDatabase
  <2>1. pc = "saving" /\ rows' = Append(rows, Row)
    BY <1>1 DEF SaveToDatabase
  <2>2. Row \in RowType /\ GoodRow(Row)
    BY <2>1, RowHasType, RowIsGood
  <2>3. QED
    BY <1>1, <2>1, <2>2
<1>2. CASE LayoutNothing
  BY <1>2, Zenon DEF LayoutNothing
<1>3. CASE BeginLayout \/ BeginColumnLayout
  BY <1>3, BeginFacts
<1>4. CASE SelectPage
  BY <1>4, Zenon DEF SelectPage
<1>5. CASE ShowFirstPage
  BY <1>5, Zenon DEF ShowFirstPage
<1>6. CASE LoadGlyphsForPage \/ LoadNoGlyphs
  BY <1>6, Zenon DEF LoadGlyphsForPage, LoadNoGlyphs
<1>7. CASE TypeText \/ LayoutNoColumns \/ CloseNotesBox \/ CloseErrorBox
  BY <1>7 DEF TypeText, LayoutNoColumns, CloseNotesBox, CloseErrorBox
<1>8. CASE LayoutTextThrows \/ Report \/ InsertThrows \/ Stop \/ Start
  BY <1>8 DEF LayoutTextThrows, Report, InsertThrows, Stop, Start
<1>9. CASE UNCHANGED vars
  BY <1>9 DEF vars
<1>10. CASE FindNoWindow \/ PaginateThrows
  BY <1>10, GivenUpEarly
<1>11. QED
  BY <1>1, <1>2, <1>3, <1>4, <1>5, <1>6, <1>7, <1>8, <1>9, <1>10
     DEF Next, UserStep, HandlerStep

\* Every step keeps every row good.
LEMMA RowsStayGood ==
    ASSUME TypeOK, HandlerInv, GlyphsCounted,
           RowMatchesText, RowCountsFirstPage, [Next]_vars
    PROVE  RowMatchesText' /\ RowCountsFirstPage'
<1>1. \A i \in DOMAIN rows : GoodRow(rows[i])
  BY DEF RowMatchesText, RowCountsFirstPage, GoodRow
<1>2. \A i \in DOMAIN rows' : GoodRow(rows'[i])
  <2>1. CASE UNCHANGED rows
    BY <1>1, <2>1
  <2>2. CASE rows' = Append(rows, Row) /\ Row \in RowType /\ GoodRow(Row)
    <3>1. rows \in Seq(RowType)
      BY DEF TypeOK
    <3>2. /\ DOMAIN rows' = DOMAIN rows \cup {Len(rows')}
          /\ \A i \in DOMAIN rows : rows'[i] = rows[i]
          /\ rows'[Len(rows')] = Row
      BY <2>2, <3>1, AppendFacts
    <3>3. QED
      BY <1>1, <2>2, <3>2
  <2>3. QED
    BY <2>1, <2>2, RowsStep
<1>3. QED
  BY <1>2 DEF RowMatchesText, RowCountsFirstPage, GoodRow

------------------------------------------------------------------------------
\* The status bar.

\* Every step keeps the status bar truthful.
LEMMA StatusStep ==
    ASSUME TypeOK, HandlerInv, GlyphsCounted, StatusInv, [Next]_vars
    PROVE  StatusInv'
<1> DEFINE NewestSaved == rows # <<>> /\ rows[Len(rows)].layout = layouts
<1>1. ASSUME pc = "idle" \/ (pc = "loading" /\ caller = "combo"),
             pc' = "idle" \/ (pc' = "loading" /\ caller' = "combo"),
             UNCHANGED <<status, rows, layouts>>
      PROVE  StatusInv'
  BY <1>1 DEF StatusInv
<1>2. CASE TypeText
  BY <1>1, <1>2 DEF TypeText
<1>3. CASE LayoutNothing
  <2>1. pc' = "idle" /\ status' = "no text"
    BY <1>3, Zenon DEF LayoutNothing
  <2>2. QED
    BY <2>1 DEF StatusInv
<1>4. CASE LayoutNoColumns
  BY <1>4 DEF LayoutNoColumns, StatusInv
<1>5. CASE BeginLayout \/ BeginColumnLayout
  <2>1. pc' = "cleared"
    BY <1>5, BeginFacts
  <2>2. QED
    BY <2>1 DEF StatusInv
<1>6. CASE SelectPage
  <2>1. /\ pc = "idle" /\ pc' = "loading" /\ caller' = "combo"
        /\ UNCHANGED <<status, rows, layouts>>
    BY <1>6 DEF SelectPage, SetCurrentPage
  <2>2. QED
    BY <1>1, <2>1
<1>7. CASE ShowFirstPage
  <2>1. pc' \in {"loading", "laid out"}
    BY <1>7 DEF ShowFirstPage, SetCurrentPage
  <2>2. caller' # "combo"
    BY <1>7, EnginesAssumption DEF ShowFirstPage, HandlerInv, LayingOut
  <2>3. QED
    BY <2>1, <2>2 DEF StatusInv
<1>8. CASE LoadGlyphsForPage \/ LoadNoGlyphs
  <2>1. /\ pc = "loading" /\ UNCHANGED <<status, rows, layouts>>
        /\ caller = "combo" => pc' = "idle"
        /\ caller # "combo" => pc' = "laid out"
    BY <1>8 DEF LoadGlyphsForPage, LoadNoGlyphs
  <2>2. QED
    BY <1>1, <2>1 DEF StatusInv
<1>9. CASE LayoutTextThrows
  <2>1. CASE caller = "combo"
    BY <1>1, <1>9, <2>1 DEF LayoutTextThrows
  <2>2. CASE caller # "combo"
    BY <1>9, <2>2 DEF LayoutTextThrows, StatusInv
  <2>3. QED
    BY <2>1, <2>2
<1>10. CASE Report
  BY <1>10 DEF Report, StatusInv
<1>11. CASE CloseNotesBox
  BY <1>11 DEF CloseNotesBox, StatusInv
<1>12. CASE SaveToDatabase
  <2>1. /\ pc' = "idle" /\ status' = status /\ layouts' = layouts
        /\ rows' = Append(rows, Row)
    BY <1>12 DEF SaveToDatabase
  <2>2. status = "summary" /\ pc = "saving"
    BY <1>12 DEF SaveToDatabase, StatusInv
  <2>3. Row \in RowType
    BY <2>2, RowHasType
  <2>4. rows \in Seq(RowType)
    BY DEF TypeOK
  <2>5. rows' # <<>> /\ rows'[Len(rows')] = Row
    BY <2>1, <2>3, <2>4, AppendFacts
  <2>6. Row.layout = layouts
    BY DEF Row
  <2>7. NewestSaved'
    BY <2>1, <2>5, <2>6
  <2>8. QED
    BY <2>1, <2>2, <2>7 DEF StatusInv
<1>13. CASE InsertThrows
  BY <1>13 DEF InsertThrows, StatusInv
<1>14. CASE CloseErrorBox
  BY <1>14 DEF CloseErrorBox, StatusInv
<1>15. CASE Stop
  BY <1>15 DEF Stop, StatusInv
<1>16. CASE Start
  BY <1>16 DEF Start, StatusInv
<1>17. CASE UNCHANGED vars
  BY <1>17 DEF vars, StatusInv
<1>18. CASE FindNoWindow \/ PaginateThrows
  BY <1>18, GivenUpEarly DEF StatusInv
<1>19. QED
  BY <1>2, <1>3, <1>4, <1>5, <1>6, <1>7, <1>8, <1>9, <1>10, <1>11, <1>12,
     <1>13, <1>14, <1>15, <1>16, <1>17, <1>18 DEF Next, UserStep, HandlerStep

------------------------------------------------------------------------------
\* The theorems.

\* EditorInv is inductive.
LEMMA InvStep == EditorInv /\ [Next]_vars => EditorInv'
BY TypeStep, HandlerStepKeeps, StatusStep, ListStep, GlyphsStayCounted, RowsStayGood
   DEF EditorInv

\* Whatever the user does and whatever fails, the invariant of the editor holds.
THEOREM EditorSafe == Spec => []EditorInv
<1>1. Init => EditorInv
  BY InitInv
<1>2. QED
  BY <1>1, InvStep, PTL DEF Spec

\* Every variable of the editor keeps its type.
THEOREM EditorTypeCorrect == Spec => []TypeOK
<1>1. EditorInv => TypeOK
  BY DEF EditorInv
<1>2. QED
  BY <1>1, EditorSafe, PTL

\* The ComboBox never holds a page that the list has lost.
THEOREM SelectionStaysListed == Spec => []SelectionListed
<1>1. EditorInv => SelectionListed
  BY DEF EditorInv
<1>2. QED
  BY <1>1, EditorSafe, PTL

\* The list never mixes the pages of two layouts.
THEOREM ListIsOneLayout == Spec => []PagesOfOneLayout
<1>1. EditorInv => PagesOfOneLayout
  BY DEF EditorInv
<1>2. QED
  BY <1>1, EditorSafe, PTL

\* The ComboBox shows one layout and a page of it.
THEOREM ListStaysTogether == Spec => []ListAndSelection
<1>1. EditorInv => ListAndSelection
  BY DEF EditorInv, ListAndSelection
<1>2. QED
  BY <1>1, EditorSafe, PTL

\* Glyphs that are held are the counted ones, and the two part only where a page
\* without lines takes the glyphs away.
THEOREM CountStaysCorrect == Spec => CountMatchesGlyphs
<1>1. EditorInv => GlyphsCounted
  BY DEF EditorInv
<1>2. [Next]_vars =>
         [lastGlyphCount = glyphs =>
            \/ lastGlyphCount' = glyphs'
            \/ pc = "loading" /\ ~HasLines(currentPage) /\ glyphs' = NoPage]_vars
  BY CountStep
<1>3. QED
  BY <1>1, <1>2, EditorSafe, PTL DEF Spec, CountMatchesGlyphs, CountFollowsGlyphs

\* If every engine at hand gives its pages lines, as the one of the bound command
\* does, the count is always the one of the glyphs.
THEOREM CountIsAlwaysOfGlyphs ==
    ASSUME LinelessEngines = {}
    PROVE  Spec => []CountIsOfGlyphs
<1>1. Init => CountIsOfGlyphs
  BY DEF Init, CountIsOfGlyphs
<1>2. CountIsOfGlyphs /\ [Next]_vars => CountIsOfGlyphs'
  BY CountStep DEF CountIsOfGlyphs, HasLines
<1>3. QED
  BY <1>1, <1>2, PTL DEF Spec

\* Every row tells how many pages its own text made.
THEOREM RowsMatchTheirText == Spec => []RowMatchesText
<1>1. EditorInv => RowMatchesText
  BY DEF EditorInv
<1>2. QED
  BY <1>1, EditorSafe, PTL

\* Every row of a layout with pages, if they have lines, counts the glyphs of its
\* own first page, whatever layouts without lines and failures came before.
THEOREM RowsCountTheirFirstPage == Spec => []RowCountsFirstPage
<1>1. EditorInv => RowCountsFirstPage
  BY DEF EditorInv
<1>2. QED
  BY <1>1, EditorSafe, PTL

\* A summary on the status bar at rest is the one of a saved layout.
THEOREM SummaryIsSaved == Spec => []SummaryMeansSaved
<1>1. EditorInv => SummaryMeansSaved
  BY DEF EditorInv, StatusInv, SummaryMeansSaved
<1>2. QED
  BY <1>1, EditorSafe, PTL

\* The status bar is never left at "working".
THEOREM WorkIsReported == Spec => []NothingLeftWorking
<1>1. EditorInv => NothingLeftWorking
  BY DEF EditorInv, StatusInv, NothingLeftWorking
<1>2. QED
  BY <1>1, EditorSafe, PTL

\* At rest the status bar tells what became of the newest layout.
THEOREM StatusStaysTruthful == Spec => []StatusTruthful
<1>1. EditorInv => StatusTruthful
  BY DEF EditorInv, StatusInv, StatusTruthful, SummaryMeansSaved, NothingLeftWorking
<1>2. QED
  BY <1>1, EditorSafe, PTL

\* Every step redraws the canvas when it changes what the canvas shows.
LEMMA CanvasStep == PreviewUpToDate /\ [Next]_vars => PreviewUpToDate'
<1> SUFFICES ASSUME PreviewUpToDate, [Next]_vars PROVE PreviewUpToDate'
  OBVIOUS
<1>1. CASE UNCHANGED <<canvas, glyphs, currentPage>>
  BY <1>1 DEF PreviewUpToDate, DrawGlyphs, BlankCanvas, HasLines
<1>2. ASSUME NEW g, ClearPages(g)
      PROVE  PreviewUpToDate'
  <2>1. currentPage' = NoPage
    BY <1>2 DEF ClearPages
  <2>2. canvas'.notes = NoPage
    BY <1>2 DEF ClearPages, PreviewUpToDate, DrawGlyphs, BlankCanvas
  <2>3. QED
    BY <2>1, <2>2 DEF PreviewUpToDate
<1>3. ASSUME canvas' = DrawGlyphs(glyphs', currentPage')
      PROVE  PreviewUpToDate'
  BY <1>3 DEF PreviewUpToDate, DrawGlyphs, BlankCanvas
<1>4. CASE LayoutNothing
  <2>1. ClearPages(NoPage)
    BY <1>4, Zenon DEF LayoutNothing
  <2>2. QED
    BY <1>2, <2>1, Zenon
<1>5. CASE BeginLayout \/ BeginColumnLayout
  <2>1. ClearPages(glyphs)
    BY <1>5, BeginFacts, Zenon
  <2>2. QED
    BY <1>2, <2>1, Zenon
<1>6. CASE Stop
  BY <1>6 DEF Stop, PreviewUpToDate, BlankCanvas
<1>7. CASE SelectPage
  <2>1. canvas' = DrawGlyphs(glyphs, currentPage') /\ glyphs' = glyphs
    BY <1>7, Zenon DEF SelectPage, SetCurrentPage
  <2>2. QED
    BY <1>3, <2>1, Zenon
<1>8. CASE ShowFirstPage
  <2>1. glyphs' = glyphs
    BY <1>8 DEF ShowFirstPage
  <2>2. CASE pages' = <<>>
    BY <1>1, <1>8, <2>1, <2>2 DEF ShowFirstPage
  <2>3. CASE pages' # <<>>
    <3>1. canvas' = DrawGlyphs(glyphs, currentPage')
      BY <1>8, <2>3, Zenon DEF ShowFirstPage, SetCurrentPage
    <3>2. QED
      BY <1>3, <2>1, <3>1, Zenon
  <2>4. QED
    BY <2>2, <2>3
<1>9. CASE LoadGlyphsForPage
  <2>1. /\ canvas' = DrawGlyphs(currentPage, currentPage)
        /\ glyphs' = currentPage /\ currentPage' = currentPage
    BY <1>9, Zenon DEF LoadGlyphsForPage
  <2>2. QED
    BY <1>3, <2>1, Zenon
<1>10. CASE LoadNoGlyphs
  BY <1>10 DEF LoadNoGlyphs, PreviewUpToDate, HasLines
<1>11. CASE TypeText \/ LayoutNoColumns \/ CloseNotesBox \/ CloseErrorBox
  BY <1>1, <1>11 DEF TypeText, LayoutNoColumns, CloseNotesBox, CloseErrorBox
<1>12. CASE LayoutTextThrows \/ Report \/ SaveToDatabase \/ InsertThrows \/ Start
  BY <1>1, <1>12 DEF LayoutTextThrows, Report, SaveToDatabase, InsertThrows, Start
<1>13. CASE FindNoWindow \/ PaginateThrows
  BY <1>1, <1>13, GivenUpEarly
<1>14. CASE UNCHANGED vars
  BY <1>1, <1>14 DEF vars
<1>15. QED
  BY <1>4, <1>5, <1>6, <1>7, <1>8, <1>9, <1>10, <1>11, <1>12, <1>13, <1>14
     DEF Next, UserStep, HandlerStep

\* The canvas is never behind the view model, whatever throws and whenever.
THEOREM PreviewNeverBehind == Spec => []PreviewUpToDate
<1>1. Init => PreviewUpToDate
  BY DEF Init, PreviewUpToDate, BlankCanvas
<1>2. QED
  BY <1>1, CanvasStep, PTL DEF Spec

\* If LayoutText never throws, every step leaves the canvas with the selected
\* page, or glyphs still to be loaded.
LEMMA PreviewStep ==
    ASSUME "throws" \notin NativeOutcomes, HandlerInv, PreviewInv, [Next]_vars
    PROVE  PreviewInv'
<1>1. ASSUME pc # "loading", UNCHANGED <<canvas, currentPage>>
      PROVE  PreviewInv'
  BY <1>1 DEF PreviewInv, DrawGlyphs, HasLines
<1>2. ASSUME pc' = "loading" \/ currentPage' = NoPage
      PROVE  PreviewInv'
  BY <1>2 DEF PreviewInv
<1>3. CASE LayoutNothing
  BY <1>2, <1>3 DEF LayoutNothing, ClearPages
<1>4. CASE BeginLayout \/ BeginColumnLayout
  BY <1>2, <1>4, BeginFacts DEF ClearPages
<1>5. CASE Stop
  BY <1>2, <1>5 DEF Stop
<1>6. CASE SelectPage
  BY <1>2, <1>6 DEF SelectPage, SetCurrentPage
<1>7. CASE ShowFirstPage
  <2>1. currentPage = NoPage
    BY <1>7 DEF ShowFirstPage, HandlerInv
  <2>2. pc' = "loading" \/ currentPage' = currentPage
    BY <1>7 DEF ShowFirstPage, SetCurrentPage
  <2>3. QED
    BY <1>2, <2>1, <2>2
<1>8. CASE LoadGlyphsForPage
  <2>1. canvas' = DrawGlyphs(currentPage, currentPage) /\ currentPage' = currentPage
    BY <1>8, Zenon DEF LoadGlyphsForPage
  <2>2. QED
    BY <2>1 DEF PreviewInv, DrawGlyphs
<1>9. CASE LayoutTextThrows
  BY <1>9 DEF LayoutTextThrows
<1>10. CASE TypeText \/ LayoutNoColumns \/ CloseNotesBox \/ CloseErrorBox
  BY <1>1, <1>10 DEF TypeText, LayoutNoColumns, CloseNotesBox, CloseErrorBox
<1>11. CASE Report \/ SaveToDatabase \/ InsertThrows \/ Start
  BY <1>1, <1>11 DEF Report, SaveToDatabase, InsertThrows, Start
<1>12. CASE UNCHANGED vars
  BY <1>12 DEF vars, PreviewInv, DrawGlyphs, BlankCanvas, HasLines
<1>13. CASE LoadNoGlyphs
  BY <1>13 DEF LoadNoGlyphs, PreviewInv, HasLines
<1>14. CASE FindNoWindow \/ PaginateThrows
  BY <1>1, <1>14, GivenUpEarly
<1>15. QED
  BY <1>3, <1>4, <1>5, <1>6, <1>7, <1>8, <1>9, <1>10, <1>11, <1>12, <1>13, <1>14
     DEF Next, UserStep, HandlerStep

\* If LayoutText never throws, the window shows the selected page whenever it
\* can be seen and the page has lines.
THEOREM PreviewFollowsSelection ==
    ASSUME "throws" \notin NativeOutcomes
    PROVE  Spec => []PreviewShowsSelection
<1>1. Init => PreviewInv
  BY InitInv
<1>2. EditorInv /\ PreviewInv /\ [Next]_vars => PreviewInv'
  BY PreviewStep DEF EditorInv
<1>3. PreviewInv => PreviewShowsSelection
  BY DEF PreviewInv, PreviewShowsSelection
<1>4. QED
  BY <1>1, <1>2, <1>3, EditorSafe, PTL DEF Spec

------------------------------------------------------------------------------
\* The editor implements LayoutJournal.

\* A step that leaves the rows, the layout and its text alone is none of the
\* journal's.
LEMMA QuietStep ==
    ASSUME UNCHANGED <<rows, layouts>>,
           LayoutRuns' <=> LayoutRuns,
           LayoutRuns => UNCHANGED <<text, caller>>
    PROVE  [Journal!Next]_(Journal!journalVars)
<1>1. LayoutRuns => RunningLayout' = RunningLayout
  BY DEF RunningLayout, Document
<1>2. UNCHANGED (IF LayoutRuns THEN {RunningLayout} ELSE {})
  BY <1>1
<1>3. UNCHANGED [i \in DOMAIN rows |-> Recorded(rows[i])]
  BY DEF Recorded
<1>4. QED
  BY <1>2, <1>3 DEF Journal!journalVars

\* A layout that ends without a row is given up.
LEMMA GivenUpStep ==
    ASSUME LayoutRuns, ~LayoutRuns', UNCHANGED <<rows, layouts>>
    PROVE  Journal!Next
<1>1. UNCHANGED [i \in DOMAIN rows |-> Recorded(rows[i])]
  BY DEF Recorded
<1>2. QED
  BY <1>1 DEF Journal!Next, Journal!GiveUp

\* A layout that begins has a document that stays the one it lays out.
LEMMA BegunStep ==
    ASSUME TypeOK, BeginLayout \/ BeginColumnLayout
    PROVE  Journal!Next
<1>1. ~LayoutRuns
  BY BeginFacts DEF LayoutRuns
<1>2. LayoutRuns'
  BY BeginFacts DEF LayoutRuns
<1>3. layouts' = layouts + 1 /\ rows' = rows /\ text' = text /\ caller' \in Engines
  BY BeginFacts
<1>4. text \in Texts
  BY BeginFacts DEF TypeOK
<1>5. Document(caller', text') \in Documents
  BY <1>3, <1>4 DEF Documents
<1>6. RunningLayout' = [layout |-> layouts', document |-> Document(caller', text')]
  BY DEF RunningLayout, Document
<1>7. UNCHANGED [i \in DOMAIN rows |-> Recorded(rows[i])]
  BY <1>3 DEF Recorded
<1>8. Journal!Begin
  BY <1>1, <1>2, <1>3, <1>5, <1>6, <1>7 DEF Journal!Begin
<1>9. QED
  BY <1>8 DEF Journal!Next

\* The row that is saved records the document the layout began with.
LEMMA SavedStep ==
    ASSUME TypeOK, HandlerInv, SaveToDatabase
    PROVE  Journal!Next
<1>1. pc = "saving" /\ pc' = "idle" /\ layouts' = layouts /\ rows' = Append(rows, Row)
  BY DEF SaveToDatabase
<1>2. caller \in Engines /\ text \in Texts /\ layouts \in Nat
      /\ pages = NewPages(caller, layouts)
  BY <1>1 DEF HandlerInv, LayingOut, TypeOK
<1>3. Len(pages) = PageCount[caller][text]
  BY <1>2, NewPagesType
<1>4. Recorded(Row) = RunningLayout
  BY <1>3 DEF Recorded, Row, RunningLayout, Document
<1>5. Row \in RowType
  BY <1>1, RowHasType
<1>6. rows \in Seq(RowType)
  BY DEF TypeOK
<1>7. [i \in DOMAIN rows' |-> Recorded(rows'[i])] =
      Append([i \in DOMAIN rows |-> Recorded(rows[i])], RunningLayout)
  <2> DEFINE R == [i \in DOMAIN rows |-> Recorded(rows[i])]
  <2>1. DOMAIN rows = 1..Len(rows) /\ Len(rows) \in Nat
    BY <1>6
  <2>2. R \in Seq({Recorded(rows[i]) : i \in DOMAIN rows}) /\ Len(R) = Len(rows)
    BY <2>1
  <2>3. Append(R, RunningLayout) =
        [i \in 1..(Len(rows) + 1) |-> IF i = Len(rows) + 1 THEN RunningLayout
                                      ELSE Recorded(rows[i])]
    BY <2>1, <2>2
  <2>4. rows' \in Seq(RowType) /\ DOMAIN rows' = 1..(Len(rows) + 1)
        /\ rows'[Len(rows) + 1] = Row
        /\ \A i \in 1..Len(rows) : rows'[i] = rows[i]
    BY <1>1, <1>5, <1>6
  <2>5. \A i \in 1..(Len(rows) + 1) :
           Recorded(rows'[i]) = IF i = Len(rows) + 1 THEN RunningLayout
                                ELSE Recorded(rows[i])
    BY <1>4, <2>1, <2>4
  <2>6. QED
    BY <2>3, <2>4, <2>5
<1>8. LayoutRuns /\ ~LayoutRuns'
  BY <1>1 DEF LayoutRuns
<1>9. Journal!Save
  BY <1>1, <1>7, <1>8 DEF Journal!Save
<1>10. QED
  BY <1>9 DEF Journal!Next

\* Every step is one of the journal's or leaves it alone.
LEMMA JournalStep ==
    ASSUME TypeOK, HandlerInv, [Next]_vars
    PROVE  [Journal!Next]_(Journal!journalVars)
<1>0. caller \in Engines => caller # "combo"
  BY EnginesAssumption
<1>1. CASE TypeText
  BY <1>1, QuietStep DEF TypeText, LayoutRuns
<1>2. CASE LayoutNothing
  BY <1>2, QuietStep DEF LayoutNothing, LayoutRuns
<1>3. CASE LayoutNoColumns
  BY <1>3, QuietStep DEF LayoutNoColumns, LayoutRuns
<1>4. CASE BeginLayout \/ BeginColumnLayout
  BY <1>4, BegunStep
<1>5. CASE SelectPage
  <2>1. pc = "idle" /\ pc' = "loading" /\ caller' = "combo"
        /\ rows' = rows /\ layouts' = layouts
    BY <1>5 DEF SelectPage, SetCurrentPage
  <2>2. QED
    BY <2>1, QuietStep DEF LayoutRuns
<1>6. CASE ShowFirstPage
  <2>1. pc = "cleared" /\ caller \in Engines
    BY <1>6 DEF ShowFirstPage, HandlerInv, LayingOut
  <2>2. /\ caller' = caller /\ text' = text /\ rows' = rows /\ layouts' = layouts
        /\ pc' \in {"loading", "laid out"}
    BY <1>6 DEF ShowFirstPage, SetCurrentPage
  <2>3. QED
    BY <1>0, <2>1, <2>2, QuietStep DEF LayoutRuns
<1>7. CASE LoadGlyphsForPage \/ LoadNoGlyphs
  BY <1>7, QuietStep DEF LoadGlyphsForPage, LoadNoGlyphs, LayoutRuns
<1>8. CASE LayoutTextThrows
  <2>1. CASE caller = "combo"
    BY <1>8, <2>1, QuietStep DEF LayoutTextThrows, LayoutRuns
  <2>2. CASE caller # "combo"
    BY <1>8, <2>2, GivenUpStep DEF LayoutTextThrows, LayoutRuns
  <2>3. QED
    BY <2>1, <2>2
<1>9. CASE Report
  BY <1>9, QuietStep DEF Report, LayoutRuns
<1>10. CASE CloseNotesBox
  BY <1>10, QuietStep DEF CloseNotesBox, LayoutRuns
<1>11. CASE SaveToDatabase
  BY <1>11, SavedStep
<1>12. CASE InsertThrows
  BY <1>12, GivenUpStep DEF InsertThrows, LayoutRuns
<1>13. CASE CloseErrorBox
  BY <1>13, QuietStep DEF CloseErrorBox, LayoutRuns
<1>14. CASE Stop
  <2>1. rows' = rows /\ layouts' = layouts /\ pc' = "off"
    BY <1>14 DEF Stop
  <2>2. ~LayoutRuns'
    BY <2>1 DEF LayoutRuns
  <2>3. CASE LayoutRuns
    BY <2>1, <2>2, <2>3, GivenUpStep
  <2>4. CASE ~LayoutRuns
    BY <2>1, <2>2, <2>4, QuietStep
  <2>5. QED
    BY <2>3, <2>4
<1>15. CASE Start
  BY <1>15, QuietStep DEF Start, LayoutRuns
<1>16. CASE UNCHANGED vars
  BY <1>16, QuietStep DEF vars, LayoutRuns
<1>17. CASE FindNoWindow \/ PaginateThrows
  BY <1>17, GivenUpEarly, QuietStep DEF LayoutRuns
<1>18. QED
  BY <1>1, <1>2, <1>3, <1>4, <1>5, <1>6, <1>7, <1>8, <1>9, <1>10, <1>11, <1>12,
     <1>13, <1>14, <1>15, <1>16, <1>17 DEF Next, UserStep, HandlerStep

\* A layout saves the document it began with, once or not at all.
THEOREM LayoutsAreJournaled == Spec => EveryLayoutSavedOnce
<1>1. Init => Journal!Init
  BY DEF Init, Journal!Init, LayoutRuns
<1>2. EditorInv /\ [Next]_vars => [Journal!Next]_(Journal!journalVars)
  BY JournalStep DEF EditorInv
<1>3. QED
  BY <1>1, <1>2, EditorSafe, PTL DEF Spec, EveryLayoutSavedOnce, Journal!Spec

=============================================================================
