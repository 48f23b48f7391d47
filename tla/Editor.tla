------------------------------- MODULE Editor -------------------------------
(***************************************************************************)
(* EditorViewModel with what its steps call back into: the ComboBox bound  *)
(* to Pages and CurrentPage, the MainWindow that redraws the canvas on     *)
(* PropertyChanged, the native LayoutText, and the SQLite table.           *)
(*                                                                         *)
(* Everything runs on the UI thread, so a handler is never interleaved     *)
(* with another one; it is cut into steps where it leaves the view model:  *)
(* at a native call, a modal message box, an insert.  A message box keeps  *)
(* the window from taking input until it is closed.  The process may stop  *)
(* at any step and be started again; only the table survives.              *)
(*                                                                         *)
(* Glyphs are known by the page they were generated for, and a page by the *)
(* layout that created it: PageModel has reference equality.  LayoutText   *)
(* is external to the view model and either fills the buffer or throws.    *)
(*                                                                         *)
(* A definition introduced by "Slip" is not part of the model: it is the   *)
(* next definition with a plausible mistake in it, kept to show that the   *)
(* properties below notice the mistake.                                    *)
(***************************************************************************)
EXTENDS Naturals, Sequences

CONSTANTS
    Texts,          \* the non-empty texts a user may type
    EmptyText,      \* the empty string
    Engines,        \* the engines whose commands are at hand
    LinelessEngines,\* those that leave AllMainLines of their pages empty
    PageCount,      \* pages each engine makes of each text
    NoPage,         \* null
    NativeOutcomes, \* how a call of LayoutText may end: "returns", "throws"
    InsertOutcomes, \* how an insert may end: "returns", "throws"
    MaxLayouts      \* bound on the layouts a behaviour runs

\* PaginationEngine, whose command is the button's, and ColumnLayoutEngine, whose
\* command is public but bound to no control.  Every page of PaginationEngine
\* has lines (ResultComplete of Pagination); as written, ColumnLayoutEngine keeps
\* the pages of ForceSingleLinePage only, which fills MainRight and nothing else.
ASSUME EnginesAssumption ==
    /\ Engines \subseteq {"pagination", "columns"}
    /\ LinelessEngines \subseteq {"columns"}

\* The pages layout n makes of text t, as PageModel objects.
Page == [engine : Engines, text : Texts, layout : Nat, number : Nat \ {0}]

ASSUME ConstantsAssumption ==
    /\ EmptyText \notin Texts
    /\ PageCount \in [Engines -> [Texts -> Nat]]
    /\ NoPage \notin Page
    /\ NativeOutcomes \subseteq {"returns", "throws"}
    /\ InsertOutcomes \subseteq {"returns", "throws"}
    /\ MaxLayouts \in Nat

VARIABLES
    text,           \* Text
    pages,          \* Pages
    currentPage,    \* CurrentPage, which the ComboBox's selection follows
    glyphs,         \* Glyphs: the page they were generated for
    lastGlyphCount, \* _lastGlyphCount: the page whose glyphs it counts
    canvas,         \* what DrawGlyphs left on the canvas: glyphs and notes
    status,         \* StatusMessage
    rows,           \* the rows of the TextContent table
    layouts,        \* layouts begun so far: those that got to Pages.Clear
    caller,         \* whom LoadGlyphsForPage returns to
    pc              \* where the UI thread is

vars == <<text, pages, currentPage, glyphs, lastGlyphCount, canvas, status,
          rows, layouts, caller, pc>>

------------------------------------------------------------------------------
BlankCanvas == [glyphs |-> NoPage, notes |-> NoPage]

\* AllMainLines of the page is not empty.
HasLines(page) == page.engine \notin LinelessEngines

\* DrawGlyphs clears the canvas and, if there are glyphs, draws them with the
\* notes of the page it is given.
DrawGlyphs(glyphsOf, notesOf) ==
    IF glyphsOf = NoPage THEN BlankCanvas
    ELSE [glyphs |-> glyphsOf, notes |-> notesOf]

\* Slip: pages numbered from zero.
NewPagesFromZero(engine, n) ==
    [k \in 1..PageCount[engine][text] |->
        [engine |-> engine, text |-> text, layout |-> n, number |-> k - 1]]

\* The pages layout n makes of the current text.
NewPages(engine, n) ==
    [k \in 1..PageCount[engine][text] |->
        [engine |-> engine, text |-> text, layout |-> n, number |-> k]]

\* Content = "Text (Pages: n, Glyphs: m)".  The row also names the layout that
\* is being saved, which the table does not store.
Row == [text      |-> text,
        pageCount |-> Len(pages),
        glyphs    |-> lastGlyphCount,
        engine    |-> caller,
        layout    |-> layouts]

Init ==
    /\ text = EmptyText
    /\ pages = <<>>
    /\ currentPage = NoPage
    /\ glyphs = NoPage
    /\ lastGlyphCount = NoPage
    /\ canvas = BlankCanvas
    /\ status = "ready"
    /\ rows = <<>>
    /\ layouts = 0
    /\ caller = "combo"
    /\ pc = "idle"

------------------------------------------------------------------------------
\* The user's actions.

\* The Text setter; the analysis panes it also refreshes are not modelled.
TypeText ==
    /\ pc = "idle"
    /\ \E t \in Texts \cup {EmptyText} : t # text /\ text' = t
    /\ UNCHANGED <<pages, currentPage, glyphs, lastGlyphCount, canvas, status,
                   rows, layouts, caller, pc>>

\* Slip: the selection is not bound back to CurrentPage.
ClearPagesUnbound(glyphsThen) ==
    /\ pages' = <<>>
    /\ UNCHANGED <<currentPage, canvas>>

\* Pages.Clear: the ComboBox loses its selection and sets CurrentPage to null,
\* whose notification redraws the canvas with the glyphs of that moment.
ClearPages(glyphsThen) ==
    /\ pages' = <<>>
    /\ currentPage' = NoPage
    /\ canvas' = IF currentPage # NoPage THEN DrawGlyphs(glyphsThen, NoPage)
                                         ELSE canvas

\* Slip: the count is not reset with the glyphs.
LayoutNothingKeepingCount ==
    /\ pc = "idle" /\ text = EmptyText
    /\ glyphs' = NoPage
    /\ ClearPages(NoPage)
    /\ status' = "no text"
    /\ UNCHANGED <<text, lastGlyphCount, rows, layouts, caller, pc>>

\* ExecuteLayout with an empty text.
LayoutNothing ==
    /\ pc = "idle" /\ text = EmptyText
    /\ glyphs' = NoPage
    /\ ClearPages(NoPage)
    /\ lastGlyphCount' = NoPage
    /\ status' = "no text"
    /\ UNCHANGED <<text, rows, layouts, caller, pc>>

\* ExecuteColumnLayout with an empty text leaves the previous pages in place.
LayoutNoColumns ==
    /\ pc = "idle" /\ text = EmptyText
    /\ status' = "no text"
    /\ UNCHANGED <<text, pages, currentPage, glyphs, lastGlyphCount, canvas,
                   rows, layouts, caller, pc>>

\* A layout command up to Pages.Clear, when Paginate returns.
LayOut(engine) ==
    /\ pc = "idle" /\ text # EmptyText
    /\ engine \in Engines
    /\ layouts < MaxLayouts
    /\ layouts' = layouts + 1
    /\ status' = "working"
    /\ ClearPages(glyphs)
    /\ caller' = engine
    /\ pc' = "cleared"
    /\ UNCHANGED <<text, glyphs, lastGlyphCount, rows>>

\* ExecuteLayout, and ExecuteColumnLayout when there is a main window.
BeginLayout == LayOut("pagination")
BeginColumnLayout == LayOut("columns")

\* ExecuteColumnLayout without a main window: the previous pages stay.
FindNoWindow ==
    /\ pc = "idle" /\ text # EmptyText
    /\ "columns" \in Engines
    /\ status' = "error"
    /\ UNCHANGED <<text, pages, currentPage, glyphs, lastGlyphCount, canvas,
                   rows, layouts, caller, pc>>

\* Paginate throws in either command: the previous pages stay, since the list
\* is cleared only after it has returned.
PaginateThrows ==
    /\ pc = "idle" /\ text # EmptyText
    /\ status' = "error"
    /\ pc' = "error box"
    /\ UNCHANGED <<text, pages, currentPage, glyphs, lastGlyphCount, canvas,
                   rows, layouts, caller>>

\* The CurrentPage setter, whose notification redraws before glyphs are loaded.
SetCurrentPage(page) ==
    /\ currentPage' = page
    /\ canvas' = DrawGlyphs(glyphs, page)
    /\ pc' = "loading"

\* Another page is picked in the ComboBox.
SelectPage ==
    /\ pc = "idle"
    /\ \E k \in DOMAIN pages : /\ pages[k] # currentPage
                               /\ SetCurrentPage(pages[k])
    /\ caller' = "combo"
    /\ UNCHANGED <<text, pages, glyphs, lastGlyphCount, status, rows, layouts>>

------------------------------------------------------------------------------
\* The steps of the handlers.

\* The new pages are added and the first of the list, if any, becomes current.
ShowFirstPage ==
    /\ pc = "cleared"
    /\ pages' = pages \o NewPages(caller, layouts)
    /\ IF pages' = <<>>
         THEN pc' = "laid out" /\ UNCHANGED <<currentPage, canvas>>
         ELSE SetCurrentPage(pages'[1])
    /\ UNCHANGED <<text, glyphs, lastGlyphCount, status, rows, layouts, caller>>

\* Slip: the window is not told of the new glyphs.
LoadGlyphsForPageSilently ==
    /\ pc = "loading" /\ HasLines(currentPage) /\ "returns" \in NativeOutcomes
    /\ lastGlyphCount' = currentPage
    /\ glyphs' = currentPage
    /\ pc' = IF caller = "combo" THEN "idle" ELSE "laid out"
    /\ UNCHANGED <<text, pages, currentPage, canvas, status, rows, layouts, caller>>

\* Slip: the count is kept only for a page picked by the user.
LoadGlyphsForPageUncounted ==
    /\ pc = "loading" /\ HasLines(currentPage) /\ "returns" \in NativeOutcomes
    /\ lastGlyphCount' = IF caller = "combo" THEN currentPage ELSE lastGlyphCount
    /\ glyphs' = currentPage
    /\ canvas' = DrawGlyphs(currentPage, currentPage)
    /\ pc' = IF caller = "combo" THEN "idle" ELSE "laid out"
    /\ UNCHANGED <<text, pages, currentPage, status, rows, layouts, caller>>

\* LoadGlyphsForPage when LayoutText returns.
LoadGlyphsForPage ==
    /\ pc = "loading" /\ HasLines(currentPage) /\ "returns" \in NativeOutcomes
    /\ lastGlyphCount' = currentPage
    /\ glyphs' = currentPage
    /\ canvas' = DrawGlyphs(currentPage, currentPage)
    /\ pc' = IF caller = "combo" THEN "idle" ELSE "laid out"
    /\ UNCHANGED <<text, pages, currentPage, status, rows, layouts, caller>>

\* LoadGlyphsForPage's early return for a page without lines: the glyphs go, their
\* count stays, and nobody is told, so that the canvas keeps what the setter's
\* notification drew.
LoadNoGlyphs ==
    /\ pc = "loading" /\ ~HasLines(currentPage)
    /\ glyphs' = NoPage
    /\ pc' = IF caller = "combo" THEN "idle" ELSE "laid out"
    /\ UNCHANGED <<text, pages, currentPage, lastGlyphCount, canvas, status,
                   rows, layouts, caller>>

\* LayoutText throws: the layout commands catch and show the error, the
\* binding engine swallows it when the setter was called by the ComboBox.
LayoutTextThrows ==
    /\ pc = "loading" /\ HasLines(currentPage) /\ "throws" \in NativeOutcomes
    /\ IF caller = "combo"
         THEN pc' = "idle" /\ UNCHANGED status
         ELSE pc' = "error box" /\ status' = "error"
    /\ UNCHANGED <<text, pages, currentPage, glyphs, lastGlyphCount, canvas,
                   rows, layouts, caller>>

\* The summary, then for ExecuteLayout the box with the first page's notes.
Report ==
    /\ pc = "laid out"
    /\ status' = "summary"
    /\ pc' = IF caller = "pagination" /\ pages # <<>> THEN "notes box"
                                                      ELSE "saving"
    /\ UNCHANGED <<text, pages, currentPage, glyphs, lastGlyphCount, canvas,
                   rows, layouts, caller>>

\* Slip: the handler ends with the box.
CloseNotesBoxUnsaved ==
    /\ pc = "notes box"
    /\ pc' = "idle"
    /\ UNCHANGED <<text, pages, currentPage, glyphs, lastGlyphCount, canvas,
                   status, rows, layouts, caller>>

CloseNotesBox ==
    /\ pc = "notes box"
    /\ pc' = "saving"
    /\ UNCHANGED <<text, pages, currentPage, glyphs, lastGlyphCount, canvas,
                   status, rows, layouts, caller>>

\* Slip: the handler is run on from the box a second time.
SaveToDatabaseAgain ==
    /\ pc = "saving" /\ "returns" \in InsertOutcomes
    /\ rows' = Append(rows, Row)
    /\ pc' \in {"idle", "saving"}
    /\ UNCHANGED <<text, pages, currentPage, glyphs, lastGlyphCount, canvas,
                   status, layouts, caller>>

SaveToDatabase ==
    /\ pc = "saving" /\ "returns" \in InsertOutcomes
    /\ rows' = Append(rows, Row)
    /\ pc' = "idle"
    /\ UNCHANGED <<text, pages, currentPage, glyphs, lastGlyphCount, canvas,
                   status, layouts, caller>>

\* Slip: the failure is shown in the box only.
InsertThrowsQuietly ==
    /\ pc = "saving" /\ "throws" \in InsertOutcomes
    /\ pc' = "error box"
    /\ UNCHANGED <<text, pages, currentPage, glyphs, lastGlyphCount, canvas,
                   status, rows, layouts, caller>>

\* SaveToDatabase's own catch.
InsertThrows ==
    /\ pc = "saving" /\ "throws" \in InsertOutcomes
    /\ status' = "error"
    /\ pc' = "error box"
    /\ UNCHANGED <<text, pages, currentPage, glyphs, lastGlyphCount, canvas,
                   rows, layouts, caller>>

CloseErrorBox ==
    /\ pc = "error box"
    /\ pc' = "idle"
    /\ UNCHANGED <<text, pages, currentPage, glyphs, lastGlyphCount, canvas,
                   status, rows, layouts, caller>>

------------------------------------------------------------------------------
\* The process ends, by closing the window or by a crash: the view model and
\* the window are gone, the rows stay in the file.
Stop ==
    /\ pc # "off"
    /\ pc' = "off"
    /\ text' = EmptyText /\ pages' = <<>> /\ currentPage' = NoPage
    /\ glyphs' = NoPage /\ lastGlyphCount' = NoPage /\ canvas' = BlankCanvas
    /\ status' = "ready" /\ caller' = "combo"
    /\ UNCHANGED <<rows, layouts>>

\* A new view model opens the same file; CREATE TABLE keeps an existing table.
Start ==
    /\ pc = "off"
    /\ pc' = "idle"
    /\ UNCHANGED <<text, pages, currentPage, glyphs, lastGlyphCount, canvas,
                   status, rows, layouts, caller>>

------------------------------------------------------------------------------
UserStep ==
    \/ TypeText
    \/ LayoutNothing
    \/ LayoutNoColumns
    \/ BeginLayout
    \/ BeginColumnLayout
    \/ FindNoWindow
    \/ PaginateThrows
    \/ SelectPage
    \/ CloseNotesBox
    \/ CloseErrorBox

HandlerStep ==
    \/ ShowFirstPage
    \/ LoadGlyphsForPage
    \/ LoadNoGlyphs
    \/ LayoutTextThrows
    \/ Report
    \/ SaveToDatabase
    \/ InsertThrows

Next == UserStep \/ HandlerStep \/ Stop \/ Start

\* A handler that runs goes on; nobody has to press, type or close anything.
Spec == Init /\ [][Next]_vars /\ WF_vars(HandlerStep)

------------------------------------------------------------------------------
\* Type invariant.

ListedPages == {pages[k] : k \in DOMAIN pages}

RowType ==
    [text : Texts, pageCount : Nat, glyphs : Page \cup {NoPage},
     engine : Engines, layout : Nat]

\* Every variable has its type.
TypeOK ==
    /\ text \in Texts \cup {EmptyText}
    /\ pages \in Seq(Page)
    /\ currentPage \in Page \cup {NoPage}
    /\ glyphs \in Page \cup {NoPage}
    /\ lastGlyphCount \in Page \cup {NoPage}
    /\ canvas \in [glyphs : Page \cup {NoPage}, notes : Page \cup {NoPage}]
    /\ status \in {"ready", "no text", "working", "summary", "error"}
    /\ rows \in Seq(RowType)
    /\ layouts \in Nat
    /\ caller \in Engines \cup {"combo"}
    /\ pc \in {"idle", "cleared", "loading", "laid out", "notes box", "saving",
               "error box", "off"}

------------------------------------------------------------------------------
\* Safety.

\* The selected page is one of the listed pages at every step, although the
\* list is cleared and refilled while a selection exists: the ComboBox's
\* callback inside Pages.Clear withdraws it.
SelectionListed == currentPage # NoPage => currentPage \in ListedPages

\* The listed pages are all of the newest layout and in order: a layout never
\* appends to what an earlier one left, whichever engine ran before, and no
\* failure of a layout brings the pages of an earlier one back.
PagesOfOneLayout ==
    \A k \in DOMAIN pages :
        /\ pages[k] = [pages[1] EXCEPT !.number = k]
        /\ pages[k].layout = layouts

\* What the ComboBox shows is one layout and a page of it, at every step of every
\* command, callbacks included.
ListAndSelection == SelectionListed /\ PagesOfOneLayout

\* Glyphs are never held under the count of others: the two are updated apart, at
\* six places, and a throw may come between.
GlyphsCounted == glyphs # NoPage => lastGlyphCount = glyphs

\* They part in one branch only, that for a page without lines, which clears the
\* glyphs and keeps their count.
CountFollowsGlyphs ==
    [][lastGlyphCount = glyphs =>
          \/ lastGlyphCount' = glyphs'
          \/ pc = "loading" /\ ~HasLines(currentPage) /\ glyphs' = NoPage]_vars

\* The count a row will report is the count of the glyphs held, unless a page
\* without lines took the glyphs and left their count behind.
CountMatchesGlyphs == []GlyphsCounted /\ CountFollowsGlyphs

\* The two are one as long as every engine gives its pages lines, the bound
\* command's engine among them.
CountIsOfGlyphs == lastGlyphCount = glyphs

\* The canvas is never behind the view model, a throw of LayoutText included: the
\* notes on it are those of the selected page, and if that page has lines, the
\* glyphs are those that are held.  When no page is selected, no notes are left.
PreviewUpToDate ==
    /\ canvas.notes \in {NoPage, currentPage}
    /\ currentPage # NoPage /\ HasLines(currentPage) =>
          canvas = DrawGlyphs(glyphs, currentPage)

\* Whenever the window can be seen, it shows the glyphs and the notes of the
\* selected page, if that has lines and LayoutText never throws: the setter's own
\* notification had drawn the notes of the new page under the glyphs of the old one.
PreviewShowsSelection ==
    /\ pc \in {"idle", "notes box", "error box"}
    /\ currentPage # NoPage /\ HasLines(currentPage)
    => canvas = DrawGlyphs(currentPage, currentPage)

\* A row's page count is the one of the text in the same row: the text cannot
\* change between the pagination and the save, a message box later.
RowMatchesText ==
    \A i \in DOMAIN rows :
        rows[i].pageCount = PageCount[rows[i].engine][rows[i].text]

\* If the layout made pages and they have lines, which those of the bound command
\* do, the glyph count in its row is its first page's, whatever layouts without
\* lines ran before.
RowCountsFirstPage ==
    \A i \in DOMAIN rows :
        rows[i].pageCount > 0 /\ rows[i].engine \notin LinelessEngines =>
            rows[i].glyphs = [engine |-> rows[i].engine, text |-> rows[i].text,
                              layout |-> rows[i].layout, number |-> 1]

\* SaveToDatabase's comment: the row holds the input text and its pagination
\* info.  A layout without pages has no glyphs to count.
RowCountsNothing ==
    \A i \in DOMAIN rows : rows[i].pageCount = 0 => rows[i].glyphs = NoPage

\* A summary at rest means the newest row is the newest layout's: no failure,
\* restart or later command leaves the summary of a layout that was not saved.
SummaryMeansSaved ==
    pc = "idle" /\ status = "summary" =>
        rows # <<>> /\ rows[Len(rows)].layout = layouts

\* "Working" never stays on the status bar.
NothingLeftWorking == pc = "idle" => status # "working"

\* At rest the status bar tells what became of the newest layout: it neither goes
\* on working nor reports a layout that was not saved.
StatusTruthful == SummaryMeansSaved /\ NothingLeftWorking

\* Layout n is in the newest row, or its error is shown, or the process has ended.
Accounted(n) ==
    \/ rows # <<>> /\ rows[Len(rows)].layout = n
    \/ layouts = n /\ pc \in {"error box", "off"}

\* Every layout that begins is saved or its error is shown, unless the process
\* stops or the user never closes its box: that the box was reached is not enough,
\* the layout is saved after it.
EveryLayoutAccounted ==
    \A n \in 1..MaxLayouts :
        (pc = "cleared" /\ layouts = n) ~> (Accounted(n) \/ [](pc = "notes box"))

------------------------------------------------------------------------------
\* What has to be known of a state for the next step to keep the above.

LayingOut == caller \in Engines /\ text \in Texts

\* What each point of a layout handler may rely on.
HandlerInv ==
    /\ pc = "cleared" => LayingOut /\ pages = <<>> /\ currentPage = NoPage
    /\ pc = "loading" =>
          /\ currentPage # NoPage
          /\ caller # "combo" => /\ LayingOut
                                 /\ pages = NewPages(caller, layouts)
                                 /\ pages # <<>> /\ currentPage = pages[1]
    /\ pc \in {"laid out", "notes box", "saving"} =>
          /\ LayingOut
          /\ pages = NewPages(caller, layouts)
          /\ pages # <<>> => /\ currentPage = pages[1]
                             /\ HasLines(pages[1]) => glyphs = pages[1]

\* Between the steps of a handler its status is known; at rest, or when the
\* ComboBox asks for glyphs, a summary is the one of the newest row.
StatusInv ==
    /\ pc \in {"notes box", "saving"} => status = "summary"
    /\ pc = "error box" => status = "error"
    /\ pc = "off" => status = "ready"
    /\ (pc = "idle" \/ (pc = "loading" /\ caller = "combo")) =>
          /\ status # "working"
          /\ status = "summary" => rows # <<>> /\ rows[Len(rows)].layout = layouts

\* The inductive invariant.
EditorInv ==
    /\ TypeOK
    /\ HandlerInv
    /\ StatusInv
    /\ SelectionListed
    /\ PagesOfOneLayout
    /\ GlyphsCounted
    /\ RowMatchesText
    /\ RowCountsFirstPage

\* Unless glyphs are being loaded, the canvas shows the selected page, if that has
\* lines; inductive when LayoutText never throws.
PreviewInv ==
    pc # "loading" /\ currentPage # NoPage /\ HasLines(currentPage) =>
        canvas = DrawGlyphs(currentPage, currentPage)

=============================================================================
