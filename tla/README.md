# TypesettingProject: specifications

TypesettingProject is a Windows editor for Hebrew texts with three systems of
footnotes. A user types a text in which notes stand between tags (`$$...$$`,
`%%...%%`, `&&...&&`), presses a button, and sees the text laid out on pages; each
layout is saved to a SQLite table. This directory holds TLA+ specifications of the
program: modules translated from its source, TLC configurations that check them on
small instances, and theorems about them that TLAPS checks for every value of their
constants.

Paths below are relative to the repository. `EditorViewModel`, `PaginationEngine`
and so on are files of `UI_Application (WPF Core)/`.

## 1. The system

The repository holds about 4,000 lines of its own; the rest of it is a vendored copy
of CMake 4.3.1, which is not modelled.

| Component | State it keeps | Operations | Modelled |
|---|---|---|---|
| **EditorViewModel** (`ViewModels/`) | `Text`, `Pages`, `CurrentPage`, `Glyphs`, `_lastGlyphCount`, `StatusMessage` | the `Text` and `CurrentPage` setters, `ExecuteLayout`, `ExecuteColumnLayout`, `LoadGlyphsForPage`, `SaveToDatabase`, `UpdateTextAnalysis` | `Editor` (all but the analysis panes and `CreateParsedDocument`) |
| **MainWindow** (`Views/`) | the canvas | redraws when `Glyphs` or `CurrentPage` is notified; the ComboBox writes `CurrentPage` back | `Editor` (when, and with which glyphs and notes), `Preview` (lines, notes and page number down the canvas; not where a word stands in a line), `TwoColumnPage` (the two-column page) |
| **PaginationEngine** (`Services/`) | the page being filled, the pages closed, three note indices | `Paginate`, `AddFootnotesForLine`, `CalculateLineHeight`, `GetPaginationSummary` | `Pagination`, `PageReport` |
| **TextHelper** (`Services/`) | none between calls | `ExtractContentAndFootnotes`, `ExtractByTag`, `WrapText` | `TextExtraction`, `WordWrap` |
| **PageModel** (`Models/`) | heights and contents of a page | `RemainingHeight`, `ReserveHeight` | the part `Paginate` uses, in `Pagination` |
| **DatabaseContext** (`DataLayer`) | the table `ContentRows` on disk | create table, insert, read, update, delete | `Editor` (create and insert; nothing calls the others) |
| **CoreEngine** (`LayoutText`, C++; `NativeMethods`) | none | fills a buffer with one glyph per character | `Preview` (the loop), `Editor` (a call that returns or throws) |
| **TextParser** (`Services/`) | a cache of widths | `WrapLinesToWidth`, `Parse` | `ParagraphWrap` (`WrapLinesToWidth`) |
| **ColumnLayoutEngine**, **HeightCalculator** (`Services/`) | page being filled | two-column pagination | no: they do not compile at this commit, see section 7 |
| **PageRenderer**, **PdfExporter**, constants, converters | none | drawing, formatting | no: no state |
| `HarfBuzzWrapper.cpp`, `TypesettingEngine.cpp` | | empty files | no |
| build files, `cmake-4.3.1/` | | | no |

### How the parts interact

Everything runs on the user interface thread; there is one process and no background
work. `ExecuteLayout` is a long handler that calls, in turn: `PaginationEngine.Paginate`
(which calls `TextHelper.ExtractContentAndFootnotes`, then its own loop); `Pages.Clear`
and `Pages.Add`; the `CurrentPage` setter (which notifies the window and calls
`LoadGlyphsForPage`, hence `LayoutText`); `MessageBox.Show`; and
`DatabaseContext.SaveContent`.

What looks sequential is interleaved in three ways:

* **Callbacks in the middle of the handler.** Clearing `Pages` makes the ComboBox
  write `null` into `CurrentPage` through its two-way binding before the handler goes
  on; the setter runs inside. Each notification of `CurrentPage` or `Glyphs` redraws
  the canvas at once, with whatever the other one holds at that moment.
* **Waiting.** A message box keeps the handler suspended between pagination and
  save. The box is modal for the window, so no other handler starts, but the process
  may be stopped there.
* **Exceptions.** `LayoutText` may throw after `CurrentPage` has changed and before
  `Glyphs` has; `SaveContent` may throw after the summary was shown; `Paginate` may throw
  before the old pages are cleared. A throw within a layout command reaches its `catch`; a
  throw within a setter called by the binding is swallowed by it.

And across runs of the program: the table is on disk and stays, everything else is
lost when the process stops.

### What makes each part correct

* *Extraction*: no letter is lost or printed twice; only whole pairs of tags are
  taken out; a note keeps its order; after a system's pass none of its notes is left.
* *Pagination*: the pages cut the lines into consecutive runs, in order; a page's
  main text fits it; each note is on one page, once; pages are turned only when they
  must be; no page is empty; the loop ends.
* *Editor*: the selection is a page of the list; the list is one layout's; of pages that
  have lines, the canvas shows the glyphs and the notes of the selected one, and a saved row
  counts the glyphs of its own layout; a row is of the text and the number of pages of its
  layout; the status bar says "pages made" only of a saved layout and is never left saying
  "working"; a layout that has begun ends in a row or in an error, a message box in between
  or not, unless the process stops or the user never closes the box.
* *Preview*: every word of the page goes through the glyph buffer, the sort and the wrap
  without being lost or moved; a line is within its bound and closed only when it must
  be; everything is drawn once, one thing below the other, the page number below all.

The list of what is hard to test, line by line, is `hazards` in `PROJECT.json`.

## 2. The modules

Methods, what extends them for checking (`MC...`), and the module of the proofs about them,
which extends them too:

| Methods | with | checked by | proofs in |
|---|---|---|---|
| `TextExtraction` | | `MCTextExtraction` | `TextExtractionProofs` |
| `Pagination` | `PaginationFlow` (the mapping to `Flow`), `PageReport` | `MCPagination` (all), `MCPageReport` | `PaginationProofs` |
| `TextToPages` | instances of `TextExtraction` and `Pagination` | `MCTextToPages` | `TextToPagesProofs`, on instances of `TextExtractionProofs` and `PaginationProofs` |
| `WordWrap` | `WordWrapFlow` (the mapping to `Flow`) | through `Preview` | `PreviewProofs` |
| `Preview` | extends `WordWrapFlow` | `MCPreview` | `PreviewProofs` |
| `ParagraphWrap` | | `MCParagraphWrap` | `ParagraphWrapProofs` |
| `TwoColumnPage` | | `MCTwoColumnPage` | `TwoColumnPageProofs` |
| `Editor` | `EditorJournal` (the mapping to `LayoutJournal`) | `MCEditor` | `EditorProofs` |

`RunningSum` defines the sums of a sequence from its beginning on, with which lengths, widths
and heights of runs of words and lines are measured. `DataLemmas` proves what the proofs use of
sequences, sums and cuts of a text.

What the methods promise:

    Flow            implemented by Pagination (PaginationFlow), WordWrap (WordWrapFlow),
                    Preview and ParagraphWrap
    LayoutJournal   implemented by Editor (EditorJournal)

* **`Flow`** says what every method that breaks a text promises: the items of the text are
  put in boxes, in reading order, none left out and none twice, and the items of a box
  have room in it. It leaves open when a box is closed. `PaginationFlow` takes lines and
  pages for items and boxes, `WordWrapFlow` words and lines, `ParagraphWrap` the words of
  all paragraphs and the lines; each mapping computes the box of an item from where the
  item really stands, and the room left from the heights or widths there. `Preview` maps
  the words of the page's main text, from before they became glyphs, to the lines of the
  canvas.
* **`LayoutJournal`** says what a layout promises of the table: the document it lays
  out (text, engine, number of pages) is fixed when it begins, and it adds one row with that
  document or none. `EditorJournal` maps the editor's stages to it.
* **`Pagination`** is `PaginationEngine.Paginate` from the point where the text has
  been split into lines. One step is one round of the `while` loop: `PlaceLine` (the
  line fits: it is added, its height reserved, the remaining notes attached and the
  three indices moved), `TurnPage` (the page is stored and the next one created with
  `pages.Count + 1`), `Return` (the last page is stored if it has a line). A line is
  its length, for only the length decides its height; a note is its position in the list
  of its system. The line height is assumed even, so half of it is whole.
* **`PageReport`** is what is said of the result: `GetPaginationSummary`, which without
  pages says only that, and the layout rules of `.cursorrules` and of the method's comment.
* **`TextExtraction`** is `TextHelper.ExtractContentAndFootnotes`. A raw text is a
  sequence of characters of four kinds: a letter, a space, a line break, one tag
  character per system; a letter is known by its position, so a lost, doubled or moved
  letter shows. `TakeNote` and `CopyCharacter` are the two branches of the loop in
  `ExtractByTag`, `NextSystem` goes to the next of the three passes over what the
  previous pass left, `Return` normalises white space (`\s+` to one space, `Trim`).
  `IndexOf` is taken as the ordinal search for two characters; its culture-sensitive
  comparison ignores some control characters, which the model's texts do not contain.
* **`TextToPages`** composes both as `Paginate` does: the early return for blank
  texts, the extraction, `Split`, the loop. It holds an instance of each and runs
  their own actions.
* **`Editor`** is `EditorViewModel` with the window, the table and `LayoutText` as it
  sees them. A layout's handler is cut into one action per stretch between two
  points where control leaves it (`BeginLayout` or `BeginColumnLayout`, which include
  `ClearPages`, then `ShowFirstPage`, `Report`, `SaveToDatabase`, the message boxes). Either
  may end before the list is cleared (`PaginateThrows`, `FindNoWindow`), and the old pages stay.
  The binding's callback, the redraws
  and the setter's call to `LayoutText` are parts of the actions in which the code
  makes them. Glyphs are known by the page they were made for; a text by how many
  pages it makes. `Stop` and `Start` close and reopen the program around the table.
  `LoadGlyphsForPage` has three ends: it loads (`LoadGlyphsForPage`), `LayoutText` throws
  (`LayoutTextThrows`), or the page has no lines (`LoadNoGlyphs`), and then it clears the
  glyphs, keeps their count and notifies nobody (`EditorViewModel.cs:363-367`).
  Two commands share the handler's steps: `LayoutCommand` and `ColumnLayoutCommand`, which
  differ in the engine they call and in what they report. `ColumnLayoutCommand` is bound to no control in
  `MainWindow.xaml`; the constant `Engines` says which of the two the user can start.
  The passing run and the theorems take both, the violation run only the bound one. The
  constant `LinelessEngines` says whose pages have no `AllMainLines`. `PaginationEngine`'s
  always have some (`ResultComplete`); `ColumnLayoutEngine`, as far as it can be read, keeps the
  pages of `ForceSingleLinePage` only, which fills `MainRight` alone. The passing run takes it so;
  the theorems hold for either reading.

* **`WordWrap`** is `TextHelper.WrapText`. A word is its position and its length; one
  step is one round of the `foreach` (`TakeWord`), and `ReturnLines` adds the last line.
  The length of a line is the length its `StringBuilder` has. The words have no white
  space, so `Trim` changes nothing.
* **`Preview`** is what happens between selecting a page and seeing it:
  `LoadGlyphsForPage` has `LayoutText` fill the buffer (`FillGlyph`), `DrawGlyphs`
  orders the glyphs by x and cuts them into words (`BeginWrap`), wraps them (`Wrap`, which
  takes `WordWrap`'s own steps) and draws down the canvas (`DrawLine`,
  `DrawLongSeparator`, `DrawTitle`, `DrawNote`, `NextSection`, `PlaceNumber`). Heights
  are in tenths of a pixel and are those the code reserves; the height of a note and the widths
  of words are what the text formatter measures, so they are inputs. A page without
  lines is never drawn so; what happens to it is `LoadNoGlyphs` of `Editor`. The buffer always has room, for the caller
  allocates it by the length of the text, which has no null character.

* **`ParagraphWrap`** is `TextParser.WrapLinesToWidth`: the inner loop takes a word
  (`JoinLine` if the measured line fits, else `BreakLine`), the end of a round of the
  outer loop adds the marked last line (`EndParagraph`). A word is its paragraph, its
  place and its width; a line is as wide as its words and the blanks between them, which
  leaves kerning across a blank out.
* **`TwoColumnPage`** is `MainWindow.DrawTwoColumnPage`, one action for each stretch down
  the page: `DrawHead` clears the canvas and draws number and header, `DrawMain` the two
  columns, `DrawNotes` or `SkipNotes` one system of notes each (separator, title, the notes
  run on in two columns with markers), `SizeCanvas` the height. The height of a column of notes is the
  rows its notes and markers fill. Nothing calls the method at this commit; it is
  specified as the renderer of the `PageModel` the repository describes.

A definition introduced by a comment "Slip" is not part of the model. It is the next
definition with a plausible programming mistake in it, and shows (`mutants` in
`PROJECT.json`) that some property would notice.

`map` in `PROJECT.json` gives the source lines of every definition that models code.

**Two facts about this commit.** `ColumnLayoutEngine.TryFitPage` is two versions of
the method run together (lines 172 to 178) and the project does not compile with it;
what is specified is the code as written, of the parts that are whole. And
`TextHelper.cs:32` joins all lines of a text before `Paginate` splits it, so the whole
program hands the loop at most one line. `Pagination` is checked and proved at its own
interface, for every list of lines: the loop's contract does not depend on the helper's
defect, which `TextToPages` shows in the composition.

## 3. The runs

Each run takes seconds to a minute.

| Run | Question | Bounds |
|---|---|---|
| `pagination` | Does `Paginate` lay every line and note out once, in order, on full, few and numbered pages, and return? Does the summary count the notes of the text? Does it implement `Flow`? | up to `MaxLines` = 5 lines of 50 or 51 characters (the last ordinary length and the first long one), up to `MaxNotes` = 2 notes per system, pages of 75 pixels: two ordinary lines with 15 over, or one long and one ordinary line exactly |
| `notes_fit` | Do the notes fit the page? (no) | the application's own page, one line, up to 9 notes per system |
| `extraction` | Is anything lost, doubled or moved by three passes over nested, crossed, adjacent, empty and unclosed tags, and is the main text one line with single spaces? | texts of up to `MaxPieces` = 4 pieces out of eight (a letter, a space, a line break, the tags of three systems, two half tags), and of up to `MaxTagged` = 6 out of four (a letter, two tags, a half tag) |
| `extraction_joins` | Is the main text free of notes? (no) | the same |
| `text_to_pages` | From a raw text to the pages: is every letter printed once and in order, if there is main text and so a page, and does `Paginate` return? | texts of up to `MaxPieces` = 4 pieces, a whole note of each system among them, on the application's page |
| `text_to_pages_lines` | Does the engine see the lines of the text? (no) | the same |
| `editor` | Whatever is pressed, typed or picked, and whatever throws or stops: do selection, list, count and canvas stay together as far as pages have lines, does a row describe its own layout, is every layout saved once or not at all, and in the end saved or its error shown? | `MaxLayouts` = 3 layouts of three texts: one without pages, one with a page, one with three pages in columns; the pages of columns have no lines; `Paginate`, `LayoutText` and the insert may return or throw |
| `editor_count` | Does a row without pages count no glyphs? (no) | `MaxLayouts` = 2, the bound command only |
| `preview` | From the text of a page to the canvas: are all words on the lines, in order, do they flow onto lines until all are placed, are lines within the bound and few, is everything drawn once and nothing over something else? | every main text of up to `MaxChars` = 8 characters, so up to four words; `MaxCharsPerLine` = 4 (the code has 40); no, one or two notes per section, of two heights |
| `paragraphs` | Are the words of all paragraphs on lines, in order, within the width, and is the mark on the lines that end a paragraph? | up to `MaxParagraphs` = 3 paragraphs of up to three words, `MaxWords` = 5 together, of widths 1, 2 and 6, on lines of `MaxWidth` = 5 with a blank of 1 |
| `two_columns` | Is a two-column page drawn once and in order, nothing over something else, and do the markers tell notes apart? | columns of 0, 1, 3 and 40 lines (more than a page holds), systems of 0, 1, 7, 8 and 21 notes (there are 7 symbols and 20 letters) and of uneven ones |
| `preview_notes` | Are the words of a note apart? (no) | texts of up to two characters, the same notes |

Why the bounds are enough. *Pagination*: the state between two rounds is the page
being filled; with five lines there are up to five pages, a page is left full exactly,
left with too little for an ordinary line, and left with room for an ordinary line but
not for a long one. *Extraction*: the defects of sequential passes need one tag pair of
one system around or across a pair of another, and a letter within; six pieces hold
that and a third unclosed tag. *Editor*: a stale value needs a layout that sets it and a later
one that does not refresh it; a third layout shows that the state can be left again.
*Preview*: with four characters to a line there are words that fill a line exactly, with
and without a blank before them, words longer than a line in every position, and up to four
lines; the drawing below the lines depends on their number only. *Paragraphs*: two narrow words and a
wide one with their blanks fill a line exactly, a word is wider than a line in every position, and
paragraphs are empty, end in the middle of a line or at its end. *Two columns*: the text and the
notes of a system are balanced, longer on the right and longer on the left, and both cross the foot of
the page; the counters of markers cross their limits.
`MaxLayouts` stops the user from pressing the button again and bounds nothing else.

Deadlock is checked in the runs of methods that step in place when they have returned, and
of the editor, which can always be stopped and started. It is not in `paragraphs` and
`two_columns`, where the method stops when it has returned.

### What the passing properties say

`Pagination`: `MainTextFits`, `LinesInOrder`, `NumberedInOrder`, `NotesExactlyOnce`,
`GreedyFit`, `ResultComplete`; `FewestPages` (no other cut of the same lines has fewer
pages, the reference definition of what first fit is for); `SummaryCountsNotes`
(the sums of notes over the pages are those of the text; the first sum, which the code calls
characters, is left to section 4); `PaginateFlows` (it implements `Flow`: the height accumulated for a page is the height of
its lines, every line is placed, and the method returns).

`TextExtraction`: `LettersKept`, `TagsGoInPairs`, `ReadingOrder`, `CleanText` (a pass leaves no
note of its system, and the main text has no white space but single spaces between its words,
so no line break). `TextToPages`: `LettersPrinted` (each letter
has one place on the pages, in the main text or in a note, and two letters of the main text, or
of the notes of a system, stand in the order typed; all letters are lost when there is no main
text, and only then), and `Returns`, which the extraction's loops must do as well.

`Editor`: `ListAndSelection`; `CountMatchesGlyphs` (glyphs are never held under the count of
others, and the two part in one branch only, in which a page without lines takes the glyphs and
leaves the count); `PreviewUpToDate` (the notes on the canvas are those of the selected page or
none, and if it has lines the glyphs are those held, whatever has thrown);
`RowCountsFirstPage` (of layouts whose pages have lines, so of all that the bound command makes,
whatever ran before); `StatusTruthful`; `EveryLayoutSavedOnce` (it implements `LayoutJournal`: a row
is of the text, the engine and the number of pages its layout began with, and no step, a restart
included, changes or removes it); and the liveness property `EveryLayoutAccounted` (from the
moment it has begun, a layout leads to its row, to its error or to the end of the process, the box
with the notes in between; only a box that is never closed excuses it).

`Preview`: `WrappedGreedily` (the conjunction of `LinesWithinBound`, `WordsInOrder` and
`LinesFilled`); `FewestLines` (no other cut of the words has fewer lines); `PageIsDrawn`;
`OneBelowAnother`, the page number included; `WordsFlow` (selecting a page implements `Flow`
for the words of its text, so the counted length of a line is that of its text).

`ParagraphWrap`: `WordsInOrder`, `MarksEndParagraphs`, `LinesFilled` (a line of several words is
within the width, and the first word of the next one had no room on it), `ParagraphsFlow`.

`TwoColumnPage`: `PageIsDrawn`, `MarkersTellApart`, `OneBelowAnother`, the end of the canvas included.

### Fairness

`Pagination`, `TextExtraction`, `TextToPages`, `Preview` and `ParagraphWrap` have weak fairness
of their next-state relation: they are loops on one thread that nothing suspends. `Flow` has it
too, so that an implementation has to place every item and end. `Editor` has weak fairness of the
handler's own steps, which run to the end once started, and none of the user's: nobody
has to press a button, close a message box, pick a page or restart the program. So
`EveryLayoutAccounted` has to except the layout whose box stays open for ever, and no other: once
the box is closed, the save or its error must follow.

## 4. What the runs found

Five places where the code does other than its documentation, comments or labels say;
`findings` in `PROJECT.json` quotes the lines:

1. Notes take no room: `Paginate` never reads `_footnoteHeight`, and a page with one
   line and 25 notes overflows (`notes_fit`; `.cursorrules:27`).
2. Taking a note out can join the characters around it to a tag of a system whose pass
   is over: `$%%x%%$y$%%x%%$` (`extraction_joins`).
3. Line breaks are removed before the text is split into lines (`text_to_pages_lines`).
4. A layout without pages saves the glyph count of an earlier one (`editor_count`).
5. The width left for notes is zero, because the margin is subtracted from the page
   width by the caller and by `RenderFootnoteSection`: the blanks between the words of a
   note are negative (`preview_notes`).

Seen without a run that shows a violation:

* a text that consists of notes has no pages, and its notes are lost
  (`PaginationEngine.cs:78`); `LettersPrinted` says so exactly;
* the glyphs of an old page stay on the screen when a text makes no pages
  (`EditorViewModel.cs:325`), or when an empty text is laid out while no page is selected
  (`:311`, which notifies nobody);
* `ColumnLayoutEngine.GetFootnoteByIndex` looks the notes of all systems up in the first one,
  and `CreateParsedDocument` hands on no note beyond the number of lines, which is one;
* a line that ends with a typed `¤` is taken for the last of its paragraph
  (`TextParser.cs:193,205`);
* a page without lines leaves the count, the glyphs and the canvas apart
  (`EditorViewModel.cs:363-367`): the glyphs are gone, their count stays and goes into the row of a
  column layout, and the canvas keeps the glyphs of the page before, with the notes of the new one,
  until something redraws it. No line of the repository speaks of such pages, and the engine that
  makes them does not compile, so the properties of the editor say what holds of pages with lines
  and where the branch may strike;
* `GetPaginationSummary` adds up lines under a label, and in a variable, that say characters
  (`PaginationEngine.cs:160,165`). No property takes that total for right: `SummaryCountsNotes`
  is about the notes, and theorem `TotalIsOfLines` says that it is the number of lines.

## 5. What is proved

The modules `...Proofs` prove, for every value of the constants that meets the named assumptions,
every safety property of the passing runs, and that
the methods implement `Flow` and `LayoutJournal`. `DataLemmas` holds what they share. The
invariants called inductive here are checked by TLC as well before they are proved.

**Pagination** (`PaginationProofs`). Assumed are `TextsAssumption` (lines have
characters: `Split` drops empty entries), `SizesAssumption` (heights are natural numbers, the line
height even and not zero) and `FootnoteHeightAssumption`. Any list of lines of any lengths, any
number of notes and of systems, any page size, even one lower than a line.

* `Safety`: `Spec => []SafetyInv`, hence `TypeCorrect`, `PagesFit`, `LinesStayInOrder`,
  `PagesNumbered`, `NotesPrintedOnce`, `FirstFit` and `ResultIsComplete`. The properties are not
  inductive alone: that the next page begins with the line after the last one (`LinesInOrder`) needs
  to know what the open page ends with (`OpenPageInv`); that no returned page is empty needs that an
  empty page was turned only when the next line fits no page at all (`EmptyPagesInv`); that a note is
  not attached again needs that the indices move once, from nothing to everything (`NoteIndexInv`).
  `SafetyInv` is their conjunction; there is a lemma per action.
* `UsedHeightIsHeight`: the height a page has accumulated is the difference of two running sums of
  line heights (`HeightInv`). From it `FirstFitIsOptimal`: no cut of the lines into pages that fit
  has fewer pages. `GreedyIsAhead` of `DataLemmas` is the argument: after `m` runs another cut is
  never further than the greedy one, by induction over `m`.
* `SummaryIsRight`: the sums of notes in `GetPaginationSummary` are those of the text.
  `TotalIsOfLines`: what it calls `totalChars` is the number of lines.
* `PaginateImplementsFlow`: `PlaceLine` is a step `Join` or `Open` of `Flow`, `Return` is `End`, and
  `TurnPage` moves no line. The room of `Flow` is the height the page has left because of
  `HeightInv`; a line is in one box only because the pages cut the lines into runs (`SafetyInv`).
* `PaginateEnds`: if every line fits a page that has no other, each round leaves fewer to come
  (`RoundsLeft`, a natural number, at most two for a line and one more). That a page without a line
  is never turned then needs `OpenPageInv`. The condition is needed:
  `PaginateReturnsOnlyIfLinesFit` says that what is returned has only such lines, so a text with a
  line higher than a page would have pages turned forever. The application's page has room for
  every line.

**Extraction** (`TextExtractionProofs`): `TypeCorrect`, `ExtractionKeepsLetters`,
`ExtractionTakesTagsInPairs`, `ExtractionKeepsOrder`, `ExtractionCleansText`, of any raw text and any
number of systems (`ClassesAssumption`: the classes of characters are different;
`RawTextsAssumption`: a text is a sequence of them). `ExtractInv` says where each character is
in the middle of a pass: what is copied stands, in the raw text, before what is not yet read
(`OrderInv`), a position is in the text or in the notes of one system (`ApartInv`), four tag
characters are gone for every note (`TagsInv`). `CleanText` needs most (`CopiedInv`): two characters
of a tag copied one after the other stood so in the text of this pass, or else a new tag could
arise within a pass; that one arises for an earlier pass is the finding of `extraction_joins`.
`ExtractionEnds`: each step leaves fewer rounds to come, with no condition on the text; a later
pass has at most as many as the raw text has characters, since what is copied is in its order.

**From the raw text to the pages** (`TextToPagesProofs`). `RawAssumption` and `PageAssumption` are
what the two parts assume of their constants; that the engine is given a text as it assumes is
proved, not assumed (`SplitExtracted`).

* `PaginateIsSafe`: `Spec => []PaginateInv`, the invariants `ExtractInv` and `SafetyInv` of the two
  parts where the composition has them. `TextToPages` and the theorems hold different instances of the
  same modules; the lemmas `Same...` say that they agree, and the steps then follow from the
  theorems about the parts. `PaginateRunsExtraction`: the composition's steps on `TextHelper`'s
  variables are its own.
* `LettersArePrinted`: `Spec => []LettersPrinted`. The main text has no line break left, so it is
  one line or none (`MainTextIsLine`) and the engine returns one page with this line and all notes,
  or no page (`OnePage`). A letter is therefore printed where the extraction has it
  (`PrintedWhereExtracted`), which is one place (`ExtractedOnce`); the order is that of the
  extraction (`ExtractedInOrder`). What white space becomes matters here: `NormalizeFacts` gives a
  function from the characters of the main text to those left of the raw text that keeps order
  and misses blanks only (`StandsFor`).
* `PaginateEnds`: the rounds left of both loops become fewer at each step, if a page has room for a
  long line (`LongLineFitsAPage`).

**Wrapping to a number of characters** (first part of `PreviewProofs`). Assumed is that a word has a character
(`WrapTextsAssumption`: `Split` leaves out empty entries); any bound, even zero.

* `WrapSafe`: `WrapSpec => []WrapInv`, hence `WrapIsGreedy` and its parts `LinesStayWithinBound`,
  `WordsStayInOrder` and `LinesAreFilled`. The strengthening, `CurrentLineInv`, says of the line being
  filled what the properties say of the full ones, that it has no words only if its length is zero,
  and that the last full line could not have taken its first word.
* `LengthsAreMeasured`: the length of a line is that of its words and the blanks between them. From
  it `WrapIsOptimal`: no cut of the words has fewer lines, by the lemmas of `FirstFitIsOptimal`.
* `WrapTextImplementsFlow`, with the invariant `PlacedInv`: a word is on a line only when it has been
  taken, so the line of a word is never in doubt.

**Selecting a page** (`PreviewProofs`): `Spec => []PreviewInv`, hence `PreviewTypeCorrect`,
`PreviewWrapsGreedily`, `NothingDrawnOver`, `CanvasIsThePage`, `PreviewHasFewestLines`, for
any text and notes (`ContentsAssumption`: the page has text; `NotesAssumption`, `NoteHeightsAssumption`:
heights and widths are natural numbers). `PreviewInv` extends `WrapInv`: the buffer holds the
characters in order so far (`GlyphsInv`), so ordering by x gives the text back (`LineTextIsContent`); what has
been drawn at each stage (`StageInv`, `LinesInv`, `NotesInv`), with the notes of a section counted on
the canvas; and everything drawn is above the height reached (`AboveInv`), which is what makes
`OneBelowAnother` inductive. `PageImplementsFlow`: the words of the text, from before they are
glyphs, flow onto the lines; the steps before and after the wrap leave `Flow` alone.

**Wrapping to a width** (`ParagraphWrapProofs`): `TypeCorrect`, `WordsStayInOrder`, `MarksAreRight`,
`LinesAreFilled`, `WrapLinesImplementsFlow`, of any paragraphs of words wider than nothing and any width
(`ParagraphListsAssumption`, `WidthsAssumption`). `CurrentWordsInv` and `CurrentRoomInv` say of the
line being filled which words it has and that the line before had no room for its first one;
for the mapping to `Flow`, `PlacedInv` says that the words on lines are those reached.

**The two-column page** (`TwoColumnPageProofs`): `DrawSafe`: `Spec => []DrawInv`, hence `TypeCorrect`,
`CanvasShowsPage`, `MarkersAlwaysTell`, `NothingOverdrawn`, of any columns of lines and any notes
(`PageModelsAssumption`: the parts of a page have their types and a note is wider than nothing), and
any width of a column of notes and height of its rows (`RowAssumption`). `DrawInv` adds to the
properties what has been drawn when: the main text is on the canvas from its stage on (`MainInv`), of the
notes those of the systems that are done (`NotesInv`), and everything is above the height reached
(`AboveInv`). What a step draws is a piece of the canvas. `MainPiece` and `NotesPiece` say what is
read on a piece and between which heights it is, `DrawnAfter` that two pieces are read one after
the other, and `TwoColumnsBelow` that two columns side by side are over nothing and end where
the longer one does. `ColumnsRead` puts the two halves of the notes together, with the markers of
the second going on where those of the first end; `MarkersDiffer` is the arithmetic of the markers.

**Editor** (`EditorProofs`).

* `EditorSafe`: `Spec => []EditorInv`, hence `EditorTypeCorrect`, `ListStaysTogether`
  (`SelectionStaysListed`, `ListIsOneLayout`), `RowsMatchTheirText`, `RowsCountTheirFirstPage`,
  `StatusStaysTruthful` (`SummaryIsSaved`, `WorkIsReported`): for any set of texts, any number of
  layouts, whether the pages of columns have lines or not, and whatever `LayoutText` and the insert
  do. The strengthening says, for each stage of the handler, what has been done so far of the current
  layout, and that its glyphs are held if its first page has lines.
* `CountStaysCorrect`: `Spec => CountMatchesGlyphs`, from `GlyphsCounted`, a part of `EditorInv`, and
  a lemma about each step. `CountIsAlwaysOfGlyphs`: with `LinelessEngines = {}` the count is the one
  of the glyphs at every step; the branch for pages without lines is the only one that breaks it.
* `PreviewNeverBehind`: `Spec => []PreviewUpToDate`: each step that changes the selected page, or the
  glyphs of a page with lines, redraws the canvas in the same step, or takes the selection away.
* `LayoutsAreJournaled`: `Spec => EveryLayoutSavedOnce`, the step simulation between `Editor` and
  `LayoutJournal` under `EditorInv`. Every action is a step of the journal (`BegunStep`,
  `SavedStep`, `GivenUpStep`) or leaves it alone (`QuietStep`); that the row saved is the
  document begun needs that the listed pages are those of the running layout (`HandlerInv`).
* `PreviewFollowsSelection`: `Spec => []PreviewShowsSelection` if `LayoutText`
  returns (`"throws" \notin NativeOutcomes`), of pages that have lines. Without the assumption it
  is false: a throw leaves the canvas with the glyphs of the page before, and so does a page
  without lines.

Some definitions are written for the prover. Where a model needs a sum or the words of several
lines in a row, it uses `RunningSum` or `FlattenSeq`, which the lemmas reach by induction over a set
of numbers (`Induction` in `DataLemmas`); `SelectSeq`, `SortSeq` and folds with an operator for an
argument are beyond it. So `Preview` orders the glyphs by their rank in x (`PlaceByX`), which is
what a stable sort does.

## 6. What is only model-checked

* Liveness (`Returns`, `EveryLayoutAccounted`, and the fairness of `Flow` in `PaginateFlows`,
  `WordsFlow` and `ParagraphsFlow`: the theorems state the safety part), which is out of the
  prover's reach. The theorems `PaginateEnds` and `ExtractionEnds` are as near as it comes: no step
  is made for nothing, and only so many are left. That a step is always possible before the method
  has returned, and that the loop takes it, is what TLC checks.
* That a layout of the editor ends has no such theorem: the handler has no loop, and where it waits
  for the user it may wait forever.

## 7. The plan, and what is not modelled

1. *Done*: all modules, the two abstract specifications and their refinements; the proofs of
   section 5.
2. *Done*: `LettersPrinted` of `TextToPages` from the theorems about its two parts, and that the
   loops of `Paginate` and of the extraction end.
3. *Later*: the two-column engine, once it compiles.

Not modelled, and why:

* `ColumnLayoutEngine` and `HeightCalculator`. `TryFitPage` is two versions of one method
  run together (lines 172 to 178), the loop and the distribution to columns use members that
  `PageModel` does not have (`MainRight`, `FootnotesA_Right`, `MainHeightUsed`), the class is
  constructed with a window it has no constructor for, and two classes are named
  `ParsedDocument`. There is no program to be faithful to. What the editor does with its result is in
  `Editor`, the wrapping it begins with in `ParagraphWrap`.
* `PageRenderer`: never instantiated, and written for the same missing members.
* `CreateParsedDocument`: feeds that engine only. `UpdateTextAnalysis`: fills panes nothing
  reads with what `TextExtraction` computes.
* `TextParser.Parse`, `FindFootnoteReferences`, the other methods of `TextHelper`, and reading,
  updating and deleting in `DatabaseContext`: called by nothing.
* Measured widths of words and justified spacing across the canvas: floating-point output of WPF's
  text formatter.
* `PdfExporter` (a stub), constants and converters (no state), build files, vendored code.
