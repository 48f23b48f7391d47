---------------------------- MODULE TwoColumnPage ----------------------------
(***************************************************************************)
(* MainWindow.DrawTwoColumnPage: a page in two columns, drawn down the     *)
(* canvas.  The number and the running header, the two columns of the main *)
(* text side by side, then every system of notes that has notes: a         *)
(* separator, a title, and the notes run on in two columns, each with a    *)
(* marker by which the text refers to it.                                  *)
(*                                                                         *)
(* Nothing in the application calls it at this commit; it is the renderer  *)
(* of the two-column PageModel.  Heights are in tenths of a pixel.  The    *)
(* height of a column of notes is measured by the text formatter: here it  *)
(* is the rows the notes fill, with their markers.  Places across the      *)
(* page, the words of a justified line among them, are left out, and so is *)
(* the text of the notes, of which the widths are kept.                    *)
(*                                                                         *)
(* A definition introduced by "Slip" is not part of the model: it is the   *)
(* next definition with a plausible mistake in it, kept to show that the   *)
(* properties below notice the mistake.                                    *)
(***************************************************************************)
EXTENDS Integers, FiniteSets, SequencesExt, RunningSum

CONSTANTS
    PageModels,     \* the pages to draw
    RowWidth,       \* the width of a column of notes
    RowHeight       \* the height of a row of notes

Systems == <<"A", "B", "C">>

SystemNames == {"A", "B", "C"}

Columns == {"right", "left"}

\* The parts of the header that are not empty, the words of every line of the two
\* columns, and the widths of the notes of each system.
PageModel ==
    [header : SUBSET {"right", "center", "left"},
     main   : [Columns -> Seq(Nat)],
     notes  : [SystemNames -> Seq(Nat \ {0})]]

ASSUME PageModelsAssumption == PageModels \subseteq PageModel

ASSUME RowAssumption == RowWidth \in Nat \ {0} /\ RowHeight \in Nat

VARIABLES
    page,           \* the PageModel
    drawn,          \* what is on the canvas, in the order it was drawn
    currentY,       \* currentY
    section,        \* the system of notes that is next
    canvasHeight,   \* GlyphCanvas.Height
    stage           \* where DrawTwoColumnPage is

vars == <<page, drawn, currentY, section, canvasHeight, stage>>

------------------------------------------------------------------------------
PageHeight == 9500
MainLineHeight == 280
SeparatorHeight == 150
TitleHeight == 234

Larger(a, b) == IF a > b THEN a ELSE b

\* An element of the canvas: what it is, where, and how far down it reaches.
Element(what, column, item, top, height) ==
    [what |-> what, column |-> column, item |-> item,
     top |-> top, bottom |-> top + height]

\* Slip: the index of the last letter is taken for their number.
GetHebrewLetterPastEnd(index) ==
    IF index <= 20 THEN <<"letter", index>> ELSE <<"number", index + 1>>

\* The first twenty letters of the numbering, then numbers.
GetHebrewLetter(index) ==
    IF index < 20 THEN <<"letter", index>> ELSE <<"number", index + 1>>

GetSymbolMarker(index) == <<"symbol", index % 7>>

Marker(system, index) ==
    CASE system = "A" -> GetHebrewLetter(index)
      [] system = "B" -> <<"number", index + 1>>
      [] system = "C" -> GetSymbolMarker(index)

\* Slip: every column counts its notes from the first.
RunOnRestarted(system, startIndex, count) ==
    [i \in 1..count |-> [note   |-> startIndex + i,
                         marker |-> Marker(system, i - 1)]]

\* BuildRunOnTextWithMarkers: count notes, the first of them the one after
\* startIndex, each behind its marker.
RunOn(system, startIndex, count) ==
    [i \in 1..count |-> [note   |-> startIndex + i,
                         marker |-> Marker(system, startIndex + i - 1)]]

\* MeasureRunOnHeight: the rows that the notes and their markers, one wide, fill.
MeasureRunOnHeight(system, run) ==
    LET widths == [i \in DOMAIN run |-> 1 + page.notes[system][run[i].note]]
        rows   == (RunningSum(widths)[Len(run)] + RowWidth - 1) \div RowWidth
    IN  RowHeight * rows

------------------------------------------------------------------------------
\* What an earlier page left on the canvas.
Leftover == Element("line", "right", [line |-> 1], 0, 280)

Init ==
    /\ page \in PageModels
    /\ drawn = <<Leftover>>
    /\ currentY = 0
    /\ section = 1
    /\ canvasHeight = PageHeight
    /\ stage = "clear"

\* Children.Clear, the page number, and the parts of the running header that are
\* not empty, side by side.
DrawHead ==
    /\ stage = "clear"
    /\ drawn' = <<Element("number", "whole", [part |-> 0], 200, 250)>>
           \o [k \in 1..Cardinality(page.header) |->
                  Element("header", "whole", [part |-> k], 450, 200)]
    /\ currentY' = 650
    /\ stage' = "main"
    /\ UNCHANGED <<page, section, canvasHeight>>

\* The lines of a column that have words, by their number.
LinesWithWords(column) ==
    LET lines == page.main[column]
    IN  FlattenSeq([k \in DOMAIN lines |-> IF lines[k] = 0 THEN <<>> ELSE <<k>>])

\* RenderTextColumn: a line without words draws nothing but takes its height.
RenderTextColumn(column, startY) ==
    [n \in DOMAIN LinesWithWords(column) |->
        LET k == LinesWithWords(column)[n]
        IN  Element("line", column, [line |-> k],
                    startY + (k - 1) * MainLineHeight, MainLineHeight)]

\* The height a column of main text returns.
ColumnBottom(column, startY) == startY + Len(page.main[column]) * MainLineHeight

\* Slip: what follows is placed below the right column.
BelowMainText == ColumnBottom("right", currentY) + SeparatorHeight

\* What follows is placed below the longer of the two columns.
BelowMain ==
    Larger(ColumnBottom("right", currentY), ColumnBottom("left", currentY))
        + SeparatorHeight

DrawMain ==
    /\ stage = "main"
    /\ drawn' = drawn \o RenderTextColumn("right", currentY)
                      \o RenderTextColumn("left", currentY)
    /\ currentY' = BelowMain
    /\ stage' = "notes"
    /\ UNCHANGED <<page, section, canvasHeight>>

System == Systems[section]

NoteCount(system) == Len(page.notes[system])

\* Slip: half of an odd number of notes is rounded down in both places.
RunOnColumnsFloor(system) ==
    LET half == NoteCount(system) \div 2
    IN  [right |-> RunOn(system, 0, half),
         left  |-> RunOn(system, NoteCount(system) - half, half)]

\* The right column has half of the notes, rounded up, and the left one the rest.
RunOnColumns(system) ==
    LET half == (NoteCount(system) + 1) \div 2
    IN  [right |-> RunOn(system, 0, half),
         left  |-> RunOn(system, half, NoteCount(system) - half)]

RunOnHeight(column) == MeasureRunOnHeight(System, RunOnColumns(System)[column])

\* RenderRunOnColumn draws nothing of an empty text.
RenderRunOnColumn(column, y) ==
    LET run == RunOnColumns(System)[column]
    IN  IF run = <<>> THEN <<>>
        ELSE <<Element("run on", column, [system |-> System, entries |-> run],
                       y, RunOnHeight(column))>>

\* RenderFootnoteSectionTwoColumn: the separator, the title and the two columns.
DrawNotes ==
    /\ stage = "notes" /\ section <= 3 /\ NoteCount(System) > 0
    /\ LET titleY == currentY + 150
           notesY == titleY + TitleHeight
       IN  /\ drawn' = drawn
                  \o <<Element("separator", "whole", [system |-> System], currentY, 0),
                       Element("title", "whole", [system |-> System], titleY, TitleHeight)>>
                  \o RenderRunOnColumn("right", notesY)
                  \o RenderRunOnColumn("left", notesY)
           /\ currentY' = notesY + Larger(RunOnHeight("right"), RunOnHeight("left")) + 100
    /\ section' = section + 1
    /\ UNCHANGED <<page, canvasHeight, stage>>

SkipNotes ==
    /\ stage = "notes" /\ section <= 3 /\ NoteCount(System) = 0
    /\ section' = section + 1
    /\ UNCHANGED <<page, drawn, currentY, canvasHeight, stage>>

\* The canvas is as high as the page, or ends 50 pixels below what is on it.
SizeCanvas ==
    /\ stage = "notes" /\ section > 3
    /\ canvasHeight' = Larger(PageHeight, currentY + 500)
    /\ stage' = "drawn"
    /\ UNCHANGED <<page, drawn, currentY, section>>

Next == DrawHead \/ DrawMain \/ DrawNotes \/ SkipNotes \/ SizeCanvas

Spec == Init /\ [][Next]_vars

------------------------------------------------------------------------------
MarkerType ==
    {"letter"} \X (0..19) \cup {"number"} \X Nat \cup {"symbol"} \X (0..6)

EntryType == [note : Nat, marker : MarkerType]

ElementType ==
    [what : {"number", "header"}, column : {"whole"}, item : [part : Nat],
     top : Nat, bottom : Nat]
    \cup [what : {"line"}, column : Columns, item : [line : Nat],
          top : Nat, bottom : Nat]
    \cup [what : {"separator", "title"}, column : {"whole"},
          item : [system : SystemNames], top : Nat, bottom : Nat]
    \cup [what : {"run on"}, column : Columns,
          item : [system : SystemNames, entries : Seq(EntryType)],
          top : Nat, bottom : Nat]

\* Every variable has its type; a letter or symbol used is in its array.
TypeOK ==
    /\ page \in PageModels
    /\ drawn \in Seq(ElementType)
    /\ currentY \in Nat /\ canvasHeight \in Nat
    /\ section \in 1..4
    /\ stage \in {"clear", "main", "notes", "drawn"}

------------------------------------------------------------------------------
\* Safety.

\* The lines of a column of the main text on a canvas, in the order drawn.
LinesOn(canvas, column) ==
    FlattenSeq([k \in DOMAIN canvas |->
        IF canvas[k].what = "line" /\ canvas[k].column = column
        THEN <<canvas[k].item.line>> ELSE <<>>])

\* The notes of a system in a column of a canvas.
NotesOn(canvas, system, column) ==
    FlattenSeq([k \in DOMAIN canvas |->
        IF /\ canvas[k].what = "run on" /\ canvas[k].column = column
           /\ canvas[k].item.system = system
        THEN canvas[k].item.entries ELSE <<>>])

\* The notes of a system as they are read: down the right column, then the left.
EntriesRead(system) == NotesOn(drawn, system, "right") \o NotesOn(drawn, system, "left")

\* What is on the canvas is the page and nothing of an earlier one: every line with
\* words once and in order in its own column, and every note of every system once
\* and in order, down the right column and on down the left.
PageIsDrawn ==
    stage = "drawn" =>
        /\ \A column \in Columns :
              LET lines == page.main[column]
                  read  == LinesOn(drawn, column)
              IN  /\ {read[n] : n \in DOMAIN read} = {k \in DOMAIN lines : lines[k] > 0}
                  /\ \A m, n \in DOMAIN read : m < n => read[m] < read[n]
        /\ \A system \in SystemNames :
              /\ Len(EntriesRead(system)) = NoteCount(system)
              /\ \A n \in 1..NoteCount(system) : EntriesRead(system)[n].note = n

\* A marker tells its note from every other note of the system, in the column beside
\* as well, when the letters have run out as well; the symbols only from the notes
\* less than seven away.
MarkersTellApart ==
    \A system \in SystemNames :
        LET entries == EntriesRead(system)
        IN  \A i, j \in DOMAIN entries :
               /\ i < j
               /\ system = "C" => j - i < 7
               => entries[i].marker # entries[j].marker

\* Two elements stand side by side if they are in different columns, or are parts
\* of the header.
Beside(a, b) ==
    \/ a.column # b.column /\ {a.column, b.column} = Columns
    \/ a.what = "header" /\ b.what = "header"

\* Every element is beside, or below, every element drawn before it.
Stacked(canvas) ==
    \A i, j \in DOMAIN canvas :
        i < j => Beside(canvas[i], canvas[j]) \/ canvas[i].bottom <= canvas[j].top

\* Nothing is drawn over what was drawn before: the longer column of the text and
\* of every system decides where the next system begins.  In the end the canvas,
\* which the window scrolls, reaches below everything on it.
OneBelowAnother ==
    /\ stage # "clear" => Stacked(drawn)
    /\ stage = "drawn" => \A k \in DOMAIN drawn : drawn[k].bottom <= canvasHeight

------------------------------------------------------------------------------
\* What has to be known of the stages for the next step to keep the above.

StageInv ==
    /\ stage = "clear" => drawn = <<Leftover>>
    /\ stage \in {"clear", "main"} => section = 1
    /\ stage = "drawn" => section = 4

\* The columns of the main text are drawn together.
MainInv ==
    stage # "clear" =>
        \A column \in Columns :
            LinesOn(drawn, column) = IF stage = "main" THEN <<>> ELSE LinesWithWords(column)

\* The notes of the systems that are done, and of no other, are in their columns.
NotesInv ==
    \A s \in 1..3 : \A column \in Columns :
        NotesOn(drawn, Systems[s], column)
            = IF s < section THEN RunOnColumns(Systems[s])[column] ELSE <<>>

\* Everything on the canvas is above the height reached.
AboveInv == stage # "clear" => \A k \in DOMAIN drawn : drawn[k].bottom <= currentY

\* The inductive invariant.
DrawInv ==
    /\ TypeOK
    /\ StageInv
    /\ MainInv
    /\ NotesInv
    /\ AboveInv
    /\ OneBelowAnother

=============================================================================
