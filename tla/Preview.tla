------------------------------ MODULE Preview -------------------------------
(***************************************************************************)
(* From a page's main text to the canvas: LoadGlyphsForPage has LayoutText *)
(* fill a buffer of glyphs, DrawGlyphs puts them back in order, wraps them *)
(* to lines and draws lines, separators and the three sections of notes    *)
(* down the canvas, and the page number below all.                         *)
(*                                                                         *)
(* A page's main text is one line without leading, trailing or double      *)
(* blanks (TextExtraction).  A page without lines is not drawn by this     *)
(* module: LoadGlyphsForPage returns early for it (LoadNoGlyphs of Editor). *)
(* A glyph's id, the code of its character, is the position of that        *)
(* character.  LayoutText puts all glyphs at one height, so they make up   *)
(* one group.  Heights on the canvas are in tenths of a pixel, widths in   *)
(* pixels; the height of a note and the widths of its words are measured   *)
(* by the window's text formatter and are inputs.                          *)
(*                                                                         *)
(* A definition introduced by "Slip" is not part of the model: it is the   *)
(* next definition with a plausible mistake in it, kept to show that the   *)
(* properties below notice the mistake.                                    *)
(***************************************************************************)
EXTENDS WordWrapFlow, FiniteSets, SequencesExt

CONSTANTS
    Letters,        \* the characters of words
    Blank,          \* the character between words
    Contents,       \* the main texts of pages
    Notes,          \* the notes of a page: for each section a sequence
    NoteHeights     \* heights a note may be measured to have

Sections == 1..3

\* The text of a page with lines is not empty.
ASSUME ContentsAssumption == Contents \subseteq Seq(Letters \cup {Blank}) \ {<<>>}

ASSUME NotesAssumption ==
    Notes \subseteq [Sections -> Seq([prefix : Nat, words : Seq(Nat)])]

ASSUME NoteHeightsAssumption == NoteHeights \subseteq Nat

VARIABLES
    content,        \* mainContent
    notes,          \* the page's notes, as RenderJustifiedNote cuts them:
                    \* the width of the bold prefix and of each other word
    glyphs,         \* the buffer, as far as LayoutText has filled it
    drawn,          \* what is on the canvas, in the order it was drawn
    currentY,       \* the height reached on the canvas
    section,        \* the section of notes being drawn
    numberTop,      \* where the page number stands
    stage           \* where LoadGlyphsForPage and DrawGlyphs are

previewVars == <<content, notes, glyphs, drawn, currentY, section, numberTop, stage>>
vars == <<previewVars, wrapVars>>

------------------------------------------------------------------------------
GlyphWidth == 20
StartY == 800
LineHeight == 408
TitleHeight == 306
NoteGap == 120
PageWidth == 500
LeftMargin == 30
RightMargin == 30

\* Slip: characters are counted from zero as well.
GlyphFromZero(i) == [id |-> i, x |-> i * GlyphWidth]

\* Slip: glyphs are laid out from the right, as the text is read.
GlyphFromRight(i) == [id |-> i + 1, x |-> (Len(content) - i) * GlyphWidth]

\* The glyph LayoutText makes of the character at index i, counted from zero.
Glyph(i) == [id |-> i + 1, x |-> i * GlyphWidth]

\* The place of glyph j when the group is ordered by x: those to its left come
\* before it, and so do those at the same x that were there before.
PlaceByX(j) ==
    Cardinality({i \in DOMAIN glyphs : \/ glyphs[i].x < glyphs[j].x
                                       \/ glyphs[i].x = glyphs[j].x /\ i <= j})

\* The characters of the group, ordered by x.
LineText ==
    [k \in DOMAIN glyphs |->
        LET j == CHOOSE j \in DOMAIN glyphs : PlaceByX(j) = k
        IN  content[glyphs[j].id]]

\* A word ends before a blank or where the text does, and has the characters since
\* the blank before it, or since the text began.
EndsWord(text, k) ==
    text[k] # Blank /\ (k = Len(text) \/ text[k + 1] = Blank)

WordEndingAt(text, k) ==
    {j \in 1..k : \A i \in j..k : text[i] # Blank}

\* The lengths of the words Split cuts a sequence of characters into.
WordLengths(text) ==
    FlattenSeq([k \in DOMAIN text |->
        IF EndsWord(text, k) THEN <<Cardinality(WordEndingAt(text, k))>> ELSE <<>>])

\* What RenderJustifiedNote has left for blanks: the width it is given, less
\* the words.  DrawGlyphs passes pageWidth - rightMargin as the right margin.
AvailableWidth == PageWidth - LeftMargin - (PageWidth - RightMargin)

ExtraSpace(note) == AvailableWidth - FoldSeq(+, 0, note.words) - note.prefix

------------------------------------------------------------------------------
Init ==
    /\ content \in Contents
    /\ notes \in Notes
    /\ glyphs = <<>>
    /\ drawn = <<>>
    /\ currentY = StartY
    /\ section = 1
    /\ numberTop = 0
    /\ stage = "layout"
    /\ words = <<>> /\ taken = 0 /\ currentLine = EmptyLine
    /\ lines = <<>> /\ wrapping = "words"

\* The loop of LayoutText.  The buffer has room for every character, because
\* LoadGlyphsForPage allocates as many glyphs as the text has characters.
FillGlyph ==
    /\ stage = "layout" /\ Len(glyphs) < Len(content)
    /\ glyphs' = Append(glyphs, Glyph(Len(glyphs)))
    /\ UNCHANGED <<content, notes, drawn, currentY, section, numberTop, stage, wrapVars>>

\* LayoutText returns, Glyphs is notified, DrawGlyphs begins to wrap.
BeginWrap ==
    /\ stage = "layout" /\ Len(glyphs) = Len(content)
    /\ words' = WordLengths(LineText)
    /\ stage' = "wrap"
    /\ UNCHANGED <<content, notes, glyphs, drawn, currentY, section, numberTop,
                   taken, currentLine, lines, wrapping>>

Wrap ==
    /\ stage = "wrap"
    /\ TakeWord \/ ReturnLines
    /\ stage' = IF wrapping' = "wrapped" THEN "lines" ELSE "wrap"
    /\ UNCHANGED <<content, notes, glyphs, drawn, currentY, section, numberTop>>

\* An element of the canvas at the current height, and the height after it.
Draw(what, item, height, gap) ==
    /\ drawn' = Append(drawn, [what |-> what, item |-> item,
                               top |-> currentY, bottom |-> currentY + height])
    /\ currentY' = currentY + height + gap

\* A separator, with space above and below it.
DrawSeparator(above, below) ==
    /\ drawn' = Append(drawn, [what |-> "separator", item |-> <<section, 0>>,
                               top |-> currentY + above, bottom |-> currentY + above])
    /\ currentY' = currentY + above + below

DrawLine ==
    /\ stage = "lines" /\ Len(drawn) < Len(lines)
    /\ Draw("line", <<0, Len(drawn) + 1>>, LineHeight, 0)
    /\ UNCHANGED <<content, notes, glyphs, section, numberTop, stage, wrapVars>>

\* Below the text, the long separator.
DrawLongSeparator ==
    /\ stage = "lines" /\ Len(drawn) = Len(lines)
    /\ DrawSeparator(LineHeight \div 2, 250)
    /\ stage' = "section"
    /\ UNCHANGED <<content, notes, glyphs, section, numberTop, wrapVars>>

\* RenderFootnoteSection begins with the section's title.
DrawTitle ==
    /\ stage = "section" /\ notes[section] # <<>>
    /\ Draw("title", <<section, 0>>, TitleHeight, 0)
    /\ stage' = "notes"
    /\ UNCHANGED <<content, notes, glyphs, section, numberTop, wrapVars>>

\* The number of notes of the section that are on the canvas.
NotesDrawn ==
    Cardinality({k \in DOMAIN drawn : drawn[k].what = "note" /\ drawn[k].item[1] = section})

DrawNote ==
    /\ stage = "notes" /\ NotesDrawn < Len(notes[section])
    /\ \E height \in NoteHeights :
           Draw("note", <<section, NotesDrawn + 1>>, height, NoteGap)
    /\ UNCHANGED <<content, notes, glyphs, section, numberTop, stage, wrapVars>>

SectionEnds ==
    \/ stage = "section" /\ notes[section] = <<>>
    \/ stage = "notes" /\ NotesDrawn = Len(notes[section])

\* Slip: the height RenderFootnoteSection returns is not kept.
NextSectionFromTitle ==
    /\ SectionEnds /\ section < 3
    /\ UNCHANGED drawn
    /\ currentY' = IF notes[section] = <<>> THEN currentY
                   ELSE LET k == CHOOSE k \in DOMAIN drawn :
                                    /\ drawn[k].what = "title"
                                    /\ drawn[k].item[1] = section
                        IN  drawn[k].top
    /\ section' = section + 1
    /\ stage' = "section"
    /\ UNCHANGED <<content, notes, glyphs, numberTop, wrapVars>>

\* A short separator stands between two sections that both have notes.
NextSection ==
    /\ SectionEnds /\ section < 3
    /\ IF notes[section] # <<>> /\ notes[section + 1] # <<>>
         THEN DrawSeparator(100, 200)
         ELSE UNCHANGED <<drawn, currentY>>
    /\ section' = section + 1
    /\ stage' = "section"
    /\ UNCHANGED <<content, notes, glyphs, numberTop, wrapVars>>

\* The canvas ends 50 pixels below the last note or at 700 pixels, and the page
\* number stands 40 pixels above its end.
PlaceNumber ==
    /\ SectionEnds /\ section = 3
    /\ numberTop' = (IF currentY + 500 > 7000 THEN currentY + 500 ELSE 7000) - 400
    /\ stage' = "drawn"
    /\ UNCHANGED <<content, notes, glyphs, drawn, currentY, section, wrapVars>>

Drawn == stage = "drawn" /\ UNCHANGED vars

Next ==
    \/ FillGlyph
    \/ BeginWrap
    \/ Wrap
    \/ DrawLine
    \/ DrawLongSeparator
    \/ DrawTitle
    \/ DrawNote
    \/ NextSection
    \/ PlaceNumber
    \/ Drawn

\* The whole runs on the user interface thread in one go.
Spec == Init /\ [][Next]_vars /\ WF_vars(Next)

------------------------------------------------------------------------------
\* What a glyph and what an element of the canvas is.
GlyphType == [id : DOMAIN content, x : Nat]

ElementType ==
    [what   : {"line", "separator", "title", "note"},
     item   : ({0} \X (1..Len(words))) \cup (Sections \X Nat),
     top    : Nat,
     bottom : Nat]

\* Every variable has its type.
TypeOK ==
    /\ WrapTypeOK
    /\ content \in Contents /\ notes \in Notes
    /\ glyphs \in Seq(GlyphType) /\ Len(glyphs) <= Len(content)
    /\ drawn \in Seq(ElementType)
    /\ currentY \in Nat /\ numberTop \in Nat
    /\ section \in Sections
    /\ stage \in {"layout", "wrap", "lines", "section", "notes", "drawn"}

\* What is on the canvas of one kind, in the order in which it was drawn.
Items(what) ==
    FlattenSeq([k \in DOMAIN drawn |->
        IF drawn[k].what = what THEN <<drawn[k].item>> ELSE <<>>])

\* What is drawn is the page: the words of the main text, which went through
\* glyphs, a sort and a wrap, are on the lines in order, every line is drawn once,
\* and so is every note, by section and in order.
PageIsDrawn ==
    stage = "drawn" =>
        /\ FlattenSeq([k \in DOMAIN lines |-> lines[k].words])
               = [n \in DOMAIN WordLengths(content) |-> n]
        /\ words = WordLengths(content)
        /\ Items("line") = [n \in DOMAIN lines |-> <<0, n>>]
        /\ Items("note") = FlattenSeq([s \in Sections |->
                               [n \in DOMAIN notes[s] |-> <<s, n>>]])

\* Nothing is drawn over what is above it: DrawGlyphs, RenderFootnoteSection and
\* RenderJustifiedNote hand the height they have reached to each other.  The page
\* number, created first and placed last, stands below everything.
OneBelowAnother ==
    /\ \A k \in 1..(Len(drawn) - 1) : drawn[k].bottom <= drawn[k + 1].top
    /\ stage = "drawn" => \A k \in DOMAIN drawn : drawn[k].bottom <= numberTop

PageFlow == INSTANCE Flow WITH
    Capacity <- MaxCharsPerLine,
    Gap      <- 1,
    Overflow <- TRUE,
    items    <- WordLengths(content),
    boxOf    <- LineOf,
    room     <- RoomOnLine,
    ended    <- stage \notin {"layout", "wrap"}

\* Selecting a page puts the words of its main text on lines: through the buffer,
\* the sort and the wrap, every word goes in its turn on the line of the word before
\* it, if it fits there after a blank, or on a new one, and all are placed in the end.
WordsFlow == PageFlow!Spec

\* The part of it that does not say that all are placed in the end.
WordsFlowSafely == PageFlow!Init /\ [][PageFlow!Next]_(PageFlow!flowVars)

\* RenderJustifiedNote's comments: the words of a note are justified.  The blanks
\* between them are not negative, so words are not drawn over each other.
NoteWordsApart ==
    \A k \in DOMAIN drawn :
        drawn[k].what = "note" =>
            LET note == notes[drawn[k].item[1]][drawn[k].item[2]]
            IN  Len(note.words) > 1 => ExtraSpace(note) >= 0

------------------------------------------------------------------------------
\* What has to be known of a state for the next step to keep the above.

\* The buffer has the glyphs of the first characters, in order.
GlyphsInv == \A k \in DOMAIN glyphs : glyphs[k] = Glyph(k - 1)

\* The words are those of the main text from when it is laid out, lines are taken
\* from them while they are wrapped, and nothing is drawn before.
StageInv ==
    /\ stage = "layout" => wrapping = "words" /\ taken = 0 /\ words = <<>>
    /\ taken = 0 => lines = <<>> /\ currentLine = EmptyLine
    /\ stage # "layout" => words = WordLengths(content)
    /\ wrapping = "wrapped" => taken = Len(words)
    /\ wrapping = "wrapped" <=> stage \notin {"layout", "wrap"}
    /\ stage \in {"layout", "wrap"} => drawn = <<>>
    /\ stage \in {"layout", "wrap", "lines"} => section = 1
    /\ stage = "drawn" => section = 3

\* The lines have the words taken, each line one at least.
SpeltInv ==
    /\ FlattenSeq([k \in DOMAIN LinesSoFar |-> LinesSoFar[k].words])
           = [n \in 1..taken |-> n]
    /\ taken > 0 => Len(LinesSoFar) <= taken

\* The number of lines on the canvas.
LinesDrawn == IF stage = "lines" THEN Len(drawn)
              ELSE IF wrapping = "wrapped" THEN Len(lines) ELSE 0

\* They are the first ones, and nothing else is drawn with them.
LinesInv ==
    /\ LinesDrawn <= Len(lines)
    /\ Items("line") = [n \in 1..LinesDrawn |-> <<0, n>>]

\* The number of notes of section s on the canvas.
Done(s) ==
    IF s < section \/ stage = "drawn" THEN Len(notes[s])
    ELSE IF s = section /\ stage = "notes" THEN NotesDrawn ELSE 0

\* The first notes of every section, as many as d says.
NotesUpTo(d) == FlattenSeq([s \in Sections |-> [n \in 1..d[s] |-> <<s, n>>]])

\* They are the first ones of the section, below those of the sections before.
NotesInv ==
    /\ NotesDrawn = IF stage \in {"notes", "drawn"} THEN Done(section) ELSE 0
    /\ NotesDrawn <= Len(notes[section])
    /\ \A k \in DOMAIN drawn : drawn[k].what = "note" => drawn[k].item[1] <= section
    /\ Items("note") = NotesUpTo([s \in Sections |-> Done(s)])

\* Everything on the canvas is above the height reached.
AboveInv == \A k \in DOMAIN drawn : drawn[k].bottom <= currentY

\* The inductive invariant.
PreviewInv ==
    /\ TypeOK
    /\ WrapInv
    /\ GlyphsInv
    /\ StageInv
    /\ SpeltInv
    /\ LinesInv
    /\ NotesInv
    /\ AboveInv
    /\ OneBelowAnother

=============================================================================
