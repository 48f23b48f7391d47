---------------------------- MODULE TextToPages ----------------------------
(***************************************************************************)
(* PaginationEngine.Paginate from its parameter to its result: TextHelper  *)
(* extracts the notes of a raw text and returns its main text, the lines   *)
(* of the main text and the notes are laid on pages.                       *)
(***************************************************************************)
EXTENDS Integers, Sequences, FiniteSets

CONSTANTS Letter, Space, LineBreak, TagChars, RawTexts
CONSTANTS PageHeight, HeaderHeight, MarginOuter, LineHeight, LongLine

\* TextHelper's variables, and the engine's.
VARIABLES rawText, system, passText, i, builder, results, mainText, extracting
VARIABLES text, lineIndex, noteIndex, currentPage, pages, paginating

extractVars ==
    <<rawText, system, passText, i, builder, results, mainText, extracting>>
engineVars == <<text, lineIndex, noteIndex, currentPage, pages, paginating>>
vars == <<extractVars, engineVars>>

TextHelper == INSTANCE TextExtraction WITH text <- passText, pc <- extracting

Systems == TextHelper!Systems

\* Any text the extraction may return.
Extracted == [lines : Seq(Nat \ {0}), notes : [Systems -> Nat]]

Engine == INSTANCE Pagination WITH Texts <- Extracted, pc <- paginating

\* What the two parts assume of their constants.
ASSUME RawAssumption ==
    /\ TagChars \in Seq(TextHelper!Classes) /\ TagChars # <<>>
    /\ \A s, t \in DOMAIN TagChars : TagChars[s] = TagChars[t] => s = t
    /\ Letter \notin TextHelper!Blanks /\ Space # LineBreak
    /\ \A s \in DOMAIN TagChars : TagChars[s] \notin {Letter} \cup TextHelper!Blanks
    /\ RawTexts \subseteq Seq(TextHelper!Classes)

ASSUME PageAssumption ==
    /\ PageHeight \in Nat /\ HeaderHeight \in Nat /\ MarginOuter \in Nat
    /\ LineHeight \in Nat \ {0} /\ LineHeight % 2 = 0
    /\ LongLine \in Nat

------------------------------------------------------------------------------
\* Split cuts a text into lines and leaves empty ones out.  A text is given by the
\* indices of its characters and those of its line breaks.

\* Where a line begins.
LineStarts(indices, breaks) ==
    {k \in indices \ breaks : k - 1 \notin indices \ breaks}

\* Where the n-th line begins.
StartOfLine(indices, breaks, n) ==
    CHOOSE k \in LineStarts(indices, breaks) :
        Cardinality({j \in LineStarts(indices, breaks) : j <= k}) = n

LineLengths(indices, breaks) ==
    LET length(k) == CHOOSE n \in 1..Cardinality(indices) :
                        /\ k..(k + n - 1) \subseteq indices \ breaks
                        /\ k + n \notin indices \ breaks
    IN  [n \in 1..Cardinality(LineStarts(indices, breaks)) |->
            length(StartOfLine(indices, breaks, n))]

MainBreaks == {k \in DOMAIN mainText : /\ mainText[k] # TextHelper!JoinedBlank
                                       /\ rawText[mainText[k]] = LineBreak}

LinesOfMain == LineLengths(DOMAIN mainText, MainBreaks)

LinesOfRaw ==
    LineLengths(DOMAIN rawText, {p \in DOMAIN rawText : rawText[p] = LineBreak})

AllBlank == \A p \in DOMAIN rawText : TextHelper!IsBlank(p)

Init ==
    /\ TextHelper!Init
    /\ text = [lines |-> <<>>, notes |-> [s \in Systems |-> 0]]
    /\ lineIndex = 0
    /\ noteIndex = [s \in Systems |-> 0]
    /\ currentPage = Engine!CreateNewPage(1)
    /\ pages = <<>>
    /\ paginating = "not begun"

\* Paginate returns at once what a blank text makes: no page.
ReturnNoPages ==
    /\ paginating = "not begun" /\ AllBlank
    /\ paginating' = "returned"
    /\ UNCHANGED <<extractVars, text, lineIndex, noteIndex, currentPage, pages>>

Extract ==
    /\ paginating = "not begun" /\ ~AllBlank /\ extracting = "loop"
    /\ TextHelper!Next
    /\ UNCHANGED engineVars

\* Slip: the last system's notes are not handed on.
SplitWithoutLastSystem ==
    /\ paginating = "not begun" /\ extracting = "returned"
    /\ text' = [lines |-> LinesOfMain,
                notes |-> [s \in Systems |->
                              IF s = Len(TagChars) THEN 0 ELSE Len(results[s])]]
    /\ paginating' = "loop"
    /\ UNCHANGED <<extractVars, lineIndex, noteIndex, currentPage, pages>>

\* The lines and the notes the loop of Paginate will place.
Split ==
    /\ paginating = "not begun" /\ extracting = "returned"
    /\ text' = [lines |-> LinesOfMain,
                notes |-> [s \in Systems |-> Len(results[s])]]
    /\ paginating' = "loop"
    /\ UNCHANGED <<extractVars, lineIndex, noteIndex, currentPage, pages>>

LayOut ==
    /\ paginating = "loop"
    /\ Engine!Next
    /\ UNCHANGED extractVars

Returned == paginating = "returned" /\ UNCHANGED vars

Next == ReturnNoPages \/ Extract \/ Split \/ LayOut \/ Returned

Spec == Init /\ [][Next]_vars /\ WF_vars(Next)

------------------------------------------------------------------------------
\* The character at a place in the n-th line of the main text, places from one.
CharacterOfLine(n, c) == mainText[StartOfLine(DOMAIN mainText, MainBreaks, n) + c - 1]

\* Where position p of the raw text is printed: as <<page, 0, line, character>> in the
\* main text of a page, as <<page, system, note, character>> in its notes.
PrintedInLines(p) ==
    UNION {UNION {LET n == pages[k].AllMainLines[m]
                  IN  {<<k, 0, m, c>> : c \in {d \in 1..text.lines[n] :
                                                  CharacterOfLine(n, d) = p}}
                  : m \in DOMAIN pages[k].AllMainLines} : k \in DOMAIN pages}

PrintedInNotes(p) ==
    UNION {UNION {UNION {LET note == results[s][pages[k].AllFootnotes[s][m]]
                         IN  {<<k, s, m, c>> : c \in {d \in DOMAIN note : note[d] = p}}
                         : m \in DOMAIN pages[k].AllFootnotes[s]}
                  : s \in Systems} : k \in DOMAIN pages}

Printed(p) == PrintedInLines(p) \cup PrintedInNotes(p)

\* The order in which the places of one system are read.
ReadBefore(a, b) ==
    \/ a[1] < b[1]
    \/ a[1] = b[1] /\ (a[3] < b[3] \/ (a[3] = b[3] /\ a[4] < b[4]))

\* From the raw text to the result no letter is lost, printed twice or moved: each has
\* one place, in a line or in a note of a page, and neither in the main text nor in the
\* notes of a system do two letters change places.  All notes of a text that has no
\* main text are lost together, since no page is made for them: the exception is
\* exactly this one.
LettersPrinted ==
    paginating = "returned" =>
        LET letters == {p \in DOMAIN rawText : rawText[p] = Letter}
        IN  /\ \A p \in letters :
                  Cardinality(Printed(p)) = IF mainText = <<>> THEN 0 ELSE 1
            /\ \A p, q \in letters : p < q =>
                  \A a \in Printed(p), b \in Printed(q) : a[2] = b[2] => ReadBefore(a, b)

\* Paginate's comments: the main text is split at line breaks, into lines that
\* are laid on pages.  The lines of a text without tags reach the engine.
LinesReachEngine ==
    paginating = "returned" /\ (\A p \in DOMAIN rawText : rawText[p] \in {Letter, LineBreak}) =>
        text.lines = LinesOfRaw

\* Paginate returns, for every text.
Returns == <>(paginating = "returned")

------------------------------------------------------------------------------
\* What has to be known of a state for the next step to keep the above.

\* The extraction is under way or has made the main text; of a blank text there is none.
ExtractionInv ==
    /\ TextHelper!ExtractInv
    /\ IF extracting = "returned"
         THEN i > Len(passText) /\ mainText = TextHelper!Normalize(builder)
         ELSE mainText = <<>>
    /\ AllBlank => extracting = "loop"

\* The engine has not been reached, or works on what the extraction returned.
PagesInv ==
    \/ /\ paginating = "not begun"
       /\ lineIndex = 0 /\ noteIndex = [s \in Systems |-> 0]
       /\ currentPage = Engine!CreateNewPage(1) /\ pages = <<>>
    \/ /\ paginating = "returned" /\ AllBlank
       /\ pages = <<>>
    \/ /\ paginating # "not begun" /\ extracting = "returned"
       /\ text = [lines |-> LinesOfMain, notes |-> [s \in Systems |-> Len(results[s])]]
       /\ Engine!SafetyInv

\* The inductive invariant.
PaginateInv == ExtractionInv /\ PagesInv

=============================================================================
