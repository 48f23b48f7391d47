---------------------------- MODULE ParagraphWrap ----------------------------
(***************************************************************************)
(* TextParser.WrapLinesToWidth: the words of every paragraph are put on    *)
(* lines of a bounded width, in order, and the line that ends a paragraph  *)
(* is marked, so that the renderer does not justify it.                    *)
(*                                                                         *)
(* A word is known by its paragraph and its place in it.  The width of a   *)
(* line is the sum of the widths of its words and of the blanks between    *)
(* them; kerning across a blank is abstracted away.  One step is one round *)
(* of the inner loop, or the end of a round of the outer one.              *)
(*                                                                         *)
(* A definition introduced by "Slip" is not part of the model: it is the   *)
(* next definition with a plausible mistake in it, kept to show that the   *)
(* properties below notice the mistake.                                    *)
(***************************************************************************)
EXTENDS Integers, SequencesExt, RunningSum

CONSTANTS
    ParagraphLists, \* the lists of paragraphs, each as the widths of its words
    MaxWidth,       \* maxWidth
    BlankWidth      \* the width of a blank in the font

\* Split leaves out empty entries.  A word of vowel points alone, which
\* MeasureTextWidth gives no width, is left out.
ASSUME ParagraphListsAssumption == ParagraphLists \subseteq Seq(Seq(Nat \ {0}))

ASSUME WidthsAssumption == MaxWidth \in Nat /\ BlankWidth \in Nat

VARIABLES
    paragraphs,     \* paragraphs, as the widths of their words
    paragraph,      \* the paragraph the outer loop is at
    taken,          \* words of it taken by the inner loop
    currentLine,    \* currentLine: its words
    isFirstWord,    \* isFirstWord
    result,         \* result: lines with their words and the mark
    returned        \* has it returned?

vars == <<paragraphs, paragraph, taken, currentLine, isFirstWord, result, returned>>

------------------------------------------------------------------------------
InParagraph == paragraph <= Len(paragraphs)

Word == <<paragraph, taken + 1>>

Width(word) == paragraphs[word[1]][word[2]]

\* The width, in a list of paragraphs, of words with a blank between each two.
WidthIn(list, words) ==
    LET widths == [i \in 1..Len(words) |-> list[words[i][1]][words[i][2]]]
    IN  RunningSum(widths)[Len(words)]
          + (IF words = <<>> THEN 0 ELSE BlankWidth * (Len(words) - 1))

MeasureTextWidth(words) == WidthIn(paragraphs, words)

\* Slip: the blank before the word is not measured.
WordFitsWithoutBlank ==
    MeasureTextWidth(currentLine) + Width(Word) <= MaxWidth

\* Slip: a line that is filled to the last point does not fit.
WordFitsStrictly ==
    IF isFirstWord THEN Width(Word) < MaxWidth
    ELSE MeasureTextWidth(Append(currentLine, Word)) < MaxWidth

\* testLine fits the width.
WordFits ==
    IF isFirstWord THEN Width(Word) <= MaxWidth
    ELSE MeasureTextWidth(Append(currentLine, Word)) <= MaxWidth

Line(words, isLast) == [words |-> words, isLast |-> isLast]

Init ==
    /\ paragraphs \in ParagraphLists
    /\ paragraph = 1
    /\ taken = 0
    /\ currentLine = <<>>
    /\ isFirstWord = TRUE
    /\ result = <<>>
    /\ returned = FALSE

Taking == InParagraph /\ taken < Len(paragraphs[paragraph])

JoinLine ==
    /\ Taking /\ WordFits
    /\ currentLine' = Append(currentLine, Word)
    /\ isFirstWord' = FALSE
    /\ taken' = taken + 1
    /\ UNCHANGED <<paragraphs, paragraph, result, returned>>

\* Slip: the current line is added although it is empty.
BreakLineAnyway ==
    /\ Taking /\ ~WordFits
    /\ result' = Append(result, Line(currentLine, FALSE))
    /\ currentLine' = <<Word>>
    /\ isFirstWord' = FALSE
    /\ taken' = taken + 1
    /\ UNCHANGED <<paragraphs, paragraph, returned>>

\* Slip: the line before the paragraph's last word is taken for its last line.
BreakLineMarkingEarly ==
    /\ Taking /\ ~WordFits
    /\ result' =
           IF currentLine # <<>>
             THEN Append(result, Line(currentLine,
                                      taken + 1 = Len(paragraphs[paragraph])))
             ELSE result
    /\ currentLine' = <<Word>>
    /\ isFirstWord' = FALSE
    /\ taken' = taken + 1
    /\ UNCHANGED <<paragraphs, paragraph, returned>>

\* The word does not fit: the line is added, unless it is empty, and the word
\* begins the next one, however wide it is.
BreakLine ==
    /\ Taking /\ ~WordFits
    /\ result' = IF currentLine # <<>> THEN Append(result, Line(currentLine, FALSE))
                                       ELSE result
    /\ currentLine' = <<Word>>
    /\ isFirstWord' = FALSE
    /\ taken' = taken + 1
    /\ UNCHANGED <<paragraphs, paragraph, returned>>

\* Slip: the last line of a paragraph is added only if it is a whole line.
EndParagraphDroppingWord ==
    /\ InParagraph /\ taken = Len(paragraphs[paragraph])
    /\ result' = IF Len(currentLine) > 1 THEN Append(result, Line(currentLine, TRUE))
                                         ELSE result
    /\ currentLine' = <<>> /\ isFirstWord' = TRUE
    /\ paragraph' = paragraph + 1 /\ taken' = 0
    /\ UNCHANGED <<paragraphs, returned>>

\* The last line is added with the mark, unless the paragraph has no words; the
\* next paragraph begins a line of its own.
EndParagraph ==
    /\ InParagraph /\ taken = Len(paragraphs[paragraph])
    /\ result' = IF currentLine # <<>> THEN Append(result, Line(currentLine, TRUE))
                                       ELSE result
    /\ currentLine' = <<>> /\ isFirstWord' = TRUE
    /\ paragraph' = paragraph + 1 /\ taken' = 0
    /\ UNCHANGED <<paragraphs, returned>>

Return ==
    /\ ~InParagraph /\ ~returned
    /\ returned' = TRUE
    /\ UNCHANGED <<paragraphs, paragraph, taken, currentLine, isFirstWord, result>>

Next == JoinLine \/ BreakLine \/ EndParagraph \/ Return

Spec == Init /\ [][Next]_vars /\ WF_vars(Next)

------------------------------------------------------------------------------
\* The words of paragraph p, and of all paragraphs.
WordsOf(p) == [n \in 1..Len(paragraphs[p]) |-> <<p, n>>]

KnownWords ==
    {word \in Nat \X Nat : /\ word[1] \in DOMAIN paragraphs
                           /\ word[2] \in DOMAIN paragraphs[word[1]]}

\* Every variable has its type; no line of the result is empty, and isFirstWord
\* tells whether the current line is.
TypeOK ==
    /\ paragraphs \in Seq(Seq(Nat \ {0}))
    /\ paragraph \in 1..(Len(paragraphs) + 1)
    /\ taken \in Nat
    /\ InParagraph => taken <= Len(paragraphs[paragraph])
    /\ currentLine \in Seq(KnownWords)
    /\ isFirstWord \in BOOLEAN
    /\ isFirstWord <=> currentLine = <<>>
    /\ result \in Seq([words : Seq(KnownWords) \ {<<>>}, isLast : BOOLEAN])
    /\ returned \in BOOLEAN
    /\ returned => ~InParagraph

------------------------------------------------------------------------------
\* Safety.

\* The words taken: those of the paragraphs before this one, and some of it.
TakenWords ==
    FlattenSeq([p \in 1..(paragraph - 1) |-> WordsOf(p)])
        \o [n \in 1..taken |-> <<paragraph, n>>]

\* The lines, with the one being filled, spell the words of all paragraphs taken
\* so far: none is lost, doubled or moved at the end of a line or a paragraph.
WordsInOrder ==
    FlattenSeq([k \in DOMAIN result |-> result[k].words]) \o currentLine = TakenWords

\* The words of a line are of one paragraph, and the mark is on the line that
\* ends it and on no other, also when that line's word did not fit the one before.
MarksEndParagraphs ==
    \A k \in DOMAIN result :
        LET words == result[k].words
            p     == words[1][1]
        IN  /\ \A i \in DOMAIN words : words[i][1] = p
            /\ result[k].isLast <=> words[Len(words)] = <<p, Len(paragraphs[p])>>

\* A line of several words is no wider than the width, and a line is broken inside
\* a paragraph only when the next word does not fit.
LinesFilled ==
    /\ \A k \in DOMAIN result :
           Len(result[k].words) > 1 => MeasureTextWidth(result[k].words) <= MaxWidth
    /\ \A k \in 1..(Len(result) - 1) :
           ~result[k].isLast =>
               MeasureTextWidth(Append(result[k].words, result[k + 1].words[1]))
                   > MaxWidth

------------------------------------------------------------------------------
\* What has to be known of the current line for the next step to keep the above.

\* It has words of the paragraph the loop is at, up to the one last taken.
CurrentWordsInv ==
    /\ ~InParagraph => taken = 0
    /\ currentLine = <<>> <=> taken = 0
    /\ \A i \in DOMAIN currentLine : currentLine[i][1] = paragraph
    /\ currentLine # <<>> => currentLine[Len(currentLine)] = <<paragraph, taken>>

\* Its words have room, and the first one had none on the line before.
CurrentRoomInv ==
    /\ Len(currentLine) > 1 => MeasureTextWidth(currentLine) <= MaxWidth
    /\ result # <<>> /\ ~result[Len(result)].isLast =>
           /\ currentLine # <<>>
           /\ MeasureTextWidth(Append(result[Len(result)].words, currentLine[1]))
                > MaxWidth

\* The inductive invariant.
WrapInv ==
    /\ TypeOK
    /\ WordsInOrder
    /\ MarksEndParagraphs
    /\ LinesFilled
    /\ CurrentWordsInv
    /\ CurrentRoomInv

------------------------------------------------------------------------------
\* WrapLinesToWidth implements Flow: the items are the words of all paragraphs, a
\* box is a line, a blank stands between two words of a line.

\* The lines so far, the one being filled included.
LinesSoFar ==
    [k \in DOMAIN result |-> result[k].words]
        \o (IF currentLine = <<>> THEN <<>> ELSE <<currentLine>>)

\* The lines that have the n-th word taken.
LinesWith(n) ==
    {k \in DOMAIN LinesSoFar : Contains(LinesSoFar[k], TakenWords[n])}

LineOf == [n \in DOMAIN TakenWords |-> CHOOSE k \in LinesWith(n) : TRUE]

RoomOnLine ==
    IF LinesSoFar = <<>> THEN 0
    ELSE MaxWidth - MeasureTextWidth(Last(LinesSoFar))

Flow == INSTANCE Flow WITH
    Capacity <- MaxWidth,
    Gap      <- BlankWidth,
    Overflow <- TRUE,
    items    <- FlattenSeq(paragraphs),
    boxOf    <- LineOf,
    room     <- RoomOnLine,
    ended    <- returned

\* Every round puts the next word on the line being filled, if it fits with the
\* blank before it, or on the next line; empty paragraphs and the end of a
\* paragraph move no word; and WrapLinesToWidth returns.
ParagraphsFlow == Flow!Spec

\* The part of it that does not say that it returns.
ParagraphsFlowSafely == Flow!Init /\ [][Flow!Next]_(Flow!flowVars)

\* A word the loop has come by.
Reached(word) == word[1] < paragraph \/ (word[1] = paragraph /\ word[2] <= taken)

\* What has to be known of a round for the next one to flow: words on lines and words
\* taken have been reached, and the one last taken is on the last line.
PlacedInv ==
    /\ \A k \in DOMAIN LinesSoFar : \A j \in DOMAIN LinesSoFar[k] :
           Reached(LinesSoFar[k][j])
    /\ \A n \in DOMAIN TakenWords : Reached(TakenWords[n])
    /\ Flow!LastBox = Len(LinesSoFar)

=============================================================================
