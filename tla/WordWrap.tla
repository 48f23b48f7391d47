------------------------------ MODULE WordWrap ------------------------------
(***************************************************************************)
(* TextHelper.WrapText: the words of a text are put on lines of a bounded  *)
(* number of characters, in order, with a blank between two words.         *)
(*                                                                         *)
(* A word is known by its position in the split text and by its length.    *)
(* One step is one round of the foreach loop.  A word has no white space   *)
(* in it, so Trim leaves a line as it is.                                  *)
(*                                                                         *)
(* A definition introduced by "Slip" is not part of the model: it is the   *)
(* next definition with a plausible mistake in it, kept to show that the   *)
(* properties below notice the mistake.                                    *)
(***************************************************************************)
EXTENDS Integers, Sequences, RunningSum

CONSTANTS
    WrapTexts,          \* the texts to wrap, as the lengths of their words
    MaxCharsPerLine     \* maxCharsPerLine

\* Split leaves out empty entries, so a word has at least one character.
ASSUME WrapTextsAssumption == WrapTexts \subseteq Seq(Nat \ {0})

ASSUME MaxCharsPerLineAssumption == MaxCharsPerLine \in Nat

VARIABLES
    words,          \* the lengths of the words
    taken,          \* words taken so far
    currentLine,    \* currentLine: its words and its Length
    lines,          \* the lines already full
    wrapping        \* "words" in the loop, "wrapped" after it

wrapVars == <<words, taken, currentLine, lines, wrapping>>

------------------------------------------------------------------------------
EmptyLine == [words |-> <<>>, length |-> 0]

\* Slip: the blank before the word is forgotten.
ClosesWithoutBlank(length) ==
    /\ currentLine.length + length > MaxCharsPerLine
    /\ currentLine.length > 0

\* Slip: the line is closed one character early.
ClosesEarly(length) ==
    /\ currentLine.length + length + 1 >= MaxCharsPerLine
    /\ currentLine.length > 0

\* The current line is to be closed before a word of this length.
Closes(length) ==
    /\ currentLine.length + length + 1 > MaxCharsPerLine
    /\ currentLine.length > 0

\* Append(" ") unless the line is empty, then Append(word).
AppendWord(line, n) ==
    [words  |-> Append(line.words, n),
     length |-> IF line.length > 0 THEN line.length + 1 + words[n] ELSE words[n]]

WrapInit ==
    /\ words \in WrapTexts
    /\ taken = 0
    /\ currentLine = EmptyLine
    /\ lines = <<>>
    /\ wrapping = "words"

\* Slip: the word that closes a line is not put on the next one.
TakeWordAfterClosing ==
    /\ wrapping = "words" /\ taken < Len(words)
    /\ IF Closes(words[taken + 1])
         THEN lines' = Append(lines, currentLine) /\ currentLine' = EmptyLine
         ELSE currentLine' = AppendWord(currentLine, taken + 1) /\ UNCHANGED lines
    /\ taken' = taken + 1
    /\ UNCHANGED <<words, wrapping>>

TakeWord ==
    /\ wrapping = "words" /\ taken < Len(words)
    /\ IF Closes(words[taken + 1])
         THEN /\ lines' = Append(lines, currentLine)
              /\ currentLine' = AppendWord(EmptyLine, taken + 1)
         ELSE /\ currentLine' = AppendWord(currentLine, taken + 1)
              /\ UNCHANGED lines
    /\ taken' = taken + 1
    /\ UNCHANGED <<words, wrapping>>

\* The last line is added if there is anything on it.
ReturnLines ==
    /\ wrapping = "words" /\ taken = Len(words)
    /\ lines' = IF currentLine.length > 0 THEN Append(lines, currentLine) ELSE lines
    /\ wrapping' = "wrapped"
    /\ UNCHANGED <<words, taken, currentLine>>

WrapNext == TakeWord \/ ReturnLines

WrapSpec == WrapInit /\ [][WrapNext]_wrapVars

------------------------------------------------------------------------------
LineType == [words : Seq(Nat \ {0}), length : Nat]

\* Every variable has its type.
WrapTypeOK ==
    /\ words \in Seq(Nat \ {0})
    /\ taken \in 0..Len(words)
    /\ currentLine \in LineType
    /\ lines \in Seq(LineType)
    /\ wrapping \in {"words", "wrapped"}

FirstWord(line) == line.words[1]
LastWord(line) == line.words[Len(line.words)]

\* No line is longer than the bound the caller gave, unless it is one word that
\* is; and no line is empty.
LinesWithinBound ==
    \A k \in DOMAIN lines :
        /\ lines[k].words # <<>>
        /\ lines[k].length <= MaxCharsPerLine \/ Len(lines[k].words) = 1

\* The words on a line follow each other in the text.
Consecutive(line) ==
    \A j \in 1..(Len(line.words) - 1) : line.words[j + 1] = line.words[j] + 1

\* The lines cut the words into consecutive runs, from the first word to the
\* last: none is lost, doubled or moved when a line is closed.
WordsInOrder ==
    /\ \A k \in DOMAIN lines : Consecutive(lines[k])
    /\ \A k \in 1..(Len(lines) - 1) :
           FirstWord(lines[k + 1]) = LastWord(lines[k]) + 1
    /\ lines # <<>> => FirstWord(lines[1]) = 1
    /\ wrapping = "wrapped" =>
           IF words = <<>> THEN lines = <<>>
           ELSE lines # <<>> /\ LastWord(lines[Len(lines)]) = Len(words)

\* A line is closed only when the next word, after a blank, does not fit.
LinesFilled ==
    \A k \in 1..(Len(lines) - 1) :
        lines[k].length + 1 + words[FirstWord(lines[k + 1])] > MaxCharsPerLine

\* The lines at every round are the greedy wrap of the words taken: consecutive
\* runs of words, none too long, and none shorter than it has to be.
WrappedGreedily == LinesWithinBound /\ WordsInOrder /\ LinesFilled

\* The length of a line with the words i + 1 to j, and the blanks between them.
RunLength(i, j) == RunningSum(words)[j] - RunningSum(words)[i] + (j - i - 1)

\* Can the words be cut into m lines within the bound, or of one word?
WrapInto(m) ==
    \E cut \in [0..m -> 0..Len(words)] :
        /\ cut[0] = 0 /\ cut[m] = Len(words)
        /\ \A k \in 1..m :
              /\ cut[k - 1] < cut[k]
              /\ \/ RunLength(cut[k - 1], cut[k]) <= MaxCharsPerLine
                 \/ cut[k] = cut[k - 1] + 1

\* No other cut of the words into lines within the bound, or of one word, has
\* fewer lines than WrapText returns.
FewestLines ==
    wrapping = "wrapped" => \A m \in 0..(Len(lines) - 1) : ~WrapInto(m)

------------------------------------------------------------------------------
\* What has to be known of the current line for the next step to keep the above.
CurrentLineInv ==
    wrapping = "words" =>
        /\ Consecutive(currentLine)
        /\ currentLine.length = 0 <=> currentLine.words = <<>>
        /\ currentLine.words = <<>> => taken = 0 /\ lines = <<>>
        /\ currentLine.words # <<>> =>
              /\ currentLine.length <= MaxCharsPerLine \/ Len(currentLine.words) = 1
              /\ LastWord(currentLine) = taken
              /\ IF lines = <<>> THEN FirstWord(currentLine) = 1
                 ELSE LET last == lines[Len(lines)]
                      IN  /\ FirstWord(currentLine) = LastWord(last) + 1
                          /\ last.length + 1 + words[FirstWord(currentLine)]
                               > MaxCharsPerLine

\* A line is a run of the words taken, and its length is theirs.
Measured(line) ==
    /\ FirstWord(line) \in 1..LastWord(line) /\ LastWord(line) \in 1..taken
    /\ line.length = RunLength(FirstWord(line) - 1, LastWord(line))

LinesMeasured ==
    /\ \A k \in DOMAIN lines : Measured(lines[k])
    /\ wrapping = "words" /\ currentLine.words # <<>> => Measured(currentLine)

\* The inductive invariant.
WrapInv ==
    /\ WrapTypeOK
    /\ LinesWithinBound
    /\ WordsInOrder
    /\ LinesFilled
    /\ CurrentLineInv

=============================================================================
