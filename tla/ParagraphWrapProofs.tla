------------------------ MODULE ParagraphWrapProofs -------------------------
(***************************************************************************)
(* WrapLinesToWidth keeps all words, in order, marks the lines that end a  *)
(* paragraph and no other, keeps lines within the width and breaks them    *)
(* only where it must, for all paragraphs and all widths.                  *)
(***************************************************************************)
EXTENDS ParagraphWrap, DataLemmas

------------------------------------------------------------------------------
\* Words, widths and lines.

\* The lines with words of S.
LinesOf(S) == [words : Seq(S) \ {<<>>}, isLast : BOOLEAN]

\* The word that is taken next is a word of the text; it is the next one of its
\* paragraph.
LEMMA NextWord ==
    ASSUME TypeOK, Taking
    PROVE  /\ paragraph \in DOMAIN paragraphs /\ paragraph \in Nat
           /\ taken + 1 \in 1..Len(paragraphs[paragraph]) /\ taken \in Nat
           /\ Len(paragraphs[paragraph]) \in Nat
           /\ Word \in KnownWords
           /\ Word[1] = paragraph /\ Word = <<paragraph, taken + 1>>
<1>1. /\ paragraphs \in Seq(Seq(Nat \ {0})) /\ taken \in Nat
      /\ paragraph \in 1..(Len(paragraphs) + 1)
  BY DEF TypeOK, LinesOf
<1>2. paragraph \in DOMAIN paragraphs /\ paragraph \in Nat
  BY <1>1 DEF Taking, InParagraph
<1>3. paragraphs[paragraph] \in Seq(Nat \ {0})
  BY <1>1, <1>2
<1>4. Len(paragraphs[paragraph]) \in Nat
      /\ DOMAIN paragraphs[paragraph] = 1..Len(paragraphs[paragraph])
  BY <1>3
<1>5. taken + 1 \in 1..Len(paragraphs[paragraph])
  BY <1>1, <1>4 DEF Taking
<1>6. Word \in KnownWords
  BY <1>1, <1>2, <1>4, <1>5 DEF Word, KnownWords
<1>7. QED
  BY <1>1, <1>2, <1>4, <1>5, <1>6 DEF Word

\* The width of a line is a number.
LEMMA WidthType ==
    ASSUME TypeOK, NEW words \in Seq(KnownWords)
    PROVE  MeasureTextWidth(words) \in Int
<1> DEFINE widths == [i \in 1..Len(words) |-> paragraphs[words[i][1]][words[i][2]]]
<1>1. Len(words) \in Nat /\ \A i \in 1..Len(words) : words[i] \in KnownWords
  OBVIOUS
<1>2. \A i \in 1..Len(words) : paragraphs[words[i][1]][words[i][2]] \in Nat
  <2>1. \A word \in KnownWords : paragraphs[word[1]][word[2]] \in Nat
    BY DEF TypeOK, KnownWords
  <2>2. QED
    BY <1>1, <2>1
<1>3. widths \in Seq(Nat) /\ Len(widths) = Len(words)
  BY <1>1, <1>2
<1>4. RunningSum(widths) \in [0..Len(widths) -> Nat]
  BY <1>3, RunningSumFacts
<1>5. RunningSum(widths)[Len(words)] \in Nat
  <2>1. Len(words) \in 0..Len(words) /\ RunningSum(widths) \in [0..Len(words) -> Nat]
    BY <1>1, <1>3, <1>4
  <2> HIDE DEF widths
  <2>2. QED
    BY <2>1
<1> HIDE DEF widths
<1>6. BlankWidth * (Len(words) - 1) \in Int
  BY <1>1, WidthsAssumption
<1>7. MeasureTextWidth(words) = RunningSum(widths)[Len(words)]
        + (IF words = <<>> THEN 0 ELSE BlankWidth * (Len(words) - 1))
  BY DEF MeasureTextWidth, WidthIn, widths
<1>8. QED
  BY <1>5, <1>6, <1>7

\* The words of a line that is added come last.
LEMMA LineAdded ==
    ASSUME NEW S, NEW q \in Seq(LinesOf(S)), NEW line \in LinesOf(S),
           NEW longer, longer = Append(q, line)
    PROVE  Spelt(q) \in Seq(S) /\ SpelledOn(q, line, longer)
<1>1. \A one \in LinesOf(S) : one.words \in Seq(S)
  BY DEF LinesOf
<1>2. QED
  BY <1>1, SpeltLonger

------------------------------------------------------------------------------
\* The inductive invariant.

\* The words of the paragraphs before this one, and those taken of it.
LEMMA TakenParts ==
    ASSUME TypeOK
    PROVE  LET before == [p \in 1..(paragraph - 1) |-> WordsOf(p)]
               now    == [n \in 1..taken |-> <<paragraph, n>>]
           IN  /\ before \in Seq(Seq(KnownWords)) /\ Len(before) = paragraph - 1
               /\ FlattenSeq(before) \in Seq(KnownWords)
               /\ InParagraph => now \in Seq(KnownWords) /\ Len(now) = taken
<1>1. /\ paragraphs \in Seq(Seq(Nat \ {0})) /\ taken \in Nat
      /\ paragraph \in 1..(Len(paragraphs) + 1) /\ Len(paragraphs) \in Nat
      /\ DOMAIN paragraphs = 1..Len(paragraphs)
  BY DEF TypeOK, LinesOf
<1>2. ASSUME NEW p \in DOMAIN paragraphs
      PROVE  /\ Len(paragraphs[p]) \in Nat /\ p \in Nat
             /\ \A n \in 1..Len(paragraphs[p]) : <<p, n>> \in KnownWords
  <2>1. paragraphs[p] \in Seq(Nat \ {0}) /\ p \in Nat
    BY <1>1
  <2>2. Len(paragraphs[p]) \in Nat /\ DOMAIN paragraphs[p] = 1..Len(paragraphs[p])
    BY <2>1
  <2>3. QED
    BY <2>1, <2>2 DEF KnownWords
<1>3. \A p \in 1..(paragraph - 1) : WordsOf(p) \in Seq(KnownWords)
  <2>1. ASSUME NEW p \in 1..(paragraph - 1)
        PROVE  WordsOf(p) \in Seq(KnownWords)
    <3>1. p \in DOMAIN paragraphs
      BY <1>1
    <3>2. QED
      BY <3>1, <1>2 DEF WordsOf
  <2>2. QED
    BY <2>1
<1> DEFINE before == [p \in 1..(paragraph - 1) |-> WordsOf(p)]
           now    == [n \in 1..taken |-> <<paragraph, n>>]
<1>4. before \in Seq(Seq(KnownWords)) /\ Len(before) = paragraph - 1
  <2>1. paragraph - 1 \in Nat
    BY <1>1
  <2>2. QED
    BY <1>3, <2>1
<1>5. InParagraph => now \in Seq(KnownWords) /\ Len(now) = taken
  <2> SUFFICES ASSUME InParagraph PROVE now \in Seq(KnownWords) /\ Len(now) = taken
    OBVIOUS
  <2>1. paragraph \in DOMAIN paragraphs /\ taken <= Len(paragraphs[paragraph])
    BY <1>1 DEF InParagraph, TypeOK
  <2>2. \A n \in 1..taken : <<paragraph, n>> \in KnownWords
    <3>1. \A n \in 1..taken : n \in 1..Len(paragraphs[paragraph])
      BY <1>1, <1>2, <2>1
    <3>2. QED
      BY <1>2, <2>1, <3>1
  <2>3. QED
    BY <1>1, <2>2
<1> HIDE DEF before, now
<1>6. FlattenSeq(before) \in Seq(KnownWords)
  <2>1. <<>> \in Seq(KnownWords)
    OBVIOUS
  <2>2. QED
    BY <1>4, <2>1, FlattenAppend
<1>7. QED
  BY <1>4, <1>5, <1>6 DEF before, now

\* The words taken, before and after one more is.
LEMMA OneMoreTaken ==
    ASSUME TypeOK, Taking,
           paragraphs' = paragraphs, paragraph' = paragraph, taken' = taken + 1
    PROVE  /\ TakenWords \in Seq(KnownWords)
           /\ TakenWords' = Append(TakenWords, Word)
<1> DEFINE before == [p \in 1..(paragraph - 1) |-> WordsOf(p)]
           now    == [n \in 1..taken |-> <<paragraph, n>>]
           flat   == FlattenSeq(before)
<1>1. InParagraph /\ taken \in Nat
  BY DEF Taking, TypeOK
<1>2. flat \in Seq(KnownWords) /\ now \in Seq(KnownWords) /\ Len(now) = taken
  BY <1>1, TakenParts
<1>3. Word \in KnownWords /\ Word = <<paragraph, taken + 1>>
  BY NextWord
<1>4. [n \in 1..(taken + 1) |-> <<paragraph, n>>] = Append(now, Word)
  BY <1>1, <1>3
<1>5. TakenWords = flat \o now
  BY DEF TakenWords
<1>6. TakenWords' = flat \o [n \in 1..(taken + 1) |-> <<paragraph, n>>]
  BY DEF TakenWords, WordsOf
<1> HIDE DEF flat, now
<1>7. /\ flat \o now \in Seq(KnownWords)
      /\ flat \o Append(now, Word) = Append(flat \o now, Word)
  BY <1>2, <1>3, ConcatAppend
<1>8. QED
  BY <1>4, <1>5, <1>6, <1>7

\* The end of a paragraph takes no word.
LEMMA NoMoreTaken ==
    ASSUME TypeOK, InParagraph, taken = Len(paragraphs[paragraph]),
           paragraphs' = paragraphs, paragraph' = paragraph + 1, taken' = 0
    PROVE  TakenWords' = TakenWords
<1> DEFINE before == [p \in 1..(paragraph - 1) |-> WordsOf(p)]
           now    == [n \in 1..taken |-> <<paragraph, n>>]
           after  == [p \in 1..paragraph |-> WordsOf(p)]
<1>1. paragraph \in Nat /\ taken \in Nat /\ paragraph - 1 \in Nat
  BY DEF TypeOK, LinesOf
<1>2. /\ before \in Seq(Seq(KnownWords)) /\ Len(before) = paragraph - 1
      /\ FlattenSeq(before) \in Seq(KnownWords)
      /\ now \in Seq(KnownWords) /\ Len(now) = taken
  BY TakenParts
<1>3. now = WordsOf(paragraph)
  BY DEF WordsOf
<1>4. after = Append(before, WordsOf(paragraph))
  BY <1>1
<1>5. TakenWords = FlattenSeq(before) \o now
  BY DEF TakenWords
<1>6. TakenWords' = FlattenSeq(after) \o <<>>
  <2>1. (paragraph + 1) - 1 = paragraph
    BY <1>1
  <2>2. TakenWords' = FlattenSeq([p \in 1..((paragraph + 1) - 1) |-> WordsOf(p)])
                        \o [n \in 1..0 |-> <<paragraph + 1, n>>]
    BY DEF TakenWords, WordsOf
  <2>3. [n \in 1..0 |-> <<paragraph + 1, n>>] = <<>>
    OBVIOUS
  <2>4. QED
    BY <2>1, <2>2, <2>3
<1> HIDE DEF before, now, after
<1>7. FlattenSeq(after) = FlattenSeq(before) \o now
  BY <1>2, <1>3, <1>4, FlattenAppend
<1>8. FlattenSeq(before) \o now \in Seq(KnownWords)
      /\ (FlattenSeq(before) \o now) \o <<>> = FlattenSeq(before) \o now
  <2>1. FlattenSeq(before) \o now \in Seq(KnownWords)
    BY <1>2
  <2>2. QED
    BY <2>1
<1>9. QED
  BY <1>5, <1>6, <1>7, <1>8

\* What the actions read has its type.
LEMMA StateTypes ==
    ASSUME TypeOK
    PROVE  /\ currentLine \in Seq(KnownWords) /\ Len(currentLine) \in Nat
           /\ DOMAIN currentLine = 1..Len(currentLine)
           /\ currentLine = <<>> <=> Len(currentLine) = 0
           /\ result \in Seq(LinesOf(KnownWords)) /\ Len(result) \in Nat
           /\ DOMAIN result = 1..Len(result)
           /\ result = <<>> <=> Len(result) = 0
           /\ \A k \in 1..Len(result) :
                 /\ result[k].words \in Seq(KnownWords) /\ result[k].words # <<>>
                 /\ result[k].isLast \in BOOLEAN
<1>1. currentLine \in Seq(KnownWords) /\ result \in Seq(LinesOf(KnownWords))
  BY DEF TypeOK, LinesOf
<1>2. \A k \in 1..Len(result) : result[k] \in LinesOf(KnownWords)
  BY <1>1
<1>3. \A line \in LinesOf(KnownWords) : /\ line.words \in Seq(KnownWords) /\ line.words # <<>>
                             /\ line.isLast \in BOOLEAN
  BY DEF LinesOf
<1>4. /\ Len(currentLine) \in Nat /\ DOMAIN currentLine = 1..Len(currentLine)
      /\ currentLine = <<>> <=> Len(currentLine) = 0
  BY <1>1
<1>5. /\ Len(result) \in Nat /\ DOMAIN result = 1..Len(result)
      /\ result = <<>> <=> Len(result) = 0
  BY <1>1
<1>6. QED
  BY <1>1, <1>2, <1>3, <1>4, <1>5

\* A width that is not within the bound is above it.
LEMMA TooWide ==
    ASSUME TypeOK, NEW words \in Seq(KnownWords), ~(MeasureTextWidth(words) <= MaxWidth)
    PROVE  MeasureTextWidth(words) > MaxWidth
BY WidthType, WidthsAssumption

\* At first nothing is taken.
LEMMA WrapInit == Init => WrapInv
<1> SUFFICES ASSUME Init PROVE WrapInv
  OBVIOUS
<1>1. /\ paragraphs \in Seq(Seq(Nat \ {0})) /\ paragraph = 1 /\ taken = 0
      /\ currentLine = <<>> /\ isFirstWord = TRUE /\ result = <<>> /\ returned = FALSE
  BY ParagraphListsAssumption DEF Init
<1>2. TypeOK
  <2>1. Len(paragraphs) \in Nat
    BY <1>1
  <2>2. InParagraph => taken <= Len(paragraphs[paragraph])
    <3>1. \A p \in 1..Len(paragraphs) : Len(paragraphs[p]) \in Nat
      BY <1>1
    <3>2. QED
      BY <1>1, <2>1, <3>1 DEF InParagraph
  <2>3. 1 \in 1..(Len(paragraphs) + 1)
    BY <2>1
  <2>4. <<>> \in Seq(KnownWords)
        /\ <<>> \in Seq(LinesOf(KnownWords))
    OBVIOUS
  <2>5. QED
    BY <1>1, <2>2, <2>3, <2>4 DEF TypeOK, LinesOf
<1>3. WordsInOrder
  <2>1. Spelt(result) = <<>>
    <3>1. [k \in DOMAIN result |-> result[k].words] = <<>>
      BY <1>1
    <3>2. FlattenSeq(<<>>) = <<>>
      BY DEF FlattenSeq
    <3>3. QED
      BY <3>1, <3>2 DEF Spelt
  <2>2. FlattenSeq([p \in 1..(paragraph - 1) |-> WordsOf(p)]) = <<>>
    <3>1. 1..(paragraph - 1) = {}
      BY <1>1
    <3>2. [p \in 1..(paragraph - 1) |-> WordsOf(p)] = <<>>
      BY <3>1
    <3>3. FlattenSeq(<<>>) = <<>>
      BY DEF FlattenSeq
    <3>4. QED
      BY <3>2, <3>3
  <2>3. [n \in 1..taken |-> <<paragraph, n>>] = <<>>
    BY <1>1
  <2>4. QED
    BY <1>1, <2>1, <2>2, <2>3 DEF WordsInOrder, TakenWords, Spelt
<1>4. MarksEndParagraphs /\ LinesFilled
  BY <1>1 DEF MarksEndParagraphs, LinesFilled
<1>5. CurrentWordsInv /\ CurrentRoomInv
  BY <1>1 DEF CurrentWordsInv, CurrentRoomInv
<1>6. QED
  BY <1>2, <1>3, <1>4, <1>5 DEF WrapInv

\* A word that fits goes on the current line.
LEMMA WrapJoins == WrapInv /\ JoinLine => WrapInv'
<1> SUFFICES ASSUME WrapInv, JoinLine PROVE WrapInv'
  OBVIOUS
<1>1. /\ TypeOK /\ WordsInOrder /\ MarksEndParagraphs /\ LinesFilled
      /\ CurrentWordsInv /\ CurrentRoomInv
  BY DEF WrapInv
<1>2. /\ Taking /\ WordFits
      /\ currentLine' = Append(currentLine, Word)
      /\ isFirstWord' = FALSE /\ taken' = taken + 1
      /\ paragraphs' = paragraphs /\ paragraph' = paragraph
      /\ result' = result /\ returned' = returned
  BY DEF JoinLine
<1>3. /\ paragraph \in DOMAIN paragraphs /\ paragraph \in Nat
      /\ taken + 1 \in 1..Len(paragraphs[paragraph]) /\ taken \in Nat
      /\ Word \in KnownWords /\ Word[1] = paragraph /\ Word = <<paragraph, taken + 1>>
  BY <1>1, <1>2, NextWord
<1>4. /\ currentLine \in Seq(KnownWords) /\ Len(currentLine) \in Nat
      /\ currentLine = <<>> <=> Len(currentLine) = 0
  BY <1>1, StateTypes
<1>5. /\ currentLine' \in Seq(KnownWords) /\ Len(currentLine') = Len(currentLine) + 1
      /\ DOMAIN currentLine' = 1..(Len(currentLine) + 1)
      /\ currentLine' # <<>>
      /\ currentLine'[Len(currentLine) + 1] = Word
      /\ \A i \in 1..Len(currentLine) : currentLine'[i] = currentLine[i]
  <2> DEFINE longer == Append(currentLine, Word)
  <2>1. /\ longer \in Seq(KnownWords) /\ Len(longer) = Len(currentLine) + 1
        /\ longer[Len(currentLine) + 1] = Word
        /\ \A i \in 1..Len(currentLine) : longer[i] = currentLine[i]
    BY <1>3, <1>4
  <2> HIDE DEF longer
  <2>2. DOMAIN longer = 1..(Len(currentLine) + 1) /\ longer # <<>>
    BY <1>4, <2>1
  <2>3. QED
    BY <1>2, <2>1, <2>2 DEF longer
<1>6. TypeOK'
  <2>1. KnownWords' = KnownWords
    BY <1>2 DEF KnownWords
  <2>2. InParagraph' = InParagraph
    BY <1>2 DEF InParagraph
  <2>3. taken + 1 \in Nat /\ taken + 1 <= Len(paragraphs[paragraph])
    BY <1>3
  <2>4. isFirstWord' \in BOOLEAN /\ (isFirstWord' <=> currentLine' = <<>>)
    BY <1>2, <1>5
  <2>5. QED
    BY <1>1, <1>2, <1>5, <2>1, <2>2, <2>3, <2>4 DEF TypeOK, LinesOf
<1>7. WordsInOrder'
  <2> DEFINE spelt == Spelt(result)
  <2>1. spelt \in Seq(KnownWords)
    <3>1. result \in Seq(LinesOf(KnownWords))
      BY <1>1 DEF TypeOK, LinesOf
    <3>2. QED
      BY <3>1, SpeltType DEF LinesOf
  <2>2. TakenWords' = Append(TakenWords, Word)
    BY <1>1, <1>2, OneMoreTaken
  <2>3. spelt \o currentLine = TakenWords
    BY <1>1 DEF WordsInOrder, Spelt
  <2>4. spelt' = spelt
    BY <1>2
  <2> HIDE DEF spelt
  <2>5. spelt \o Append(currentLine, Word) = Append(spelt \o currentLine, Word)
    <3>1. PICK a, b, w : a = spelt /\ b = currentLine /\ w = Word
      OBVIOUS
    <3>2. a \in Seq(KnownWords) /\ b \in Seq(KnownWords) /\ w \in KnownWords
      BY <1>3, <1>4, <2>1, <3>1
    <3>3. a \o Append(b, w) = Append(a \o b, w)
      BY <3>2, ConcatAppend
    <3>4. QED
      BY <3>1, <3>3
  <2>6. spelt' \o currentLine' = TakenWords'
    BY <1>2, <2>2, <2>3, <2>4, <2>5
  <2>7. QED
    BY <2>6 DEF WordsInOrder, Spelt, spelt
<1>8. MarksEndParagraphs' /\ LinesFilled'
  BY <1>1, <1>2 DEF MarksEndParagraphs, LinesFilled, MeasureTextWidth
<1>9. CurrentWordsInv'
  <2>1. InParagraph'
    BY <1>2 DEF InParagraph, Taking
  <2>2. ~(taken + 1 = 0)
    BY <1>3
  <2>3. \A i \in 1..(Len(currentLine) + 1) : currentLine'[i][1] = paragraph
    <3>1. \A i \in 1..(Len(currentLine) + 1) :
              i \in DOMAIN currentLine \/ i = Len(currentLine) + 1
      BY <1>4
    <3>2. DOMAIN currentLine = 1..Len(currentLine)
      BY <1>4
    <3>3. QED
      BY <1>1, <1>3, <1>5, <3>1, <3>2 DEF CurrentWordsInv
  <2>4. QED
    BY <1>2, <1>3, <1>5, <2>1, <2>2, <2>3 DEF CurrentWordsInv
<1>10. CurrentRoomInv'
  <2>1. Len(currentLine') > 1 => MeasureTextWidth(currentLine)' <= MaxWidth
    <3>1. Len(currentLine') > 1 => ~isFirstWord
      BY <1>1, <1>4, <1>5 DEF TypeOK, LinesOf
    <3>2. ~isFirstWord => MeasureTextWidth(Append(currentLine, Word)) <= MaxWidth
      BY <1>2 DEF WordFits
    <3>3. QED
      BY <1>2, <3>1, <3>2 DEF MeasureTextWidth
  <2>2. result # <<>> /\ ~result[Len(result)].isLast =>
            MeasureTextWidth(Append(result[Len(result)].words, currentLine'[1])) > MaxWidth
    <3> SUFFICES ASSUME result # <<>>, ~result[Len(result)].isLast
                 PROVE  MeasureTextWidth(Append(result[Len(result)].words, currentLine'[1]))
                          > MaxWidth
      OBVIOUS
    <3>1. /\ currentLine # <<>>
          /\ MeasureTextWidth(Append(result[Len(result)].words, currentLine[1])) > MaxWidth
      BY <1>1 DEF CurrentRoomInv
    <3>2. currentLine'[1] = currentLine[1]
      BY <1>4, <1>5, <3>1
    <3>3. QED
      BY <3>1, <3>2
  <2>3. QED
    BY <1>2, <1>5, <2>1, <2>2 DEF CurrentRoomInv, MeasureTextWidth
<1>11. QED
  BY <1>6, <1>7, <1>8, <1>9, <1>10 DEF WrapInv

\* The current line, added to the result with the mark it should have, is marked
\* and filled as the lines before it are.
LEMMA LineClosed ==
    ASSUME WrapInv, InParagraph, currentLine # <<>>, paragraphs' = paragraphs,
           NEW mark \in BOOLEAN, mark <=> taken = Len(paragraphs[paragraph]),
           result' = Append(result, Line(currentLine, mark))
    PROVE  /\ result' \in Seq(LinesOf(KnownWords)) /\ Len(result) \in Nat
           /\ Len(result') = Len(result) + 1
           /\ result'[Len(result) + 1] = Line(currentLine, mark)
           /\ Spelt(result) \in Seq(KnownWords)
           /\ Spelt(result')
                = Spelt(result) \o currentLine
           /\ MarksEndParagraphs'
           /\ LinesFilled'
<1>1. /\ TypeOK /\ MarksEndParagraphs /\ LinesFilled /\ CurrentWordsInv /\ CurrentRoomInv
  BY DEF WrapInv
<1>2. /\ currentLine \in Seq(KnownWords) /\ Len(currentLine) \in Nat \ {0}
      /\ DOMAIN currentLine = 1..Len(currentLine)
      /\ result \in Seq(LinesOf(KnownWords)) /\ Len(result) \in Nat /\ DOMAIN result = 1..Len(result)
      /\ result = <<>> <=> Len(result) = 0
  BY <1>1, StateTypes
<1> DEFINE line == Line(currentLine, mark)
           L == Len(result)
<1>3. line \in LinesOf(KnownWords) /\ line.words = currentLine /\ line.isLast = mark
  BY <1>2 DEF Line, LinesOf
<1>4. /\ result' \in Seq(LinesOf(KnownWords)) /\ Len(result') = L + 1
      /\ DOMAIN result' = 1..(L + 1) /\ result'[L + 1] = line
      /\ \A k \in 1..L : result'[k] = result[k]
      /\ Spelt(result) \in Seq(KnownWords)
      /\ Spelt(result')
           = Spelt(result) \o line.words
  <2>1. result \in Seq(LinesOf(KnownWords)) /\ line \in LinesOf(KnownWords)
    BY <1>2, <1>3
  <2> HIDE DEF line
  <2>2. result' = Append(result, line)
    BY DEF line
  <2>3. SpelledOn(result, line, result')
    BY <2>1, <2>2, LineAdded
  <2>4. Spelt(result) \in Seq(KnownWords)
    BY <2>1, SpeltType DEF LinesOf
  <2>5. Spelt(result') = Spelt(result) \o line.words
    BY <2>3 DEF SpelledOn
  <2> DEFINE T == LinesOf(KnownWords)
  <2>6. result \in Seq(T) /\ line \in T /\ L \in Nat
    BY <2>1
  <2> HIDE DEF T
  <2>7. result' \in Seq(T) /\ Len(result') = L + 1
    BY <2>2, <2>6
  <2>8. DOMAIN result' = 1..(L + 1)
    <3>1. DOMAIN result' = 1..Len(result')
      BY <2>7
    <3>2. QED
      BY <2>7, <3>1
  <2>9. result'[L + 1] = line /\ \A k \in 1..L : result'[k] = result[k]
    BY <2>2, <2>6
  <2>10. QED
    BY <2>4, <2>5, <2>7, <2>8, <2>9 DEF T
<1>5. \A k \in 1..(L + 1) : k \in 1..L \/ k = L + 1
  BY <1>2
<1> HIDE DEF line
<1>6. MarksEndParagraphs'
  <2> SUFFICES ASSUME NEW k \in 1..(L + 1)
               PROVE  LET words == result'[k].words
                          p     == words[1][1]
                      IN  /\ \A i \in DOMAIN words : words[i][1] = p
                          /\ result'[k].isLast
                               <=> words[Len(words)] = <<p, Len(paragraphs[p])>>
    BY <1>4 DEF MarksEndParagraphs
  <2>1. CASE k \in 1..L
    <3>1. result'[k] = result[k] /\ k \in DOMAIN result
      BY <1>2, <1>4, <2>1
    <3>2. QED
      BY <1>1, <3>1 DEF MarksEndParagraphs
  <2>2. CASE k = L + 1
    <3>1. result'[k].words = currentLine /\ result'[k].isLast = mark
      BY <1>3, <1>4, <2>2
    <3>2. /\ \A i \in DOMAIN currentLine : currentLine[i][1] = paragraph
          /\ currentLine[Len(currentLine)] = <<paragraph, taken>>
      BY <1>1 DEF CurrentWordsInv
    <3>3. currentLine[1][1] = paragraph
      BY <1>2, <3>2
    <3>4. mark <=> currentLine[Len(currentLine)] = <<paragraph, Len(paragraphs[paragraph])>>
      BY <3>2
    <3>5. QED
      BY <3>1, <3>2, <3>3, <3>4
  <2>3. QED
    BY <1>5, <2>1, <2>2
<1>7. ASSUME NEW k \in 1..(L + 1), Len(result'[k].words) > 1
      PROVE  MeasureTextWidth(result'[k].words) <= MaxWidth
  <2>1. CASE k \in 1..L
    BY <1>1, <1>2, <1>4, <1>7, <2>1 DEF LinesFilled
  <2>2. CASE k = L + 1
    BY <1>1, <1>3, <1>4, <1>7, <2>2 DEF CurrentRoomInv
  <2>3. QED
    BY <1>5, <2>1, <2>2
<1>8. ASSUME NEW k \in 1..L, ~result'[k].isLast
      PROVE  MeasureTextWidth(Append(result'[k].words, result'[k + 1].words[1])) > MaxWidth
  <2>1. result'[k] = result[k]
    BY <1>4
  <2>2. CASE k = L
    <3>1. result # <<>> /\ result'[k + 1].words = currentLine
      BY <1>2, <1>3, <1>4, <2>2
    <3>2. QED
      BY <1>1, <1>8, <2>1, <2>2, <3>1 DEF CurrentRoomInv
  <2>3. CASE k # L
    <3>0. L \in Nat
      BY <1>2
    <3>1. k \in 1..(L - 1) /\ k + 1 \in 1..L
      BY <2>3, <3>0
    <3>2. result'[k + 1] = result[k + 1]
      BY <1>4, <3>1
    <3>3. QED
      BY <1>1, <1>8, <2>1, <3>1, <3>2 DEF LinesFilled
  <2>4. QED
    BY <2>2, <2>3
<1>9. LinesFilled'
  <2>1. (L + 1) - 1 = L
    BY <1>2
  <2>2. \A k \in DOMAIN result' :
            Len(result'[k].words) > 1 => MeasureTextWidth(result'[k].words) <= MaxWidth
    BY <1>4, <1>7
  <2>3. \A k \in 1..(Len(result') - 1) :
            ~result'[k].isLast =>
                MeasureTextWidth(Append(result'[k].words, result'[k + 1].words[1])) > MaxWidth
    BY <1>4, <1>8, <2>1
  <2>4. QED
    BY <2>2, <2>3 DEF LinesFilled, MeasureTextWidth
<1>10. QED
  BY <1>2, <1>3, <1>4, <1>6, <1>9 DEF line

\* A word that does not fit begins the next line.
LEMMA WrapBreaks == WrapInv /\ BreakLine => WrapInv'
<1> SUFFICES ASSUME WrapInv, BreakLine PROVE WrapInv'
  OBVIOUS
<1>1. /\ TypeOK /\ WordsInOrder /\ MarksEndParagraphs /\ LinesFilled
      /\ CurrentWordsInv /\ CurrentRoomInv
  BY DEF WrapInv
<1>2. /\ Taking /\ ~WordFits /\ InParagraph
      /\ result' = IF currentLine # <<>> THEN Append(result, Line(currentLine, FALSE))
                                         ELSE result
      /\ currentLine' = <<Word>>
      /\ isFirstWord' = FALSE /\ taken' = taken + 1
      /\ paragraphs' = paragraphs /\ paragraph' = paragraph /\ returned' = returned
  BY DEF BreakLine, Taking
<1>3. /\ paragraph \in DOMAIN paragraphs /\ paragraph \in Nat
      /\ taken + 1 \in 1..Len(paragraphs[paragraph]) /\ taken \in Nat
      /\ Len(paragraphs[paragraph]) \in Nat
      /\ Word \in KnownWords /\ Word[1] = paragraph /\ Word = <<paragraph, taken + 1>>
  BY <1>1, <1>2, NextWord
<1>4. /\ currentLine \in Seq(KnownWords)
      /\ result \in Seq(LinesOf(KnownWords)) /\ Len(result) \in Nat
  BY <1>1, StateTypes
<1>5. /\ currentLine' \in Seq(KnownWords) /\ Len(currentLine') = 1
      /\ DOMAIN currentLine' = {1} /\ currentLine'[1] = Word /\ currentLine' # <<>>
  BY <1>2, <1>3
<1> DEFINE spelt == Spelt(result)
<1>6. /\ spelt \in Seq(KnownWords)
      /\ result' \in Seq(LinesOf(KnownWords))
      /\ spelt' = spelt \o currentLine
      /\ MarksEndParagraphs' /\ LinesFilled'
      /\ result' # <<>> /\ ~result'[Len(result')].isLast =>
            MeasureTextWidth(Append(result'[Len(result')].words, Word)) > MaxWidth
  <2>1. CASE currentLine # <<>>
    <3>1. result' = Append(result, Line(currentLine, FALSE))
      BY <1>2, <2>1
    <3>2. FALSE <=> taken = Len(paragraphs[paragraph])
      BY <1>3
    <3>3. /\ result' \in Seq(LinesOf(KnownWords))
          /\ Len(result') = Len(result) + 1
          /\ result'[Len(result) + 1] = Line(currentLine, FALSE)
          /\ spelt \in Seq(KnownWords)
          /\ spelt' = spelt \o currentLine
          /\ MarksEndParagraphs' /\ LinesFilled'
      <4>1. FALSE \in BOOLEAN
        OBVIOUS
      <4>2. QED
        BY <1>2, <2>1, <3>1, <3>2, <4>1, LineClosed, Zenon
    <3>4. result'[Len(result')].words = currentLine
      BY <3>3 DEF Line
    <3>5. MeasureTextWidth(Append(currentLine, Word)) > MaxWidth
      <4>1. ~isFirstWord
        BY <1>1, <2>1 DEF TypeOK, LinesOf
      <4>2. ~(MeasureTextWidth(Append(currentLine, Word)) <= MaxWidth)
        BY <1>2, <4>1 DEF WordFits
      <4>3. Append(currentLine, Word) \in Seq(KnownWords)
        BY <1>3, <1>4
      <4>4. QED
        BY <1>1, <4>2, <4>3, TooWide
    <3> HIDE DEF spelt
    <3>6. QED
      BY <3>3, <3>4, <3>5
  <2>2. CASE currentLine = <<>>
    <3>1. result' = result
      BY <1>2, <2>2
    <3>2. spelt \in Seq(KnownWords)
      BY <1>4, SpeltType DEF LinesOf
    <3>3. spelt' = spelt
      BY <3>1
    <3> HIDE DEF spelt
    <3>4. spelt' = spelt \o currentLine
      BY <2>2, <3>2, <3>3
    <3>5. MarksEndParagraphs' /\ LinesFilled'
      <4>1. paragraphs' = paragraphs
        BY <1>2
      <4>2. QED
        BY <1>1, <3>1, <4>1 DEF MarksEndParagraphs, LinesFilled, MeasureTextWidth
    <3>6. ~(result # <<>> /\ ~result[Len(result)].isLast)
      BY <1>1, <2>2 DEF CurrentRoomInv
    <3>7. QED
      BY <1>4, <3>1, <3>2, <3>4, <3>5, <3>6
  <2>3. QED
    BY <2>1, <2>2
<1>7. TypeOK'
  <2>1. KnownWords' = KnownWords
    BY <1>2 DEF KnownWords
  <2>2. InParagraph' = InParagraph
    BY <1>2 DEF InParagraph
  <2>3. taken + 1 \in Nat /\ taken + 1 <= Len(paragraphs[paragraph])
    BY <1>3
  <2>4. isFirstWord' \in BOOLEAN /\ (isFirstWord' <=> currentLine' = <<>>)
    BY <1>2, <1>5
  <2>5. result' \in Seq(LinesOf(KnownWords))
    BY <1>6
  <2>6. QED
    BY <1>1, <1>2, <1>5, <2>1, <2>2, <2>3, <2>4, <2>5 DEF TypeOK, LinesOf
<1>8. WordsInOrder'
  <2>1. TakenWords' = Append(TakenWords, Word) /\ TakenWords \in Seq(KnownWords)
    BY <1>1, <1>2, OneMoreTaken
  <2>2. spelt \o currentLine = TakenWords
    BY <1>1 DEF WordsInOrder, Spelt
  <2> HIDE DEF spelt
  <2>3. spelt' = TakenWords
    BY <1>6, <2>2
  <2>4. TakenWords \o <<Word>> = Append(TakenWords, Word)
    BY <1>3, <2>1
  <2>5. spelt' \o currentLine' = TakenWords'
    BY <1>2, <2>1, <2>3, <2>4
  <2>6. QED
    BY <2>5 DEF WordsInOrder, Spelt, spelt
<1>9. CurrentWordsInv'
  <2>1. InParagraph'
    BY <1>2 DEF InParagraph
  <2>2. ~(taken + 1 = 0)
    BY <1>3
  <2>3. QED
    BY <1>2, <1>3, <1>5, <2>1, <2>2 DEF CurrentWordsInv
<1>10. CurrentRoomInv'
  <2> HIDE DEF spelt
  <2>1. ~(Len(currentLine') > 1)
    BY <1>5
  <2>2. QED
    BY <1>2, <1>5, <1>6, <2>1 DEF CurrentRoomInv, MeasureTextWidth
<1>11. QED
  BY <1>6, <1>7, <1>8, <1>9, <1>10 DEF WrapInv

\* The end of a paragraph marks its last line.
LEMMA WrapEnds == WrapInv /\ EndParagraph => WrapInv'
<1> SUFFICES ASSUME WrapInv, EndParagraph PROVE WrapInv'
  OBVIOUS
<1>1. /\ TypeOK /\ WordsInOrder /\ MarksEndParagraphs /\ LinesFilled
      /\ CurrentWordsInv /\ CurrentRoomInv
  BY DEF WrapInv
<1>2. /\ InParagraph /\ taken = Len(paragraphs[paragraph])
      /\ result' = IF currentLine # <<>> THEN Append(result, Line(currentLine, TRUE))
                                         ELSE result
      /\ currentLine' = <<>> /\ isFirstWord' = TRUE
      /\ paragraph' = paragraph + 1 /\ taken' = 0
      /\ paragraphs' = paragraphs /\ returned' = returned
  BY DEF EndParagraph
<1>3. /\ currentLine \in Seq(KnownWords)
      /\ result \in Seq(LinesOf(KnownWords)) /\ Len(result) \in Nat
  BY <1>1, StateTypes
<1> DEFINE spelt == Spelt(result)
<1>4. /\ spelt' \in Seq(KnownWords) /\ spelt' = spelt \o currentLine
      /\ result' \in Seq(LinesOf(KnownWords))
      /\ MarksEndParagraphs' /\ LinesFilled'
      /\ ~(result' # <<>> /\ ~result'[Len(result')].isLast)
  <2>1. CASE currentLine # <<>>
    <3>1. result' = Append(result, Line(currentLine, TRUE))
      BY <1>2, <2>1
    <3>2. TRUE <=> taken = Len(paragraphs[paragraph])
      BY <1>2
    <3>3. /\ result' \in Seq(LinesOf(KnownWords))
          /\ Len(result') = Len(result) + 1
          /\ result'[Len(result) + 1] = Line(currentLine, TRUE)
          /\ spelt \in Seq(KnownWords)
          /\ spelt' = spelt \o currentLine
          /\ MarksEndParagraphs' /\ LinesFilled'
      <4>1. TRUE \in BOOLEAN
        OBVIOUS
      <4>2. QED
        BY <1>2, <2>1, <3>1, <3>2, <4>1, LineClosed, Zenon
    <3>4. result'[Len(result')].isLast
      BY <3>3 DEF Line
    <3> HIDE DEF spelt
    <3>5. spelt \o currentLine \in Seq(KnownWords)
      BY <1>3, <3>3
    <3>6. QED
      BY <3>3, <3>4, <3>5
  <2>2. CASE currentLine = <<>>
    <3>1. result' = result
      BY <1>2, <2>2
    <3>2. spelt \in Seq(KnownWords)
      BY <1>3, SpeltType DEF LinesOf
    <3>3. spelt' = spelt
      BY <3>1
    <3> HIDE DEF spelt
    <3>4. spelt' = spelt \o currentLine
      BY <2>2, <3>2, <3>3
    <3>5. MarksEndParagraphs' /\ LinesFilled'
      <4>1. paragraphs' = paragraphs
        BY <1>2
      <4>2. QED
        BY <1>1, <3>1, <4>1 DEF MarksEndParagraphs, LinesFilled, MeasureTextWidth
    <3>6. ~(result # <<>> /\ ~result[Len(result)].isLast)
      BY <1>1, <2>2 DEF CurrentRoomInv
    <3>7. QED
      BY <1>3, <3>1, <3>2, <3>3, <3>4, <3>5, <3>6
  <2>3. QED
    BY <2>1, <2>2
<1>5. TypeOK'
  <2>1. KnownWords' = KnownWords
    BY <1>2 DEF KnownWords
  <2>2. /\ paragraphs \in Seq(Seq(Nat \ {0})) /\ Len(paragraphs) \in Nat
        /\ paragraph + 1 \in 1..(Len(paragraphs) + 1)
    BY <1>1, <1>2 DEF TypeOK, InParagraph
  <2>3. InParagraph' => 0 <= Len(paragraphs[paragraph + 1])
    <3>1. \A p \in 1..Len(paragraphs) : Len(paragraphs[p]) \in Nat
      BY <2>2
    <3>2. QED
      BY <1>2, <2>2, <3>1 DEF InParagraph
  <2>4. returned = FALSE
    BY <1>1, <1>2 DEF TypeOK, LinesOf
  <2>5. result' \in Seq(LinesOf(KnownWords))
    BY <1>4
  <2>6. currentLine' \in Seq(KnownWords)
    BY <1>2
  <2>7. QED
    BY <1>1, <1>2, <2>1, <2>2, <2>3, <2>4, <2>5, <2>6 DEF TypeOK, LinesOf
<1>6. WordsInOrder'
  <2>1. TakenWords' = TakenWords
    BY <1>1, <1>2, NoMoreTaken
  <2>2. spelt \o currentLine = TakenWords
    BY <1>1 DEF WordsInOrder, Spelt
  <2> HIDE DEF spelt
  <2>3. spelt' \o currentLine' = spelt'
    BY <1>2, <1>4
  <2>4. spelt' \o currentLine' = TakenWords'
    BY <1>4, <2>1, <2>2, <2>3
  <2>5. QED
    BY <2>4 DEF WordsInOrder, Spelt, spelt
<1>7. CurrentWordsInv'
  BY <1>2 DEF CurrentWordsInv
<1>8. CurrentRoomInv'
  <2> HIDE DEF spelt
  <2>1. ~(Len(currentLine') > 1)
    BY <1>2
  <2>2. QED
    BY <1>2, <1>4, <2>1 DEF CurrentRoomInv
<1>9. QED
  BY <1>4, <1>5, <1>6, <1>7, <1>8 DEF WrapInv

\* Returning, and a step that changes nothing, keep what the invariant speaks of.
LEMMA WrapRests == WrapInv /\ (Return \/ UNCHANGED vars) => WrapInv'
<1> SUFFICES ASSUME WrapInv, Return \/ UNCHANGED vars PROVE WrapInv'
  OBVIOUS
<1>1. /\ TypeOK /\ WordsInOrder /\ MarksEndParagraphs /\ LinesFilled
      /\ CurrentWordsInv /\ CurrentRoomInv
  BY DEF WrapInv
<1>2. /\ result' = result /\ currentLine' = currentLine /\ isFirstWord' = isFirstWord
      /\ paragraphs' = paragraphs /\ paragraph' = paragraph /\ taken' = taken
      /\ returned' = returned \/ (returned' = TRUE /\ ~InParagraph)
  BY DEF Return, vars
<1>3. TypeOK'
  <2>1. KnownWords' = KnownWords /\ InParagraph' = InParagraph
    BY <1>2 DEF KnownWords, InParagraph
  <2>2. returned' \in BOOLEAN /\ (returned' => ~InParagraph)
    <3>1. returned \in BOOLEAN /\ (returned => ~InParagraph)
      BY <1>1 DEF TypeOK, LinesOf
    <3>2. CASE returned' = returned
      BY <3>1, <3>2, Zenon
    <3>3. CASE returned' = TRUE /\ ~InParagraph
      BY <3>3
    <3>4. QED
      BY <1>2, <3>2, <3>3
  <2>3. QED
    BY <1>1, <1>2, <2>1, <2>2 DEF TypeOK, LinesOf
<1>4. WordsInOrder'
  BY <1>1, <1>2 DEF WordsInOrder, TakenWords, WordsOf
<1>5. MarksEndParagraphs' /\ LinesFilled'
  BY <1>1, <1>2 DEF MarksEndParagraphs, LinesFilled, MeasureTextWidth
<1>6. CurrentWordsInv'
  BY <1>1, <1>2 DEF CurrentWordsInv, InParagraph
<1>7. CurrentRoomInv'
  BY <1>1, <1>2 DEF CurrentRoomInv, MeasureTextWidth
<1>8. QED
  BY <1>3, <1>4, <1>5, <1>6, <1>7 DEF WrapInv

------------------------------------------------------------------------------
\* At every round of WrapLinesToWidth, and when it has returned.
THEOREM WrapSafe == Spec => []WrapInv
<1>1. WrapInv /\ [Next]_vars => WrapInv'
  BY WrapJoins, WrapBreaks, WrapEnds, WrapRests DEF Next
<1>2. QED
  BY WrapInit, <1>1, PTL DEF Spec

\* WrapLinesToWidth is type correct, makes no empty line, and isFirstWord tells
\* whether the line being filled is empty.
THEOREM TypeCorrect == Spec => []TypeOK
<1>1. WrapInv => TypeOK
  BY DEF WrapInv
<1>2. QED
  BY WrapSafe, <1>1, PTL

\* The lines spell the words of the paragraphs.
THEOREM WordsStayInOrder == Spec => []WordsInOrder
<1>1. WrapInv => WordsInOrder
  BY DEF WrapInv
<1>2. QED
  BY WrapSafe, <1>1, PTL

\* Exactly the lines that end a paragraph are marked.
THEOREM MarksAreRight == Spec => []MarksEndParagraphs
<1>1. WrapInv => MarksEndParagraphs
  BY DEF WrapInv
<1>2. QED
  BY WrapSafe, <1>1, PTL

\* Lines of several words are within the width, and are broken only when the next
\* word does not fit.
THEOREM LinesAreFilled == Spec => []LinesFilled
<1>1. WrapInv => LinesFilled
  BY DEF WrapInv
<1>2. QED
  BY WrapSafe, <1>1, PTL

------------------------------------------------------------------------------
\* WrapLinesToWidth implements Flow, step by step.

\* The items of Flow are the widths of the words, in the order in which they are taken.
LEMMA WordsAreItems ==
    ASSUME TypeOK, CurrentWordsInv, NEW items, items = FlattenSeq(paragraphs)
    PROVE  /\ items \in Seq(Nat)
           /\ TakenWords \in Seq(KnownWords)
           /\ Taking => /\ Len(TakenWords) < Len(items)
                        /\ items[Len(TakenWords) + 1] = Width(Word)
           /\ ~InParagraph => Len(TakenWords) = Len(items)
<1>1. /\ paragraphs \in Seq(Seq(Nat)) /\ Len(paragraphs) \in Nat
      /\ \A p \in 1..Len(paragraphs) : Len(paragraphs[p]) \in Nat
      /\ paragraph \in 1..(Len(paragraphs) + 1) /\ taken \in Nat
  <2>1. Seq(Nat \ {0}) \subseteq Seq(Nat)
    OBVIOUS
  <2>2. paragraphs \in Seq(Seq(Nat \ {0})) /\ paragraph \in 1..(Len(paragraphs) + 1)
        /\ taken \in Nat
    BY DEF TypeOK
  <2> DEFINE S == Seq(Nat \ {0})
             T == Seq(Nat)
  <2>3. paragraphs \in Seq(S) /\ S \subseteq T
    BY <2>1, <2>2
  <2>4. \A p \in 1..Len(paragraphs) : Len(paragraphs[p]) \in Nat
    BY <2>2
  <2> HIDE DEF S, T
  <2>5. paragraphs \in Seq(T) /\ Len(paragraphs) \in Nat
    BY <2>3
  <2>6. QED
    BY <2>2, <2>4, <2>5 DEF T
<1>2. PICK k : k = paragraph - 1
  OBVIOUS
<1>3. PICK first, spelt, now : /\ first = [p \in 1..k |-> paragraphs[p]]
                               /\ spelt = [p \in 1..k |-> WordsOf(p)]
                               /\ now = [n \in 1..taken |-> <<paragraph, n>>]
  OBVIOUS
<1>4. k \in 0..Len(paragraphs) /\ k \in Nat /\ k + 1 = paragraph
  BY <1>1, <1>2
<1>5. PICK before, flat : before = FlattenSeq(first) /\ flat = FlattenSeq(spelt)
  OBVIOUS
<1>6. spelt \in Seq(Seq(KnownWords)) /\ Len(spelt) = k /\ flat \in Seq(KnownWords)
  BY <1>2, <1>3, <1>5, TakenParts
<1>7. /\ before \in Seq(Nat) /\ items \in Seq(Nat)
      /\ k = Len(paragraphs) => before = items
      /\ k < Len(paragraphs) => ComesAfter(items, before, paragraphs[k + 1])
  BY <1>1, <1>3, <1>4, <1>5, FlattenPart
<1>8. Len(flat) = Len(before)
  <2>1. first \in Seq(Seq(Nat)) /\ Len(first) = k
    <3> DEFINE T == Seq(Nat)
    <3>1. \A p \in 1..k : paragraphs[p] \in T
      BY <1>1, <1>4
    <3> HIDE DEF T
    <3>2. first \in Seq(T) /\ Len(first) = k
      BY <1>3, <1>4, <3>1
    <3>3. QED
      BY <3>2 DEF T
  <2>2. \A p \in 1..k : Len(spelt[p]) = Len(first[p])
    <3>1. ASSUME NEW p \in 1..k PROVE Len(spelt[p]) = Len(first[p])
      <4>1. p \in 1..Len(paragraphs)
        BY <1>1, <1>4
      <4>2. Len(WordsOf(p)) = Len(paragraphs[p])
        BY <1>1, <4>1 DEF WordsOf
      <4>3. QED
        BY <1>3, <4>2
    <3>2. QED
      BY <3>1
  <2>3. Len(FlattenSeq(spelt)) = Len(FlattenSeq(first))
    <3>1. Alike(spelt, first)
      BY <1>6, <2>1, <2>2 DEF Alike
    <3>2. spelt \in Seq(Seq(KnownWords)) /\ first \in Seq(Seq(Nat))
      BY <1>6, <2>1
    <3>3. QED
      BY <3>1, <3>2, FlattenLengths
  <2>4. QED
    BY <1>5, <2>3
<1>9. TakenWords = flat \o now
  BY <1>2, <1>3, <1>5 DEF TakenWords
<1>10. CASE InParagraph
  <2>1. now \in Seq(KnownWords) /\ Len(now) = taken
    BY <1>3, <1>10, TakenParts
  <2>2. TakenWords \in Seq(KnownWords) /\ Len(TakenWords) = Len(before) + taken
    <3>1. flat \o now \in Seq(KnownWords) /\ Len(flat \o now) = Len(flat) + Len(now)
      <4>1. flat \in Seq(KnownWords) /\ now \in Seq(KnownWords)
        BY <1>6, <2>1
      <4>2. QED
        BY <4>1
    <3>2. QED
      BY <1>8, <1>9, <2>1, <3>1
  <2>3. ASSUME Taking
        PROVE  /\ Len(TakenWords) < Len(items)
               /\ items[Len(TakenWords) + 1] = Width(Word)
    <3>1. /\ k < Len(paragraphs) /\ taken + 1 \in 1..Len(paragraphs[k + 1])
          /\ Word = <<k + 1, taken + 1>>
      BY <1>1, <1>4, <2>3, NextWord DEF InParagraph
    <3>2. /\ Len(before) + (taken + 1) <= Len(items)
          /\ items[Len(before) + (taken + 1)] = paragraphs[k + 1][taken + 1]
      BY <1>7, <3>1 DEF ComesAfter
    <3>3. Width(Word) = paragraphs[k + 1][taken + 1]
      BY <3>1 DEF Width
    <3>4. Len(before) \in Nat /\ Len(items) \in Nat
      BY <1>7
    <3>5. Len(before) + (taken + 1) = Len(TakenWords) + 1
      BY <1>1, <2>2, <3>4
    <3>6. QED
      BY <1>1, <2>2, <3>2, <3>3, <3>4, <3>5
  <2>4. QED
    BY <1>7, <1>10, <2>2, <2>3
<1>11. CASE ~InParagraph
  <2>1. taken = 0 /\ now = <<>>
    BY <1>3, <1>11 DEF CurrentWordsInv
  <2>2. k = Len(paragraphs)
    BY <1>1, <1>4, <1>11 DEF InParagraph
  <2>3. TakenWords = flat
    BY <1>6, <1>9, <2>1
  <2>4. ~Taking
    BY <1>11 DEF Taking
  <2>5. QED
    BY <1>6, <1>7, <1>8, <1>11, <2>2, <2>3, <2>4
<1>12. QED
  BY <1>10, <1>11

\* A word makes a line wider by a blank and its own width; alone it is as wide as it is.
LEMMA WidthGrows ==
    ASSUME TypeOK, NEW words \in Seq(KnownWords), NEW word \in KnownWords
    PROVE  /\ MeasureTextWidth(<<word>>) = Width(word)
           /\ words # <<>> => MeasureTextWidth(Append(words, word))
                                = MeasureTextWidth(words) + BlankWidth + Width(word)
           /\ Width(word) \in Nat
<1>1. \A one \in KnownWords : Width(one) \in Nat
  <2>1. \A p \in DOMAIN paragraphs : paragraphs[p] \in Seq(Nat \ {0})
    BY DEF TypeOK
  <2>2. ASSUME NEW one \in KnownWords PROVE Width(one) \in Nat
    <3>1. one[1] \in DOMAIN paragraphs /\ one[2] \in DOMAIN paragraphs[one[1]]
      BY DEF KnownWords
    <3>2. paragraphs[one[1]][one[2]] \in Nat \ {0}
      BY <2>1, <3>1
    <3>3. QED
      BY <3>2 DEF Width
  <2>3. QED
    BY <2>2
<1>2. ASSUME NEW line \in Seq(KnownWords), NEW widths,
             widths = [i \in 1..Len(line) |-> Width(line[i])]
      PROVE  /\ widths \in Seq(Nat) /\ Len(widths) = Len(line)
             /\ MeasureTextWidth(line) = RunningSum(widths)[Len(line)]
                  + (IF line = <<>> THEN 0 ELSE BlankWidth * (Len(line) - 1))
  <2>1. Len(line) \in Nat /\ \A i \in 1..Len(line) : line[i] \in KnownWords
    OBVIOUS
  <2>2. widths \in Seq(Nat) /\ Len(widths) = Len(line)
    BY <1>1, <1>2, <2>1
  <2>3. QED
    BY <1>2, <2>2 DEF MeasureTextWidth, WidthIn, Width
<1>3. PICK widths : widths = [i \in 1..Len(words) |-> Width(words[i])]
  OBVIOUS
<1>4. PICK longer : longer = Append(words, word)
  OBVIOUS
<1>5. PICK wider : wider = [i \in 1..Len(longer) |-> Width(longer[i])]
  OBVIOUS
<1>6. PICK L : L = Len(words)
  OBVIOUS
<1>7. /\ L \in Nat /\ longer \in Seq(KnownWords) /\ Len(longer) = L + 1
      /\ longer[L + 1] = word /\ \A i \in 1..L : longer[i] = words[i]
  BY <1>4, <1>6
<1>8. /\ widths \in Seq(Nat) /\ Len(widths) = L
      /\ MeasureTextWidth(words) = RunningSum(widths)[L]
            + (IF words = <<>> THEN 0 ELSE BlankWidth * (L - 1))
  BY <1>2, <1>3, <1>6
<1>9. /\ wider \in Seq(Nat) /\ Len(wider) = L + 1
      /\ MeasureTextWidth(longer) = RunningSum(wider)[L + 1]
            + (IF longer = <<>> THEN 0 ELSE BlankWidth * ((L + 1) - 1))
  BY <1>2, <1>5, <1>7
<1>10. wider = Append(widths, Width(word))
  <2>1. PICK w : w = Width(word)
    OBVIOUS
  <2>2. w \in Nat
    BY <1>1, <2>1
  <2>3. widths = [n \in 1..L |-> widths[n]] /\ wider = [n \in 1..(L + 1) |-> wider[n]]
    BY <1>3, <1>5, <1>6, <1>7
  <2>4. \A n \in 1..L : wider[n] = widths[n]
    <3>1. \A n \in 1..L : n \in 1..(L + 1)
      BY <1>7
    <3>2. QED
      BY <1>3, <1>5, <1>6, <1>7, <3>1
  <2>5. wider[L + 1] = w
    BY <1>5, <1>7, <2>1
  <2>6. wider = Append(widths, wider[L + 1])
    <3>1. L \in Nat
      BY <1>7
    <3>2. QED
      BY <2>3, <2>4, <3>1, LongerByOne
  <2>7. QED
    BY <2>1, <2>5, <2>6
<1>11. RunningSum(wider)[L + 1] = RunningSum(widths)[L] + Width(word)
  <2>1. Width(word) \in Nat
    BY <1>1
  <2>2. RunningSum(wider)[Len(widths) + 1] = RunningSum(widths)[Len(widths)] + Width(word)
    BY <1>8, <1>10, <2>1, RunningSumAppend
  <2>3. QED
    BY <1>8, <2>2
<1>12. RunningSum(widths)[L] \in Nat
  <2>1. RunningSum(widths) \in [0..Len(widths) -> Nat]
    BY <1>8, RunningSumFacts
  <2>2. Len(widths) = L /\ L \in 0..L
    BY <1>7, <1>8
  <2>3. QED
    BY <2>1, <2>2
<1>13. longer # <<>>
  <2>1. Len(longer) # 0
    BY <1>7
  <2>2. QED
    BY <2>1
<1>14. words # <<>> => MeasureTextWidth(longer)
                         = MeasureTextWidth(words) + BlankWidth + Width(word)
  <2> SUFFICES ASSUME words # <<>>
               PROVE  MeasureTextWidth(longer)
                        = MeasureTextWidth(words) + BlankWidth + Width(word)
    OBVIOUS
  <2>1. PICK a, b : a = BlankWidth * (L - 1) /\ b = BlankWidth * ((L + 1) - 1)
    OBVIOUS
  <2>2. a \in Int /\ b = a + BlankWidth
    BY <1>7, <2>1, WidthsAssumption
  <2>3. PICK r, w : r = RunningSum(widths)[L] /\ w = Width(word)
    OBVIOUS
  <2>4. r \in Nat /\ w \in Nat /\ BlankWidth \in Nat
    BY <1>1, <1>12, <2>3, WidthsAssumption
  <2>5. MeasureTextWidth(words) = r + a /\ MeasureTextWidth(longer) = (r + w) + b
    BY <1>8, <1>9, <1>11, <1>13, <2>1, <2>3
  <2>6. QED
    BY <2>2, <2>3, <2>4, <2>5
<1>15. MeasureTextWidth(<<word>>) = Width(word)
  <2>1. PICK one : one = [i \in 1..1 |-> Width(word)]
    OBVIOUS
  <2>2. <<word>> \in Seq(KnownWords) /\ Len(<<word>>) = 1 /\ <<word>>[1] = word
    OBVIOUS
  <2>3. one = [i \in 1..Len(<<word>>) |-> Width(<<word>>[i])]
    BY <2>1, <2>2
  <2>4. /\ one \in Seq(Nat) /\ Len(one) = 1
        /\ MeasureTextWidth(<<word>>) = RunningSum(one)[1]
              + (IF <<word>> = <<>> THEN 0 ELSE BlankWidth * (1 - 1))
    BY <1>2, <2>2, <2>3
  <2>5. RunningSum(one)[1] = 0 + one[1]
    <3>1. /\ RunningSum(one)[0] = 0
          /\ \A n \in 1..1 : RunningSum(one)[n] = RunningSum(one)[n - 1] + one[n]
      BY <2>4, RunningSumFacts
    <3>2. 1 \in 1..1 /\ 1 - 1 = 0
      OBVIOUS
    <3>3. QED
      BY <3>1, <3>2
  <2>6. one[1] = Width(word) /\ Width(word) \in Nat
    BY <1>1, <2>1
  <2>7. BlankWidth * (1 - 1) = 0
    BY WidthsAssumption
  <2>8. QED
    BY <2>4, <2>5, <2>6, <2>7
<1>16. QED
  BY <1>1, <1>4, <1>14, <1>15

\* Word w follows on a new line, or on the last one.
OpensLine(q, w, r) == r = Append(q, <<w>>)

JoinsLine(q, w, r) ==
    /\ q # <<>> /\ Len(r) = Len(q)
    /\ r[Len(q)] = Append(q[Len(q)], w)
    /\ \A k \in 1..(Len(q) - 1) : r[k] = q[k]

\* On the lines r are the words of the lines q, where they are there, and w on the last.
WordAdded(q, w, r) ==
    \A k \in 1..Len(r) : \A m :
        Contains(r[k], m)
          <=> (k \in 1..Len(q) /\ Contains(q[k], m)) \/ (k = Len(r) /\ m = w)

\* Which words are on which lines then.
LEMMA WordsOnLines ==
    ASSUME NEW S, NEW q \in Seq(Seq(S)), NEW w \in S, NEW r \in Seq(Seq(S)),
           OpensLine(q, w, r) \/ JoinsLine(q, w, r)
    PROVE  /\ Len(r) = IF OpensLine(q, w, r) THEN Len(q) + 1 ELSE Len(q)
           /\ Len(r) \in Nat \ {0} /\ Len(q) \in 0..Len(r)
           /\ WordAdded(q, w, r)
<1>1. PICK L : L = Len(q)
  OBVIOUS
<1>2. L \in Nat /\ \A k \in 1..L : q[k] \in Seq(S)
  BY <1>1
<1>3. /\ Len(<<w>>) = 1 /\ <<w>>[1] = w /\ 1 \in 1..1
      /\ \A i \in 1..1 : i = 1
  OBVIOUS
<1>4. \A m : Contains(<<w>>, m) <=> m = w
  BY <1>3 DEF Contains
<1>5. ASSUME NEW line \in Seq(S)
      PROVE  \A m : Contains(Append(line, w), m) <=> Contains(line, m) \/ m = w
  <2>1. PICK longer : longer = Append(line, w)
    OBVIOUS
  <2>2. /\ Len(line) \in Nat /\ Len(longer) = Len(line) + 1
        /\ longer[Len(line) + 1] = w /\ \A i \in 1..Len(line) : longer[i] = line[i]
    BY <2>1
  <2>3. \A i : i \in 1..(Len(line) + 1) <=> i \in 1..Len(line) \/ i = Len(line) + 1
    BY <2>2
  <2>4. \A m : Contains(longer, m) <=> Contains(line, m) \/ m = w
    BY <2>2, <2>3 DEF Contains
  <2>5. QED
    BY <2>1, <2>4
<1>6. CASE OpensLine(q, w, r)
  <2>1. /\ Len(r) = L + 1 /\ r[L + 1] = <<w>> /\ \A k \in 1..L : r[k] = q[k]
    <3> DEFINE T == Seq(S)
    <3>1. q \in Seq(T) /\ <<w>> \in T
      OBVIOUS
    <3> HIDE DEF T
    <3>2. QED
      BY <1>1, <1>6, <3>1 DEF OpensLine
  <2>2. \A k \in 1..(L + 1) : (k \in 1..L /\ k # L + 1) \/ (k = L + 1 /\ k \notin 1..L)
    BY <1>2
  <2>3. \A k \in 1..(L + 1) : \A m :
           Contains(r[k], m) <=> (k \in 1..L /\ Contains(q[k], m)) \/ (k = L + 1 /\ m = w)
    BY <1>4, <2>1, <2>2
  <2>4. L + 1 \in Nat \ {0} /\ L \in 0..(L + 1)
    BY <1>2
  <2>5. QED
    BY <1>1, <1>6, <2>1, <2>3, <2>4 DEF WordAdded
<1>7. CASE ~OpensLine(q, w, r)
  <2>1. /\ L # 0 /\ Len(r) = L /\ r[L] = Append(q[L], w)
        /\ \A k \in 1..(L - 1) : r[k] = q[k]
    BY <1>1, <1>7 DEF JoinsLine
  <2>2. \A k \in 1..L : (k \in 1..(L - 1) /\ k # L) \/ k = L
    BY <1>2
  <2>3. \A m : Contains(r[L], m) <=> Contains(q[L], m) \/ m = w
    <3>1. q[L] \in Seq(S)
      BY <1>2, <2>1
    <3>2. QED
      BY <1>5, <2>1, <3>1
  <2>4. \A k \in 1..L : \A m :
           Contains(r[k], m) <=> (k \in 1..L /\ Contains(q[k], m)) \/ (k = L /\ m = w)
    BY <2>1, <2>2, <2>3
  <2>5. L \in Nat \ {0} /\ L \in 0..L
    BY <1>2, <2>1
  <2>6. QED
    BY <1>1, <1>7, <2>1, <2>4, <2>5 DEF WordAdded
<1>8. QED
  BY <1>6, <1>7

\* The lines so far, in the words of each.
LEMMA LinesType ==
    ASSUME TypeOK, NEW R, R = [k \in DOMAIN result |-> result[k].words]
    PROVE  /\ R \in Seq(Seq(KnownWords))
           /\ LinesSoFar = IF currentLine = <<>> THEN R ELSE Append(R, currentLine)
           /\ LinesSoFar \in Seq(Seq(KnownWords))
<1> DEFINE T == Seq(KnownWords)
<1>1. /\ currentLine \in T /\ Len(result) \in Nat /\ DOMAIN result = 1..Len(result)
      /\ \A k \in 1..Len(result) : result[k].words \in T
  BY StateTypes
<1> HIDE DEF T
<1>2. R \in Seq(T)
  BY <1>1
<1>3. R \o <<>> = R
  BY <1>2
<1>4. R \o <<currentLine>> = Append(R, currentLine) /\ Append(R, currentLine) \in Seq(T)
  BY <1>1, <1>2
<1>5. LinesSoFar = IF currentLine = <<>> THEN R ELSE Append(R, currentLine)
  BY <1>3, <1>4 DEF LinesSoFar
<1>6. LinesSoFar \in Seq(T)
  BY <1>2, <1>4, <1>5
<1>7. QED
  BY <1>2, <1>5, <1>6 DEF T

\* The word that is taken joins the words of the line being filled, or is alone on the
\* line after the last one.
LEMMA TakenOnLine ==
    ASSUME WrapInv, JoinLine \/ BreakLine, NEW q, q = LinesSoFar, NEW r, r = LinesSoFar',
           NEW word, word = Word
    PROVE  /\ q \in Seq(Seq(KnownWords)) /\ r \in Seq(Seq(KnownWords))
           /\ word \in KnownWords
           /\ currentLine # <<>> /\ JoinLine =>
                 /\ JoinsLine(q, word, r) /\ Last(q) = currentLine
                 /\ Last(r) = Append(currentLine, word)
           /\ currentLine = <<>> \/ BreakLine =>
                 OpensLine(q, word, r) /\ Last(r) = <<word>>
<1>1. /\ TypeOK /\ Taking /\ paragraphs' = paragraphs
      /\ word \in KnownWords
  BY NextWord DEF WrapInv, JoinLine, BreakLine
<1>2. PICK R : R = [k \in DOMAIN result |-> result[k].words]
  OBVIOUS
<1>3. PICK c : c = currentLine
  OBVIOUS
<1> DEFINE T == Seq(KnownWords)
<1>4. /\ R \in Seq(T) /\ q \in Seq(T)
      /\ q = IF c = <<>> THEN R ELSE Append(R, c)
  BY <1>1, <1>2, <1>3, LinesType
<1>5. c \in T /\ <<word>> \in T /\ Append(c, word) \in T /\ Append(c, word) # <<>>
  <2>1. c \in Seq(KnownWords)
    BY <1>1, <1>3 DEF TypeOK
  <2>2. Append(c, word) \in Seq(KnownWords) /\ Len(Append(c, word)) = Len(c) + 1
        /\ Len(c) \in Nat
    BY <1>1, <2>1
  <2>3. <<word>> \in Seq(KnownWords)
    BY <1>1
  <2>4. Append(c, word) # <<>>
    BY <2>2
  <2>5. QED
    BY <2>1, <2>2, <2>3, <2>4
<1>6. c = <<>> => Append(c, word) = <<word>>
  OBVIOUS
<1> HIDE DEF T
<1>7. CASE JoinLine
  <2>1. currentLine' = Append(c, word) /\ result' = result
    BY <1>3, <1>7 DEF JoinLine
  <2>2. r = R \o <<Append(c, word)>>
    BY <1>2, <1>5, <2>1 DEF LinesSoFar
  <2>3. r = Append(R, Append(c, word)) /\ r \in Seq(T)
    BY <1>4, <1>5, <2>2
  <2>4. Len(R) \in Nat /\ Len(r) = Len(R) + 1 /\ r[Len(R) + 1] = Append(c, word)
        /\ \A k \in 1..Len(R) : r[k] = R[k]
    BY <1>4, <1>5, <2>3
  <2>5. ~BreakLine
    BY <1>7 DEF JoinLine, BreakLine
  <2>6. CASE c = <<>>
    <3>1. OpensLine(q, word, r)
      BY <1>4, <1>6, <2>3, <2>6 DEF OpensLine
    <3>2. Last(r) = <<word>>
      BY <1>6, <2>4, <2>6 DEF Last
    <3>3. QED
      BY <1>1, <1>3, <1>4, <2>3, <2>6, <3>1, <3>2 DEF T
  <2>7. CASE c # <<>>
    <3>1. q = Append(R, c)
      BY <1>4, <2>7
    <3>2. Len(q) = Len(R) + 1 /\ q[Len(R) + 1] = c /\ \A k \in 1..Len(R) : q[k] = R[k]
      BY <1>4, <1>5, <3>1
    <3>3. q # <<>> /\ (Len(R) + 1) - 1 = Len(R)
      BY <2>4, <3>2
    <3>4. JoinsLine(q, word, r)
      BY <2>4, <3>2, <3>3 DEF JoinsLine
    <3>5. Last(q) = c /\ Last(r) = Append(c, word)
      BY <2>4, <3>2 DEF Last
    <3>6. QED
      BY <1>1, <1>3, <1>4, <2>3, <2>5, <2>7, <3>4, <3>5 DEF T
  <2>8. QED
    BY <2>6, <2>7
<1>8. CASE BreakLine
  <2>1. currentLine' = <<word>> /\ <<word>> # <<>>
    BY <1>8 DEF BreakLine
  <2>2. PICK R2 : R2 = [k \in DOMAIN result' |-> result'[k].words]
    OBVIOUS
  <2>3. R2 = q
    <3>1. CASE c = <<>>
      <4>1. result' = result
        BY <1>3, <1>8, <3>1 DEF BreakLine
      <4>2. QED
        BY <1>2, <1>4, <2>2, <3>1, <4>1
    <3>2. CASE c # <<>>
      <4>1. result' = Append(result, Line(c, FALSE))
        BY <1>3, <1>8, <3>2 DEF BreakLine
      <4>2. PICK old, new, line : old = result /\ new = result' /\ line = Line(c, FALSE)
        OBVIOUS
      <4>3. old \in Seq(LinesOf(KnownWords)) /\ line \in LinesOf(KnownWords)
            /\ line.words = c
        BY <1>1, <1>5, <3>2, <4>2, StateTypes DEF Line, LinesOf, T
      <4>4. /\ Len(old) \in Nat /\ DOMAIN old = 1..Len(old)
            /\ new = Append(old, line)
        BY <4>1, <4>2, <4>3
      <4>5. /\ Len(new) = Len(old) + 1 /\ new[Len(old) + 1] = line
            /\ \A k \in 1..Len(old) : new[k] = old[k]
            /\ new \in Seq(LinesOf(KnownWords))
        <5> DEFINE U == LinesOf(KnownWords)
        <5>1. old \in Seq(U) /\ line \in U
          BY <4>3
        <5> HIDE DEF U
        <5>2. QED
          BY <4>4, <5>1 DEF U
      <4>6. DOMAIN new = 1..(Len(old) + 1)
        BY <4>5
      <4>7. R = [k \in 1..Len(old) |-> R[k]] /\ R2 = [k \in 1..(Len(old) + 1) |-> R2[k]]
        BY <1>2, <2>2, <4>2, <4>4, <4>6
      <4>8. \A k \in 1..Len(old) : R2[k] = R[k]
        <5>1. \A k \in 1..Len(old) : k \in 1..(Len(old) + 1)
          BY <4>4
        <5>2. QED
          BY <1>2, <2>2, <4>2, <4>4, <4>5, <4>6, <5>1
      <4>9. R2[Len(old) + 1] = c
        <5>1. Len(old) + 1 \in 1..(Len(old) + 1)
          BY <4>4
        <5>2. QED
          BY <2>2, <4>2, <4>3, <4>5, <4>6, <5>1
      <4>10. R2 = Append(R, R2[Len(old) + 1])
        BY <4>4, <4>7, <4>8, LongerByOne
      <4>11. QED
        BY <1>4, <3>2, <4>9, <4>10
    <3>3. QED
      BY <3>1, <3>2
  <2>4. r = q \o <<<<word>>>>
    BY <2>1, <2>2, <2>3 DEF LinesSoFar
  <2>5. r = Append(q, <<word>>) /\ r \in Seq(T)
    BY <1>4, <1>5, <2>4
  <2>6. Last(r) = <<word>>
    <3>1. Len(r) = Len(q) + 1 /\ r[Len(q) + 1] = <<word>>
      BY <1>4, <1>5, <2>5
    <3>2. QED
      BY <3>1 DEF Last
  <2>7. ~JoinLine
    BY <1>8 DEF JoinLine, BreakLine
  <2>8. QED
    BY <1>1, <1>4, <2>5, <2>6, <2>7 DEF OpensLine, T
<1>9. QED
  BY <1>7, <1>8

\* It gets the last line there is then, and no other word another line.
LEMMA WrapPlaces ==
    ASSUME WrapInv, PlacedInv, JoinLine \/ BreakLine
    PROVE  /\ LineOf' = Append(LineOf, Len(LinesSoFar'))
           /\ Len(LineOf) = Len(TakenWords) /\ Len(TakenWords) \in Nat
           /\ LineOf = <<>> <=> Len(TakenWords) = 0
           /\ PlacedInv'
<1>1. PICK q, r, word, w, x : /\ q = LinesSoFar /\ r = LinesSoFar' /\ word = Word
                              /\ w = TakenWords /\ x = TakenWords'
  OBVIOUS
<1>2. /\ q \in Seq(Seq(KnownWords)) /\ r \in Seq(Seq(KnownWords)) /\ word \in KnownWords
      /\ OpensLine(q, word, r) \/ JoinsLine(q, word, r)
  <2>1. currentLine = <<>> \/ currentLine # <<>>
    OBVIOUS
  <2>2. QED
    BY <1>1, <2>1, TakenOnLine
<1>3. /\ TypeOK /\ CurrentWordsInv /\ Taking
      /\ paragraphs' = paragraphs /\ paragraph' = paragraph /\ taken' = taken + 1
  BY DEF WrapInv, JoinLine, BreakLine
<1>4. w \in Seq(KnownWords) /\ x = Append(w, word)
  BY <1>1, <1>3, OneMoreTaken
<1>5. PICK t : t = Len(w)
  OBVIOUS
<1>6. /\ t \in Nat /\ DOMAIN w = 1..t /\ DOMAIN x = 1..(t + 1)
      /\ x[t + 1] = word /\ \A n \in 1..t : x[n] = w[n]
  <2>1. t \in Nat /\ DOMAIN w = 1..t
    BY <1>4, <1>5
  <2>2. x \in Seq(KnownWords) /\ Len(x) = t + 1 /\ x[t + 1] = word
        /\ \A n \in 1..t : x[n] = w[n]
    BY <1>2, <1>4, <1>5
  <2>3. DOMAIN x = 1..(t + 1)
    BY <2>2
  <2>4. QED
    BY <2>1, <2>2, <2>3
<1>7. PICK last : last = Len(r)
  OBVIOUS
<1>8. /\ last \in Nat \ {0} /\ Len(q) \in 0..last
      /\ \A k \in 1..last : \A m :
            Contains(r[k], m)
              <=> (k \in 1..Len(q) /\ Contains(q[k], m)) \/ (k = last /\ m = word)
  <2>1. Len(r) \in Nat \ {0} /\ Len(q) \in 0..Len(r) /\ WordAdded(q, word, r)
    BY <1>2, WordsOnLines
  <2>2. QED
    BY <1>7, <2>1 DEF WordAdded
<1>9. DOMAIN q = 1..Len(q) /\ DOMAIN r = 1..last
      /\ (\A k \in 1..Len(q) : q[k] \in Seq(KnownWords))
      /\ (\A k \in 1..last : r[k] \in Seq(KnownWords))
  BY <1>2, <1>7
<1>10. /\ paragraph \in Nat /\ taken \in Nat /\ word = <<paragraph, taken + 1>>
  BY <1>1, <1>3, NextWord
<1> DEFINE Before(m) == m[1] < paragraph \/ (m[1] = paragraph /\ m[2] <= taken)
           After(m)  == m[1] < paragraph \/ (m[1] = paragraph /\ m[2] <= taken + 1)
<1>11. /\ \A m : Reached(m) <=> Before(m)
       /\ \A k \in 1..Len(q) : \A m : Contains(q[k], m) => Before(m)
       /\ \A n \in 1..t : Before(w[n])
  <2>1. \A m : Reached(m) <=> Before(m)
    BY DEF Reached
  <2> HIDE DEF Before
  <2>2. \A k \in DOMAIN q : \A j \in DOMAIN q[k] : Before(q[k][j])
    BY <1>1, <2>1 DEF PlacedInv
  <2>3. \A k \in 1..Len(q) : DOMAIN q[k] = 1..Len(q[k])
    BY <1>9
  <2>4. \A k \in 1..Len(q) : \A m : Contains(q[k], m) => Before(m)
    BY <1>9, <2>2, <2>3 DEF Contains
  <2>5. \A n \in 1..t : Before(w[n])
    BY <1>1, <1>6, <2>1 DEF PlacedInv
  <2>6. QED
    BY <2>1, <2>4, <2>5
<1>12. ~Before(word) /\ After(word)
  BY <1>10
<1>13. \A m \in KnownWords : Before(m) => After(m)
  <2>1. \A m \in KnownWords : m[1] \in Nat /\ m[2] \in Nat
    BY DEF KnownWords
  <2>2. QED
    BY <1>10, <2>1
<1> HIDE DEF Before, After
<1> DEFINE On(n)  == {k \in 1..Len(q) : Contains(q[k], w[n])}
           On2(n) == {k \in 1..last : Contains(r[k], x[n])}
<1>14. LineOf = [n \in 1..t |-> CHOOSE k \in On(n) : TRUE]
  BY <1>1, <1>6, <1>9 DEF LineOf, LinesWith
<1>15. LineOf' = [n \in 1..(t + 1) |-> CHOOSE k \in On2(n) : TRUE]
  BY <1>1, <1>6, <1>9 DEF LineOf, LinesWith
<1>16. \A n \in 1..t : On2(n) = On(n)
  <2>1. SUFFICES ASSUME NEW n \in 1..t PROVE On2(n) = On(n)
    OBVIOUS
  <2>2. x[n] = w[n] /\ w[n] # word
    BY <1>6, <1>11, <1>12
  <2>3. \A k \in 1..Len(q) : k \in 1..last
    BY <1>8
  <2>4. QED
    BY <1>8, <2>2, <2>3
<1>17. On2(t + 1) = {last}
  <2>1. x[t + 1] = word /\ last \in 1..last
    BY <1>6, <1>8
  <2>2. \A k \in 1..Len(q) : ~Contains(q[k], word)
    BY <1>11, <1>12
  <2>3. QED
    BY <1>8, <2>1, <2>2
<1> HIDE DEF On, On2
<1>18. PICK f, g : f = LineOf /\ g = LineOf'
  OBVIOUS
<1>19. /\ f = [n \in 1..t |-> f[n]] /\ g = [n \in 1..(t + 1) |-> g[n]]
       /\ \A n \in 1..t : g[n] = f[n]
       /\ g[t + 1] = last
  <2>1. f = [n \in 1..t |-> CHOOSE k \in On(n) : TRUE]
    BY <1>14, <1>18
  <2>2. g = [n \in 1..(t + 1) |-> CHOOSE k \in On2(n) : TRUE]
    BY <1>15, <1>18
  <2>3. \A n \in 1..t : n \in 1..(t + 1)
    BY <1>6
  <2>4. t + 1 \in 1..(t + 1)
    BY <1>6
  <2>5. (CHOOSE k \in On2(t + 1) : TRUE) = last
    BY <1>17
  <2>6. QED
    BY <1>16, <2>1, <2>2, <2>3, <2>4, <2>5
<1>20. Len(f) = t /\ (f = <<>> <=> t = 0) /\ g = Append(f, last)
  BY <1>6, <1>19, LongerByOne
<1>21. PlacedInv'
  <2>1. \A m : Reached(m)' <=> After(m)
    BY <1>3 DEF Reached, After
  <2>2. \A k \in 1..last : \A j \in DOMAIN r[k] : After(r[k][j])
    <3>1. ASSUME NEW k \in 1..last, NEW j \in DOMAIN r[k] PROVE After(r[k][j])
      <4>1. r[k] \in Seq(KnownWords)
        BY <1>9
      <4>2. r[k][j] \in KnownWords /\ Contains(r[k], r[k][j])
        BY <4>1 DEF Contains
      <4>3. Before(r[k][j]) \/ r[k][j] = word
        BY <1>8, <1>11, <4>2
      <4>4. QED
        BY <1>12, <1>13, <4>2, <4>3
    <3>2. QED
      BY <3>1
  <2>3. \A n \in 1..(t + 1) : After(x[n])
    <3>1. \A n \in 1..(t + 1) : n \in 1..t \/ n = t + 1
      BY <1>6
    <3>2. \A n \in 1..t : w[n] \in KnownWords
      BY <1>4, <1>5
    <3>3. QED
      BY <1>6, <1>11, <1>12, <1>13, <3>1, <3>2
  <2>4. Flow!LastBox' = last
    <3>1. /\ Flow!LastBox' = IF g = <<>> THEN 0 ELSE g[Len(g)]
      BY <1>18 DEF Flow!LastBox
    <3>2. Len(g) = t + 1 /\ g # <<>>
      <4>1. g \in Seq({g[n] : n \in 1..(t + 1)}) /\ Len(g) = t + 1
        BY <1>6, <1>19
      <4>2. QED
        BY <1>6, <4>1
    <3>3. QED
      BY <1>19, <3>1, <3>2
  <2>5. QED
    BY <1>1, <1>6, <1>7, <1>9, <2>1, <2>2, <2>3, <2>4 DEF PlacedInv
<1>22. QED
  BY <1>1, <1>5, <1>6, <1>7, <1>18, <1>20, <1>21

\* A round that takes a word is a step of Flow.
LEMMA WrapFlows == WrapInv /\ PlacedInv /\ (JoinLine \/ BreakLine) => Flow!Next /\ PlacedInv'
<1> SUFFICES ASSUME WrapInv, PlacedInv, JoinLine \/ BreakLine PROVE Flow!Next /\ PlacedInv'
  OBVIOUS
<1>1. /\ TypeOK /\ CurrentWordsInv /\ CurrentRoomInv
      /\ Taking /\ paragraphs' = paragraphs /\ returned' = returned
  BY DEF WrapInv, JoinLine, BreakLine
<1>2. ~returned
  BY <1>1 DEF TypeOK, Taking
<1>3. PICK q, r, word, items : /\ q = LinesSoFar /\ r = LinesSoFar' /\ word = Word
                               /\ items = FlattenSeq(paragraphs)
  OBVIOUS
<1>4. /\ q \in Seq(Seq(KnownWords)) /\ r \in Seq(Seq(KnownWords)) /\ word \in KnownWords
      /\ currentLine # <<>> /\ JoinLine =>
            /\ JoinsLine(q, word, r) /\ Last(q) = currentLine
            /\ Last(r) = Append(currentLine, word)
      /\ currentLine = <<>> \/ BreakLine =>
            OpensLine(q, word, r) /\ Last(r) = <<word>>
  BY <1>3, TakenOnLine
<1>5. /\ LineOf' = Append(LineOf, Len(r))
      /\ Len(LineOf) = Len(TakenWords) /\ Len(TakenWords) \in Nat
      /\ LineOf = <<>> <=> Len(TakenWords) = 0
      /\ PlacedInv'
  BY <1>3, WrapPlaces
<1>6. /\ Len(TakenWords) < Len(items)
      /\ items[Len(TakenWords) + 1] = Width(word)
      /\ TakenWords \in Seq(KnownWords)
  BY <1>1, <1>3, WordsAreItems
<1>7. Flow!Placing
  BY <1>1, <1>2, <1>3, <1>5, <1>6 DEF Flow!Placing
<1>8. Flow!NextSize = Width(word)
  BY <1>3, <1>5, <1>6 DEF Flow!NextSize
<1>9. Flow!LastBox = Len(q)
  BY <1>3 DEF PlacedInv
<1>10. /\ Width(word) \in Nat /\ MaxWidth \in Nat /\ BlankWidth \in Nat
       /\ WidthIn(paragraphs, <<word>>) = Width(word)
  <2>1. MeasureTextWidth(<<word>>) = Width(word) /\ Width(word) \in Nat
    <3>1. <<>> \in Seq(KnownWords)
      OBVIOUS
    <3>2. QED
      BY <1>1, <1>4, <3>1, WidthGrows
  <2>2. QED
    BY <2>1, WidthsAssumption DEF MeasureTextWidth
<1>11. r # <<>> /\ RoomOnLine' = MaxWidth - WidthIn(paragraphs, Last(r))
  <2>1. Len(r) \in Nat \ {0}
    <3>1. OpensLine(q, word, r) \/ JoinsLine(q, word, r)
      <4>1. currentLine = <<>> \/ currentLine # <<>>
        OBVIOUS
      <4>2. QED
        BY <1>4, <4>1
    <3>2. QED
      BY <1>4, <3>1, WordsOnLines
  <2>2. r # <<>>
    BY <2>1
  <2>3. RoomOnLine' = IF r = <<>> THEN 0 ELSE MaxWidth - WidthIn(paragraphs', Last(r))
    BY <1>3 DEF RoomOnLine, MeasureTextWidth, Last
  <2>4. QED
    BY <1>1, <2>2, <2>3
<1>12. CASE currentLine = <<>> \/ BreakLine
  <2>1. OpensLine(q, word, r) /\ Last(r) = <<word>>
    BY <1>4, <1>12
  <2>2. Len(r) = Len(q) + 1
    BY <1>4, <2>1, WordsOnLines
  <2>3. RoomOnLine' = MaxWidth - Width(word)
    BY <1>10, <1>11, <2>1
  <2>4. Flow!Open
    BY <1>5, <1>7, <1>8, <1>9, <2>2, <2>3 DEF Flow!Open
  <2>5. QED
    BY <1>5, <2>4 DEF Flow!Next
<1>13. CASE currentLine # <<>> /\ JoinLine
  <2>1. /\ JoinsLine(q, word, r) /\ Last(q) = currentLine
        /\ Last(r) = Append(currentLine, word)
    BY <1>4, <1>13
  <2>2. q # <<>> /\ Len(r) = Len(q)
    BY <2>1 DEF JoinsLine
  <2>3. currentLine \in Seq(KnownWords)
    BY <1>1 DEF TypeOK
  <2>4. PICK width : width = MeasureTextWidth(currentLine)
    OBVIOUS
  <2>5. /\ width \in Int
        /\ MeasureTextWidth(Append(currentLine, word)) = width + BlankWidth + Width(word)
    BY <1>1, <1>4, <1>13, <2>3, <2>4, WidthGrows, WidthType
  <2>6. RoomOnLine = MaxWidth - width
    BY <1>3, <2>1, <2>2, <2>4 DEF RoomOnLine
  <2>7. RoomOnLine' = MaxWidth - (width + BlankWidth + Width(word))
    BY <1>11, <2>1, <2>5 DEF MeasureTextWidth
  <2>8. width + BlankWidth + Width(word) <= MaxWidth
    <3>1. ~isFirstWord /\ WordFits
      BY <1>1, <1>13 DEF TypeOK, JoinLine
    <3>2. QED
      BY <1>3, <2>5, <3>1 DEF WordFits
  <2>9. BlankWidth + Width(word) <= RoomOnLine
        /\ RoomOnLine' = RoomOnLine - BlankWidth - Width(word)
    BY <1>10, <2>5, <2>6, <2>7, <2>8
  <2>10. LineOf # <<>>
    <3>1. Flow!LastBox # 0
      <4>1. Len(q) # 0
        BY <1>4, <2>2
      <4>2. QED
        BY <1>9, <4>1
    <3>2. QED
      BY <3>1 DEF Flow!LastBox
  <2>11. Flow!Join
    BY <1>5, <1>7, <1>8, <1>9, <2>2, <2>9, <2>10 DEF Flow!Join
  <2>12. QED
    BY <1>5, <2>11 DEF Flow!Next
<1>14. QED
  BY <1>12, <1>13

\* The end of a paragraph closes its last line and moves no word.
LEMMA ParagraphEndStutters ==
    WrapInv /\ PlacedInv /\ EndParagraph => UNCHANGED Flow!flowVars /\ PlacedInv'
<1> SUFFICES ASSUME WrapInv, PlacedInv, EndParagraph
             PROVE  UNCHANGED Flow!flowVars /\ PlacedInv'
  OBVIOUS
<1>1. /\ TypeOK /\ InParagraph /\ taken = Len(paragraphs[paragraph])
      /\ result' = IF currentLine # <<>> THEN Append(result, Line(currentLine, TRUE))
                                         ELSE result
      /\ currentLine' = <<>> /\ paragraph' = paragraph + 1 /\ taken' = 0
      /\ paragraphs' = paragraphs /\ returned' = returned
  BY DEF WrapInv, EndParagraph
<1>2. TakenWords' = TakenWords
  BY <1>1, NoMoreTaken
<1>3. PICK c, old, new, line : /\ c = currentLine /\ old = result /\ new = result'
                               /\ line = Line(c, TRUE)
  OBVIOUS
<1>4. PICK R, R2 : /\ R = [k \in DOMAIN old |-> old[k].words]
                   /\ R2 = [k \in DOMAIN new |-> new[k].words]
  OBVIOUS
<1> DEFINE T == Seq(KnownWords)
<1>5. /\ R \in Seq(T)
      /\ LinesSoFar = IF c = <<>> THEN R ELSE Append(R, c)
      /\ LinesSoFar \in Seq(T)
  BY <1>1, <1>3, <1>4, LinesType
<1> HIDE DEF T
<1>6. R2 = LinesSoFar
  <2>1. CASE c = <<>>
    <3>1. new = old
      BY <1>1, <1>3, <2>1
    <3>2. QED
      BY <1>4, <1>5, <2>1, <3>1
  <2>2. CASE c # <<>>
    <3>1. new = Append(old, line)
      BY <1>1, <1>3, <2>2
    <3>2. old \in Seq(LinesOf(KnownWords)) /\ line \in LinesOf(KnownWords) /\ line.words = c
      <4>1. c \in Seq(KnownWords) /\ old \in Seq(LinesOf(KnownWords))
        BY <1>1, <1>3, StateTypes
      <4>2. QED
        BY <1>3, <2>2, <4>1 DEF Line, LinesOf
    <3>3. Len(old) \in Nat /\ DOMAIN old = 1..Len(old)
      BY <3>2
    <3>4. /\ Len(new) = Len(old) + 1 /\ new[Len(old) + 1] = line
          /\ \A k \in 1..Len(old) : new[k] = old[k]
          /\ new \in Seq(LinesOf(KnownWords))
      <4> DEFINE U == LinesOf(KnownWords)
      <4>1. old \in Seq(U) /\ line \in U
        BY <3>2
      <4> HIDE DEF U
      <4>2. QED
        BY <3>1, <4>1 DEF U
    <3>5. DOMAIN new = 1..(Len(old) + 1)
      BY <3>4
    <3>6. R = [k \in 1..Len(old) |-> R[k]] /\ R2 = [k \in 1..(Len(old) + 1) |-> R2[k]]
      BY <1>4, <3>3, <3>5
    <3>7. \A k \in 1..Len(old) : R2[k] = R[k]
      <4>1. \A k \in 1..Len(old) : k \in 1..(Len(old) + 1)
        BY <3>3
      <4>2. QED
        BY <1>4, <3>3, <3>4, <3>5, <4>1
    <3>8. R2[Len(old) + 1] = c
      <4>1. Len(old) + 1 \in 1..(Len(old) + 1)
        BY <3>3
      <4>2. QED
        BY <1>4, <3>2, <3>4, <3>5, <4>1
    <3>9. R2 = Append(R, R2[Len(old) + 1])
      BY <3>3, <3>6, <3>7, LongerByOne
    <3>10. QED
      BY <1>5, <2>2, <3>8, <3>9
  <2>3. QED
    BY <2>1, <2>2
<1>7. LinesSoFar' = LinesSoFar
  <2>1. LinesSoFar' = R2 \o <<>>
    BY <1>1, <1>3, <1>4 DEF LinesSoFar
  <2>2. R2 \o <<>> = R2
    BY <1>5, <1>6
  <2>3. QED
    BY <1>6, <2>1, <2>2
<1>8. LineOf' = LineOf
  BY <1>2, <1>7 DEF LineOf, LinesWith
<1>9. RoomOnLine' = RoomOnLine
  BY <1>1, <1>7 DEF RoomOnLine, MeasureTextWidth
<1>10. UNCHANGED Flow!flowVars
  BY <1>1, <1>8, <1>9 DEF Flow!flowVars
<1>11. PlacedInv'
  <2>1. \A m \in KnownWords : Reached(m) => Reached(m)'
    <3>1. \A m \in KnownWords : m[1] \in Nat /\ m[2] \in Nat
      BY DEF KnownWords
    <3>2. paragraph \in Nat
      BY <1>1 DEF TypeOK
    <3>3. QED
      BY <1>1, <3>1, <3>2 DEF Reached
  <2>2. \A k \in DOMAIN LinesSoFar : \A j \in DOMAIN LinesSoFar[k] :
            LinesSoFar[k][j] \in KnownWords
    <3>1. ASSUME NEW k \in DOMAIN LinesSoFar, NEW j \in DOMAIN LinesSoFar[k]
          PROVE  LinesSoFar[k][j] \in KnownWords
      <4>1. LinesSoFar[k] \in T
        BY <1>5
      <4>2. PICK one : one = LinesSoFar[k]
        OBVIOUS
      <4>3. one \in Seq(KnownWords) /\ j \in DOMAIN one
        BY <4>1, <4>2 DEF T
      <4>4. one[j] \in KnownWords
        BY <4>3
      <4>5. QED
        BY <4>2, <4>4
    <3>2. QED
      BY <3>1
  <2>3. \A n \in DOMAIN TakenWords : TakenWords[n] \in KnownWords
    <3>1. TakenWords \in Seq(KnownWords)
      BY <1>1, WordsAreItems DEF WrapInv
    <3>2. QED
      BY <3>1
  <2>4. Flow!LastBox' = Flow!LastBox
    BY <1>8 DEF Flow!LastBox
  <2> DEFINE Then(m) == m[1] < paragraph' \/ (m[1] = paragraph' /\ m[2] <= taken')
  <2>5. \A m : Reached(m)' <=> Then(m)
    BY DEF Reached
  <2>6. \A m \in KnownWords : Reached(m) => Then(m)
    BY <2>1, <2>5
  <2> HIDE DEF Then
  <2>7. /\ \A k \in DOMAIN LinesSoFar : \A j \in DOMAIN LinesSoFar[k] : Then(LinesSoFar[k][j])
        /\ \A n \in DOMAIN TakenWords : Then(TakenWords[n])
    BY <2>2, <2>3, <2>6 DEF PlacedInv
  <2>8. /\ \A k \in DOMAIN LinesSoFar' : \A j \in DOMAIN LinesSoFar'[k] :
              Then(LinesSoFar'[k][j])
        /\ \A n \in DOMAIN TakenWords' : Then(TakenWords'[n])
        /\ Flow!LastBox' = Len(LinesSoFar')
    BY <1>2, <1>7, <2>4, <2>7 DEF PlacedInv
  <2>9. QED
    BY <2>5, <2>8 DEF PlacedInv
<1>12. QED
  BY <1>10, <1>11

\* WrapLinesToWidth implements Flow, for all paragraphs, widths of words and widths of
\* lines: each round that takes a word puts it on the line of the word before it, if it
\* fits there, or on a new one, and the end of a paragraph moves no word.
THEOREM WrapLinesImplementsFlow == Spec => ParagraphsFlowSafely
<1>1. Init => Flow!Init /\ PlacedInv
  <2> SUFFICES ASSUME Init PROVE Flow!Init /\ PlacedInv
    OBVIOUS
  <2>1. /\ paragraph = 1 /\ taken = 0 /\ currentLine = <<>> /\ result = <<>>
        /\ returned = FALSE
    BY DEF Init
  <2>2. TypeOK /\ CurrentWordsInv
    BY WrapInit DEF WrapInv
  <2>3. FlattenSeq(paragraphs) \in Seq(Nat)
    BY <2>2, WordsAreItems
  <2>4. TakenWords = <<>>
    <3>1. [p \in 1..(paragraph - 1) |-> WordsOf(p)] = <<>>
      <4>1. 1..(paragraph - 1) = {}
        BY <2>1
      <4>2. QED
        BY <4>1
    <3>2. [n \in 1..taken |-> <<paragraph, n>>] = <<>>
      BY <2>1
    <3>3. FlattenSeq(<<>>) = <<>>
      BY DEF FlattenSeq
    <3>4. TakenWords = <<>> \o <<>>
      BY <3>1, <3>2, <3>3 DEF TakenWords
    <3>5. QED
      BY <3>4
  <2>5. LinesSoFar = <<>>
    BY <2>1 DEF LinesSoFar
  <2>6. LineOf = <<>>
    BY <2>4 DEF LineOf
  <2>7. RoomOnLine = 0
    BY <2>5 DEF RoomOnLine
  <2>8. Flow!Init
    BY <2>1, <2>3, <2>6, <2>7 DEF Flow!Init
  <2>9. Flow!LastBox = 0
    BY <2>6 DEF Flow!LastBox
  <2>10. PlacedInv
    BY <2>4, <2>5, <2>9 DEF PlacedInv
  <2>11. QED
    BY <2>8, <2>10
<1>2. WrapInv /\ PlacedInv /\ [Next]_vars => [Flow!Next]_(Flow!flowVars) /\ PlacedInv'
  <2> SUFFICES ASSUME WrapInv, PlacedInv, [Next]_vars
               PROVE  [Flow!Next]_(Flow!flowVars) /\ PlacedInv'
    OBVIOUS
  <2>1. CASE JoinLine \/ BreakLine
    BY <2>1, WrapFlows
  <2>2. CASE EndParagraph
    BY <2>2, ParagraphEndStutters
  <2>3. CASE Return \/ UNCHANGED vars
    <3>1. /\ result' = result /\ currentLine' = currentLine
          /\ paragraphs' = paragraphs /\ paragraph' = paragraph /\ taken' = taken
      BY <2>3 DEF Return, vars
    <3>2. TakenWords' = TakenWords
      BY <3>1 DEF TakenWords, WordsOf
    <3>3. LinesSoFar' = LinesSoFar
      BY <3>1 DEF LinesSoFar
    <3>4. LineOf' = LineOf
      BY <3>2, <3>3 DEF LineOf, LinesWith
    <3>5. RoomOnLine' = RoomOnLine
      BY <3>1, <3>3 DEF RoomOnLine, MeasureTextWidth
    <3>6. PlacedInv'
      <4>1. Flow!LastBox' = Flow!LastBox
        BY <3>4 DEF Flow!LastBox
      <4>2. QED
        BY <3>1, <3>2, <3>3, <4>1 DEF PlacedInv, Reached
    <3>7. CASE Return
      <4>1. ~returned /\ returned' = TRUE /\ ~InParagraph
        BY <3>7 DEF Return
      <4>2. Len(TakenWords) = Len(FlattenSeq(paragraphs)) /\ Len(TakenWords) \in Nat
            /\ DOMAIN TakenWords = 1..Len(TakenWords)
        <5>1. TypeOK /\ CurrentWordsInv
          BY DEF WrapInv
        <5>2. Len(TakenWords) = Len(FlattenSeq(paragraphs))
              /\ TakenWords \in Seq(KnownWords)
          BY <4>1, <5>1, WordsAreItems
        <5>3. QED
          BY <5>2
      <4>3. Len(LineOf) = Len(TakenWords)
        <5>1. LineOf = [n \in DOMAIN TakenWords |-> LineOf[n]]
          BY DEF LineOf
        <5>2. LineOf \in Seq({LineOf[n] : n \in DOMAIN TakenWords})
              /\ Len(LineOf) = Len(TakenWords)
          BY <4>2, <5>1
        <5>3. QED
          BY <5>2
      <4>4. Flow!End
        BY <3>1, <3>4, <3>5, <4>1, <4>2, <4>3 DEF Flow!End
      <4>5. QED
        BY <3>6, <4>4 DEF Flow!Next
    <3>8. CASE UNCHANGED vars
      <4>1. UNCHANGED Flow!flowVars
        BY <3>1, <3>4, <3>5, <3>8 DEF Flow!flowVars, vars
      <4>2. QED
        BY <3>6, <4>1
    <3>9. QED
      BY <2>3, <3>7, <3>8
  <2>4. QED
    BY <2>1, <2>2, <2>3 DEF Next
<1>3. QED
  BY <1>1, <1>2, WrapSafe, PTL DEF Spec, ParagraphsFlowSafely

=============================================================================
