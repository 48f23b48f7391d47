---------------------------- MODULE PreviewProofs ----------------------------
(***************************************************************************)
(* That the canvas shows the page, for every text, all notes, whatever     *)
(* heights are measured and however few characters fit on a line: the      *)
(* words come through the buffer, the sort and the wrap, lines and notes   *)
(* are drawn once and in order, and nothing is drawn over what is above.   *)
(*                                                                         *)
(* First, of WrapText itself: it keeps every line within its bound, keeps  *)
(* the words in order and fills the lines, for every text and every bound; *)
(* and no other way to cut the words into lines within the bound has fewer *)
(* lines.                                                                  *)
(***************************************************************************)
EXTENDS Preview, DataLemmas, TLAPS

------------------------------------------------------------------------------
\* What Append does to a sequence.
LEMMA AppendFacts ==
    ASSUME NEW S, NEW q \in Seq(S), NEW x \in S
    PROVE  /\ Append(q, x) \in Seq(S)
           /\ Append(q, x) # <<>>
           /\ Len(q) \in Nat
           /\ Len(Append(q, x)) = Len(q) + 1
           /\ Append(q, x)[Len(q) + 1] = x
           /\ \A j \in 1..Len(q) : Append(q, x)[j] = q[j]
<1>1. /\ Append(q, x) \in Seq(S) /\ Len(q) \in Nat
      /\ Len(Append(q, x)) = Len(q) + 1
      /\ Append(q, x)[Len(q) + 1] = x
  OBVIOUS
<1>2. \A j \in 1..Len(q) : Append(q, x)[j] = q[j]
  OBVIOUS
<1>3. Append(q, x) # <<>>
  <2>1. Append(q, x) = <<>> => Len(Append(q, x)) = 0
    OBVIOUS
  <2>2. QED
    BY <2>1, <1>1
<1>4. QED
  BY <1>1, <1>2, <1>3

\* A sequence that is not empty has a positive length, an empty one has none.
LEMMA LengthFacts ==
    ASSUME NEW S, NEW q \in Seq(S)
    PROVE  /\ Len(q) \in Nat
           /\ q = <<>> <=> Len(q) = 0
           /\ \A j \in 1..Len(q) : q[j] \in S
OBVIOUS

\* A word put on a line keeps the line a line; its length grows by the word, and
\* by a blank if there was anything on the line.
LEMMA AppendedLine ==
    ASSUME WrapTypeOK, NEW line \in LineType, NEW n \in 1..Len(words),
           line.length = 0 <=> line.words = <<>>
    PROVE  LET longer == AppendWord(line, n)
           IN  /\ longer \in LineType
               /\ longer.words = Append(line.words, n)
               /\ longer.words # <<>>
               /\ longer.length > 0
               /\ longer.length = IF line.words = <<>> THEN words[n]
                                  ELSE line.length + 1 + words[n]
               /\ LastWord(longer) = n
               /\ FirstWord(longer) = IF line.words = <<>> THEN n ELSE FirstWord(line)
               /\ line.words = <<>> => Len(longer.words) = 1
               /\ (Consecutive(line) /\ (line.words # <<>> => LastWord(line) = n - 1))
                      => Consecutive(longer)
<1> DEFINE longer == AppendWord(line, n)
<1>1. words \in Seq(Nat \ {0}) /\ Len(words) \in Nat
  BY LengthFacts DEF WrapTypeOK
<1>2. words[n] \in Nat \ {0} /\ n \in Nat \ {0}
  BY <1>1
<1>3. line.words \in Seq(Nat \ {0}) /\ line.length \in Nat
  BY DEF LineType
<1>4. /\ longer.words = Append(line.words, n)
      /\ longer.length = IF line.length > 0 THEN line.length + 1 + words[n]
                         ELSE words[n]
  BY DEF AppendWord
<1>5. longer \in LineType
  <2>1. Append(line.words, n) \in Seq(Nat \ {0})
    BY <1>2, <1>3
  <2>2. (IF line.length > 0 THEN line.length + 1 + words[n] ELSE words[n]) \in Nat
    BY <1>2, <1>3
  <2>3. QED
    BY <2>1, <2>2 DEF LineType, AppendWord
<1> HIDE DEF longer
<1>6. /\ longer.words # <<>> /\ Len(line.words) \in Nat
      /\ Len(longer.words) = Len(line.words) + 1
      /\ longer.words[Len(line.words) + 1] = n
      /\ \A j \in 1..Len(line.words) : longer.words[j] = line.words[j]
  <2>1. longer.words = Append(line.words, n)
    BY <1>4
  <2>2. n \in Nat \ {0} /\ line.words \in Seq(Nat \ {0})
    BY <1>2, <1>3
  <2>3. /\ Append(line.words, n) # <<>> /\ Len(line.words) \in Nat
        /\ Len(Append(line.words, n)) = Len(line.words) + 1
        /\ Append(line.words, n)[Len(line.words) + 1] = n
        /\ \A j \in 1..Len(line.words) : Append(line.words, n)[j] = line.words[j]
    <3>1. PICK w : w = line.words
      OBVIOUS
    <3>2. /\ Append(w, n) # <<>> /\ Len(w) \in Nat /\ Len(Append(w, n)) = Len(w) + 1
          /\ Append(w, n)[Len(w) + 1] = n
          /\ \A j \in 1..Len(w) : Append(w, n)[j] = w[j]
      <4>1. w \in Seq(Nat \ {0})
        BY <2>2, <3>1
      <4>2. QED
        BY <2>2, <4>1, AppendFacts
    <3>3. QED
      BY <3>1, <3>2
  <2>4. QED
    BY <2>1, <2>3
<1>7. line.words = <<>> <=> Len(line.words) = 0
  BY <1>3, LengthFacts
<1>8. /\ longer.length > 0
      /\ longer.length = IF line.words = <<>> THEN words[n]
                         ELSE line.length + 1 + words[n]
  BY <1>2, <1>3, <1>4
<1>9. LastWord(longer) = n
  BY <1>6 DEF LastWord
<1>10. FirstWord(longer) = IF line.words = <<>> THEN n ELSE FirstWord(line)
  BY <1>6, <1>7 DEF FirstWord
<1>11. line.words = <<>> => Len(longer.words) = 1
  BY <1>6, <1>7
<1>12. ASSUME Consecutive(line), line.words # <<>> => LastWord(line) = n - 1
       PROVE  Consecutive(longer)
  <2> SUFFICES ASSUME NEW j \in 1..(Len(longer.words) - 1)
               PROVE  longer.words[j + 1] = longer.words[j] + 1
    BY DEF Consecutive
  <2>1. j \in 1..Len(line.words)
    BY <1>6
  <2>2. CASE j = Len(line.words)
    <3>1. line.words[j] = n - 1
      BY <1>7, <1>12, <2>1, <2>2 DEF LastWord
    <3>2. QED
      BY <3>1, <2>1, <2>2, <1>2, <1>6
  <2>3. CASE j # Len(line.words)
    <3>1. j \in 1..(Len(line.words) - 1) /\ j + 1 \in 1..Len(line.words)
      BY <2>1, <2>3, <1>6
    <3>2. line.words[j + 1] = line.words[j] + 1
      BY <3>1, <1>12 DEF Consecutive
    <3>3. QED
      BY <3>1, <3>2, <2>1, <1>6
  <2>4. QED
    BY <2>2, <2>3
<1>13. QED
  BY <1>4, <1>5, <1>6, <1>8, <1>9, <1>10, <1>11, <1>12 DEF longer

------------------------------------------------------------------------------
\* No word is taken yet: the first line is empty, and no line is full.
Fresh ==
    /\ words \in Seq(Nat \ {0}) /\ taken = 0
    /\ currentLine = EmptyLine /\ lines = <<>> /\ wrapping = "words"

LEMMA WrapFresh == Fresh => WrapInv
<1> SUFFICES ASSUME Fresh PROVE WrapInv
  OBVIOUS
<1>1. Len(words) \in Nat
  BY LengthFacts DEF Fresh
<1>2. EmptyLine \in LineType /\ EmptyLine.words = <<>> /\ EmptyLine.length = 0
  BY DEF EmptyLine, LineType
<1>3. WrapTypeOK
  BY <1>1, <1>2 DEF Fresh, WrapTypeOK
<1>4. LinesWithinBound /\ WordsInOrder /\ LinesFilled
  BY DEF Fresh, LinesWithinBound, WordsInOrder, LinesFilled
<1>5. CurrentLineInv
  BY <1>2 DEF Fresh, CurrentLineInv, Consecutive
<1>6. QED
  BY <1>3, <1>4, <1>5 DEF WrapInv

\* So it is when WrapText begins.
LEMMA WrapInitially == WrapInit => WrapInv
<1>1. WrapInit => Fresh
  BY WrapTextsAssumption DEF WrapInit, Fresh
<1>2. QED
  BY <1>1, WrapFresh

\* Putting a line that is within the bound, in order and filled behind the full
\* lines keeps them so.
LEMMA LineAdded ==
    ASSUME WrapInv, wrapping = "words", currentLine.words # <<>>,
           lines' = Append(lines, currentLine), words' = words
    PROVE  /\ lines' \in Seq(LineType) /\ lines' # <<>>
           /\ Len(lines') = Len(lines) + 1 /\ Len(lines) \in Nat
           /\ lines'[Len(lines')] = currentLine
           /\ LinesWithinBound'
           /\ LinesFilled'
           /\ \A k \in DOMAIN lines' : Consecutive(lines'[k])
           /\ \A k \in 1..(Len(lines') - 1) :
                  FirstWord(lines'[k + 1]) = LastWord(lines'[k]) + 1
           /\ FirstWord(lines'[1]) = 1
<1>1. lines \in Seq(LineType) /\ currentLine \in LineType
  BY DEF WrapInv, WrapTypeOK
<1>2. /\ lines' \in Seq(LineType) /\ lines' # <<>>
      /\ Len(lines) \in Nat /\ Len(lines') = Len(lines) + 1
      /\ lines'[Len(lines) + 1] = currentLine
      /\ \A k \in 1..Len(lines) : lines'[k] = lines[k]
  BY <1>1, AppendFacts
<1>3. DOMAIN lines = 1..Len(lines) /\ DOMAIN lines' = 1..(Len(lines) + 1)
  BY <1>1, <1>2
<1>4. lines = <<>> <=> Len(lines) = 0
  BY <1>1, LengthFacts
<1>5. /\ Consecutive(currentLine)
      /\ currentLine.length <= MaxCharsPerLine \/ Len(currentLine.words) = 1
      /\ lines = <<>> => FirstWord(currentLine) = 1
      /\ lines # <<>> =>
            /\ FirstWord(currentLine) = LastWord(lines[Len(lines)]) + 1
            /\ lines[Len(lines)].length + 1 + words[FirstWord(currentLine)]
                 > MaxCharsPerLine
  BY DEF WrapInv, CurrentLineInv
<1>6. ASSUME NEW k \in 1..(Len(lines) + 1)
      PROVE  \/ k \in 1..Len(lines) /\ lines'[k] = lines[k]
             \/ k = Len(lines) + 1 /\ lines'[k] = currentLine
  BY <1>2
<1>7. LinesWithinBound'
  <2>1. LinesWithinBound
    BY DEF WrapInv
  <2>2. QED
    BY <2>1, <1>3, <1>5, <1>6 DEF LinesWithinBound
<1>8. \A k \in DOMAIN lines' : Consecutive(lines'[k])
  <2>1. \A k \in 1..Len(lines) : Consecutive(lines[k])
    BY <1>3 DEF WrapInv, WordsInOrder
  <2> SUFFICES ASSUME NEW k \in 1..(Len(lines) + 1)
               PROVE  Consecutive(lines'[k])
    BY <1>3
  <2>2. CASE k \in 1..Len(lines) /\ lines'[k] = lines[k]
    BY <2>1, <2>2 DEF Consecutive
  <2>3. CASE lines'[k] = currentLine
    BY <2>3, <1>5 DEF Consecutive
  <2>4. QED
    BY <2>2, <2>3, <1>6
<1>9. ASSUME NEW k \in 1..(Len(lines') - 1)
      PROVE  /\ FirstWord(lines'[k + 1]) = LastWord(lines'[k]) + 1
             /\ lines'[k].length + 1 + words[FirstWord(lines'[k + 1])]
                    > MaxCharsPerLine
  <2>1. k \in 1..Len(lines) /\ lines'[k] = lines[k] /\ lines # <<>>
    BY <1>2, <1>4
  <2>2. CASE k = Len(lines)
    <3>1. lines'[k + 1] = currentLine /\ lines'[k] = lines[Len(lines)]
      BY <2>1, <2>2, <1>2
    <3>2. QED
      BY <3>1, <2>1, <1>5 DEF FirstWord, LastWord
  <2>3. CASE k # Len(lines)
    <3>1. k \in 1..(Len(lines) - 1) /\ k + 1 \in 1..Len(lines)
      BY <2>1, <2>3, <1>2
    <3>2. lines'[k + 1] = lines[k + 1]
      BY <3>1, <1>2
    <3>3. /\ FirstWord(lines[k + 1]) = LastWord(lines[k]) + 1
          /\ lines[k].length + 1 + words[FirstWord(lines[k + 1])] > MaxCharsPerLine
      BY <3>1 DEF WrapInv, WordsInOrder, LinesFilled
    <3>4. QED
      BY <3>2, <3>3, <2>1 DEF FirstWord, LastWord
  <2>4. QED
    BY <2>2, <2>3
<1>10. LinesFilled'
  BY <1>9 DEF LinesFilled, FirstWord
<1>11. FirstWord(lines'[1]) = 1
  <2>1. CASE lines = <<>>
    <3>1. lines'[1] = currentLine
      BY <2>1, <1>2, <1>4
    <3>2. QED
      BY <2>1, <3>1, <1>5 DEF FirstWord
  <2>2. CASE lines # <<>>
    <3>1. lines'[1] = lines[1]
      BY <2>2, <1>2, <1>4
    <3>2. FirstWord(lines[1]) = 1
      BY <2>2 DEF WrapInv, WordsInOrder
    <3>3. QED
      BY <3>1, <3>2 DEF FirstWord
  <2>3. QED
    BY <2>1, <2>2
<1>12. QED
  BY <1>2, <1>7, <1>8, <1>9, <1>10, <1>11

------------------------------------------------------------------------------
\* Taking a word keeps the invariant.
LEMMA WrapTakes == WrapInv /\ TakeWord => WrapInv'
<1> SUFFICES ASSUME WrapInv, TakeWord PROVE WrapInv'
  OBVIOUS
<1> DEFINE n == taken + 1
<1> DEFINE old == IF Closes(words[n]) THEN EmptyLine ELSE currentLine
<1>1. WrapTypeOK
  BY DEF WrapInv
<1>2. /\ words \in Seq(Nat \ {0}) /\ Len(words) \in Nat
      /\ lines \in Seq(LineType) /\ Len(lines) \in Nat
      /\ currentLine \in LineType /\ taken \in Nat
      /\ wrapping = "words" /\ taken < Len(words)
      /\ wrapping' = "words" /\ words' = words /\ taken' = n
  BY <1>1, LengthFacts DEF WrapTypeOK, TakeWord
<1>3. n \in 1..Len(words) /\ taken = n - 1 /\ words[n] \in Nat \ {0}
  BY <1>2, LengthFacts
<1>4. /\ Consecutive(currentLine)
      /\ currentLine.length = 0 <=> currentLine.words = <<>>
      /\ currentLine.words = <<>> => taken = 0 /\ lines = <<>>
      /\ currentLine.words # <<>> => LastWord(currentLine) = taken
  BY <1>2 DEF WrapInv, CurrentLineInv
<1>5. currentLine.length \in Nat
  BY <1>2 DEF LineType
<1>6. /\ EmptyLine \in LineType /\ EmptyLine.words = <<>> /\ EmptyLine.length = 0
      /\ Consecutive(EmptyLine)
  BY DEF EmptyLine, LineType, Consecutive
<1>7. /\ old \in LineType
      /\ old.length = 0 <=> old.words = <<>>
      /\ Consecutive(old)
      /\ old.words # <<>> => LastWord(old) = taken
  BY <1>2, <1>4, <1>6
<1>8. currentLine' = AppendWord(old, n)
  BY DEF TakeWord
<1>9. /\ currentLine' \in LineType
      /\ currentLine'.words # <<>>
      /\ currentLine'.length > 0
      /\ currentLine'.length = IF old.words = <<>> THEN words[n]
                               ELSE old.length + 1 + words[n]
      /\ LastWord(AppendWord(old, n)) = n
      /\ FirstWord(AppendWord(old, n)) = IF old.words = <<>> THEN n ELSE FirstWord(old)
      /\ old.words = <<>> => Len(currentLine'.words) = 1
      /\ Consecutive(AppendWord(old, n))
  <2> HIDE DEF old, n
  <2>1. old.words # <<>> => LastWord(old) = n - 1
    BY <1>3, <1>7
  <2> DEFINE longer == AppendWord(old, n)
  <2>2. /\ longer \in LineType
        /\ longer.words # <<>>
        /\ longer.length > 0
        /\ longer.length = IF old.words = <<>> THEN words[n]
                           ELSE old.length + 1 + words[n]
        /\ LastWord(longer) = n
        /\ FirstWord(longer) = IF old.words = <<>> THEN n ELSE FirstWord(old)
        /\ old.words = <<>> => Len(longer.words) = 1
        /\ Consecutive(old) /\ (old.words # <<>> => LastWord(old) = n - 1)
               => Consecutive(longer)
    <3>1. /\ old \in LineType /\ n \in 1..Len(words)
          /\ old.length = 0 <=> old.words = <<>>
      BY <1>3, <1>7
    <3>2. QED
      BY <3>1, <1>1, AppendedLine, Zenon
  <2>3. Consecutive(longer)
    BY <2>1, <2>2, <1>7
  <2> HIDE DEF longer
  <2>4. currentLine' = longer
    BY <1>8 DEF longer
  <2>5. QED
    BY <2>2, <2>3, <2>4 DEF longer
<1>10. /\ LastWord(currentLine)' = n
       /\ FirstWord(currentLine)' = IF old.words = <<>> THEN n ELSE FirstWord(old)
       /\ Consecutive(currentLine)'
  <2> HIDE DEF old, n
  <2>1. QED
    BY <1>8, <1>9 DEF LastWord, FirstWord, Consecutive
<1>11. CASE Closes(words[n])
  <2>1. old = EmptyLine /\ lines' = Append(lines, currentLine)
    BY <1>11 DEF TakeWord
  <2>2. /\ currentLine.words # <<>>
        /\ currentLine.length + 1 + words[n] > MaxCharsPerLine
    BY <1>3, <1>4, <1>5, <1>11, MaxCharsPerLineAssumption DEF Closes
  <2>3. /\ lines' \in Seq(LineType) /\ lines' # <<>>
        /\ lines'[Len(lines')] = currentLine
        /\ LinesWithinBound' /\ LinesFilled'
        /\ \A k \in DOMAIN lines' : Consecutive(lines'[k])
        /\ \A k \in 1..(Len(lines') - 1) :
               FirstWord(lines'[k + 1]) = LastWord(lines'[k]) + 1
        /\ FirstWord(lines'[1]) = 1
    BY <1>2, <2>1, <2>2, LineAdded
  <2>4. WordsInOrder'
    BY <1>2, <2>3 DEF WordsInOrder, Consecutive, FirstWord, LastWord
  <2>5. CurrentLineInv'
    <3>1. /\ FirstWord(currentLine)' = n /\ LastWord(currentLine) = taken
          /\ Len(currentLine'.words) = 1
      BY <1>4, <1>6, <1>9, <1>10, <2>1, <2>2
    <3>2. FirstWord(currentLine)' = LastWord(lines'[Len(lines')]) + 1
      BY <3>1, <2>3, <1>3
    <3>3. lines'[Len(lines')].length + 1 + words'[FirstWord(currentLine)']
             > MaxCharsPerLine
      BY <3>1, <2>2, <2>3, <1>2
    <3>4. QED
      BY <3>1, <3>2, <3>3, <2>3, <1>2, <1>9, <1>10
      DEF CurrentLineInv, LastWord, FirstWord
  <2>6. WrapTypeOK'
    BY <1>2, <1>3, <1>9, <2>3 DEF WrapTypeOK
  <2>7. QED
    BY <2>3, <2>4, <2>5, <2>6 DEF WrapInv
<1>12. CASE ~Closes(words[n])
  <2>1. old = currentLine /\ lines' = lines
    BY <1>12 DEF TakeWord
  <2>2. LinesWithinBound' /\ LinesFilled' /\ WordsInOrder'
    BY <1>2, <2>1 DEF WrapInv, LinesWithinBound, LinesFilled, WordsInOrder,
                      Consecutive, FirstWord, LastWord
  <2>3. WrapTypeOK'
    BY <1>2, <1>3, <1>9, <2>1 DEF WrapTypeOK
  <2>4. currentLine'.length <= MaxCharsPerLine \/ Len(currentLine'.words) = 1
    <3>1. CASE currentLine.words = <<>>
      BY <3>1, <1>9, <2>1
    <3>2. CASE currentLine.words # <<>>
      <4>1. currentLine.length + words[n] + 1 <= MaxCharsPerLine
        BY <3>2, <1>3, <1>4, <1>5, <1>12, MaxCharsPerLineAssumption DEF Closes
      <4>2. currentLine'.length = currentLine.length + 1 + words[n]
        BY <3>2, <1>9, <2>1
      <4>3. QED
        BY <4>1, <4>2, <1>3, <1>5
    <3>3. QED
      BY <3>1, <3>2
  <2>5. CASE lines = <<>>
    <3>1. FirstWord(currentLine)' = 1
      <4>1. CASE currentLine.words = <<>>
        BY <4>1, <1>4, <1>10, <2>1
      <4>2. CASE currentLine.words # <<>>
        <5>1. FirstWord(currentLine) = 1
          BY <4>2, <2>5, <1>2 DEF WrapInv, CurrentLineInv
        <5>2. QED
          BY <4>2, <5>1, <1>10, <2>1
      <4>3. QED
        BY <4>1, <4>2
    <3>2. CurrentLineInv'
      BY <3>1, <2>1, <2>4, <2>5, <1>2, <1>9, <1>10
      DEF CurrentLineInv, FirstWord, LastWord
    <3>3. QED
      BY <3>2, <2>2, <2>3 DEF WrapInv
  <2>6. CASE lines # <<>>
    <3>1. /\ currentLine.words # <<>>
          /\ FirstWord(currentLine) = LastWord(lines[Len(lines)]) + 1
          /\ lines[Len(lines)].length + 1 + words[FirstWord(currentLine)]
               > MaxCharsPerLine
      BY <2>6, <1>2, <1>4 DEF WrapInv, CurrentLineInv
    <3>2. FirstWord(currentLine)' = FirstWord(currentLine)
      BY <3>1, <1>10, <2>1
    <3>3. CurrentLineInv'
      BY <3>1, <3>2, <2>1, <2>4, <2>6, <1>2, <1>9, <1>10
      DEF CurrentLineInv, FirstWord, LastWord
    <3>4. QED
      BY <3>3, <2>2, <2>3 DEF WrapInv
  <2>7. QED
    BY <2>5, <2>6
<1>13. QED
  BY <1>11, <1>12

\* Returning the lines keeps the invariant.
LEMMA WrapReturns == WrapInv /\ ReturnLines => WrapInv'
<1> SUFFICES ASSUME WrapInv, ReturnLines PROVE WrapInv'
  OBVIOUS
<1>1. /\ words \in Seq(Nat \ {0}) /\ Len(words) \in Nat
      /\ lines \in Seq(LineType) /\ currentLine \in LineType
      /\ currentLine.length \in Nat /\ taken \in 0..Len(words)
      /\ wrapping = "words" /\ taken = Len(words)
      /\ wrapping' = "wrapped" /\ words' = words /\ taken' = taken
      /\ currentLine' = currentLine
  BY LengthFacts DEF WrapInv, WrapTypeOK, ReturnLines, LineType
<1>2. /\ currentLine.length = 0 <=> currentLine.words = <<>>
      /\ currentLine.words = <<>> => taken = 0 /\ lines = <<>>
      /\ currentLine.words # <<>> => LastWord(currentLine) = taken
  BY <1>1 DEF WrapInv, CurrentLineInv
<1>3. CurrentLineInv'
  BY <1>1 DEF CurrentLineInv
<1>4. words = <<>> <=> Len(words) = 0
  BY <1>1, LengthFacts
<1>5. CASE currentLine.words # <<>>
  <2>1. lines' = Append(lines, currentLine)
    BY <1>1, <1>2, <1>5 DEF ReturnLines
  <2>2. /\ lines' \in Seq(LineType) /\ lines' # <<>>
        /\ lines'[Len(lines')] = currentLine
        /\ LinesWithinBound' /\ LinesFilled'
        /\ \A k \in DOMAIN lines' : Consecutive(lines'[k])
        /\ \A k \in 1..(Len(lines') - 1) :
               FirstWord(lines'[k + 1]) = LastWord(lines'[k]) + 1
        /\ FirstWord(lines'[1]) = 1
    BY <1>1, <1>5, <2>1, LineAdded
  <2>3. words # <<>>
    <3>1. currentLine.words \in Seq(Nat \ {0}) /\ LastWord(currentLine) = taken
      BY <1>1, <1>2, <1>5 DEF LineType
    <3>2. LastWord(currentLine) \in Nat \ {0}
      BY <3>1, <1>5, LengthFacts DEF LastWord
    <3>3. QED
      BY <3>1, <3>2, <1>1, <1>4
  <2>4. LastWord(lines'[Len(lines')]) = Len(words')
    BY <1>1, <1>2, <1>5, <2>2
  <2>5. WordsInOrder'
    BY <1>1, <2>2, <2>3, <2>4 DEF WordsInOrder, Consecutive, FirstWord, LastWord
  <2>6. WrapTypeOK'
    BY <1>1, <2>2 DEF WrapTypeOK
  <2>7. QED
    BY <1>3, <2>2, <2>5, <2>6 DEF WrapInv
<1>6. CASE currentLine.words = <<>>
  <2>1. lines' = lines /\ lines = <<>> /\ words = <<>>
    BY <1>1, <1>2, <1>4, <1>6 DEF ReturnLines
  <2>2. LinesWithinBound' /\ LinesFilled' /\ WordsInOrder'
    BY <1>1, <2>1 DEF LinesWithinBound, LinesFilled, WordsInOrder
  <2>3. WrapTypeOK'
    BY <1>1, <2>1 DEF WrapTypeOK
  <2>4. QED
    BY <1>3, <2>2, <2>3 DEF WrapInv
<1>7. QED
  BY <1>5, <1>6

\* A step that changes nothing keeps the invariant.
LEMMA WrapStutters == WrapInv /\ UNCHANGED wrapVars => WrapInv'
<1> SUFFICES ASSUME WrapInv, UNCHANGED wrapVars PROVE WrapInv'
  OBVIOUS
<1>1. /\ words' = words /\ taken' = taken /\ currentLine' = currentLine
      /\ lines' = lines /\ wrapping' = wrapping
  BY DEF wrapVars
<1>2. WrapTypeOK' /\ LinesWithinBound' /\ LinesFilled'
  BY <1>1 DEF WrapInv, WrapTypeOK, LinesWithinBound, LinesFilled, FirstWord
<1>3. WordsInOrder'
  BY <1>1 DEF WrapInv, WordsInOrder, Consecutive, FirstWord, LastWord
<1>4. CurrentLineInv'
  BY <1>1 DEF WrapInv, CurrentLineInv, Consecutive, FirstWord, LastWord
<1>5. QED
  BY <1>2, <1>3, <1>4 DEF WrapInv

------------------------------------------------------------------------------
\* At every round of WrapText's loop, and when it has returned.
THEOREM WrapSafe == WrapSpec => []WrapInv
<1>1. WrapInv /\ [WrapNext]_wrapVars => WrapInv'
  BY WrapTakes, WrapReturns, WrapStutters DEF WrapNext
<1>2. QED
  BY WrapInitially, <1>1, PTL DEF WrapSpec

\* WrapText makes no line longer than its bound, unless it is a single word, and
\* no empty line.
THEOREM LinesStayWithinBound == WrapSpec => []LinesWithinBound
<1>1. WrapInv => LinesWithinBound
  BY DEF WrapInv
<1>2. QED
  BY WrapSafe, <1>1, PTL

\* WrapText loses, doubles and moves no word.
THEOREM WordsStayInOrder == WrapSpec => []WordsInOrder
<1>1. WrapInv => WordsInOrder
  BY DEF WrapInv
<1>2. QED
  BY WrapSafe, <1>1, PTL

\* WrapText closes a line only when the next word does not fit on it.
THEOREM LinesAreFilled == WrapSpec => []LinesFilled
<1>1. WrapInv => LinesFilled
  BY DEF WrapInv
<1>2. QED
  BY WrapSafe, <1>1, PTL

\* WrapText's lines are the greedy wrap of its words, at every round.
THEOREM WrapIsGreedy == WrapSpec => []WrappedGreedily
<1>1. WrapInv => WrappedGreedily
  BY DEF WrapInv, WrappedGreedily
<1>2. QED
  BY WrapSafe, <1>1, PTL

------------------------------------------------------------------------------
\* The lines are measured.

\* What the sums of the lengths of a text's words are.
LEMMA WordSums ==
    ASSUME WrapTypeOK
    PROVE  /\ RunningSum(words) \in [0..Len(words) -> Nat]
           /\ \A n \in 1..Len(words) :
                  RunningSum(words)[n] = RunningSum(words)[n - 1] + words[n]
           /\ \A i, j \in 0..Len(words) :
                  i <= j => RunningSum(words)[i] <= RunningSum(words)[j]
<1>1. words \in Seq(Nat \ {0})
  BY DEF WrapTypeOK
<1>2. words \in Seq(Nat)
  BY <1>1
<1>3. QED
  BY <1>2, RunningSumFacts, RunningSumGrows

\* A run of one word has its length, and a run grows by a word and a blank.
LEMMA RunLengths ==
    ASSUME WrapTypeOK, NEW n \in 1..Len(words)
    PROVE  /\ RunLength(n - 1, n) = words[n]
           /\ \A i \in 0..(n - 1) :
                 i < n - 1 => RunLength(i, n) = RunLength(i, n - 1) + 1 + words[n]
<1>1. /\ RunningSum(words) \in [0..Len(words) -> Nat]
      /\ RunningSum(words)[n] = RunningSum(words)[n - 1] + words[n]
  BY WordSums
<1>2. Len(words) \in Nat /\ words[n] \in Nat /\ n \in Nat /\ n - 1 \in 0..Len(words)
      /\ n \in 0..Len(words)
  <2>1. words \in Seq(Nat \ {0})
    BY DEF WrapTypeOK
  <2>2. Len(words) \in Nat /\ words[n] \in Nat
    BY <2>1
  <2>3. QED
    BY <2>2
<1>3. RunningSum(words)[n] \in Nat /\ RunningSum(words)[n - 1] \in Nat
  BY <1>1, <1>2
<1>4. ASSUME NEW i \in 0..(n - 1)
      PROVE  RunningSum(words)[i] \in Nat /\ i \in Nat
  <2>1. i \in 0..Len(words)
    BY <1>2
  <2>2. QED
    BY <1>1, <2>1
<1>5. \A a, b, c, w, i \in Int :
          b = a + w => /\ b - a + (n - (n - 1) - 1) = w
                       /\ b - c + (n - i - 1) = a - c + ((n - 1) - i - 1) + 1 + w
  BY <1>2
<1>6. RunLength(n - 1, n) = words[n]
  BY <1>1, <1>2, <1>3, <1>5 DEF RunLength
<1>7. ASSUME NEW i \in 0..(n - 1)
      PROVE  RunLength(i, n) = RunLength(i, n - 1) + 1 + words[n]
  <2> DEFINE a == RunningSum(words)[n - 1]
             b == RunningSum(words)[n]
             c == RunningSum(words)[i]
             w == words[n]
  <2>1. RunLength(i, n) = b - c + (n - i - 1)
        /\ RunLength(i, n - 1) = a - c + ((n - 1) - i - 1)
    BY DEF RunLength
  <2>2. a \in Int /\ b \in Int /\ c \in Int /\ w \in Int /\ i \in Int /\ b = a + w
    BY <1>1, <1>2, <1>3, <1>4
  <2> HIDE DEF a, b, c, w
  <2>3. b - c + (n - i - 1) = a - c + ((n - 1) - i - 1) + 1 + w
    BY <1>5, <2>2
  <2>4. QED
    BY <2>1, <2>3 DEF w
<1>8. QED
  BY <1>6, <1>7

\* A line that is changed by no step stays measured while words are taken.
LEMMA StaysMeasured ==
    ASSUME WrapTypeOK, NEW line, Measured(line)
    PROVE  \A t \in Nat : taken <= t =>
               /\ FirstWord(line) \in 1..LastWord(line) /\ LastWord(line) \in 1..t
               /\ line.length = RunLength(FirstWord(line) - 1, LastWord(line))
<1>1. taken \in Nat
  BY LengthFacts DEF WrapTypeOK
<1>2. \A t \in Nat : taken <= t => \A x \in 1..taken : x \in 1..t
  BY <1>1
<1>3. QED
  BY <1>2 DEF Measured

\* Taking a word keeps the lines measured.
LEMMA MeasuredTakes == WrapInv /\ LinesMeasured /\ TakeWord => LinesMeasured'
<1> SUFFICES ASSUME WrapInv, LinesMeasured, TakeWord PROVE LinesMeasured'
  OBVIOUS
<1>1. WrapTypeOK /\ WrapTypeOK'
  BY WrapTakes DEF WrapInv
<1>2. PICK n : n = taken + 1
  OBVIOUS
<1>3. /\ words \in Seq(Nat \ {0}) /\ Len(words) \in Nat /\ taken \in Nat
      /\ wrapping = "words" /\ wrapping' = "words" /\ words' = words /\ taken' = n
      /\ n \in 1..Len(words) /\ taken = n - 1 /\ taken <= n /\ n \in Nat
  BY <1>1, <1>2, LengthFacts DEF WrapTypeOK, TakeWord
<1>4. /\ currentLine \in LineType /\ lines \in Seq(LineType) /\ lines' \in Seq(LineType)
      /\ currentLine.length = 0 <=> currentLine.words = <<>>
      /\ currentLine.words # <<>> => LastWord(currentLine) = taken
  BY <1>1, <1>3 DEF WrapTypeOK, WrapInv, CurrentLineInv
<1> DEFINE Good(line) ==
              /\ FirstWord(line) \in 1..LastWord(line) /\ LastWord(line) \in 1..n
              /\ line.length = RunLength(FirstWord(line) - 1, LastWord(line))
<1>5. ASSUME NEW line, Measured(line)
      PROVE  Good(line)
  BY <1>1, <1>3, <1>5, StaysMeasured
<1>a. ASSUME \A k \in DOMAIN lines' : Good(lines'[k]), Measured(currentLine)'
      PROVE  LinesMeasured'
  BY <1>3, <1>a DEF LinesMeasured, Measured, RunLength, FirstWord, LastWord
<1> HIDE DEF Good
<1>6. ASSUME NEW line \in LineType, line.length = 0 <=> line.words = <<>>,
             line.words # <<>> => LastWord(line) = taken /\ Measured(line),
             currentLine' = AppendWord(line, n)
      PROVE  Measured(currentLine)'
  <2>1. /\ currentLine'.length = IF line.words = <<>> THEN words[n]
                                 ELSE line.length + 1 + words[n]
        /\ LastWord(AppendWord(line, n)) = n
        /\ FirstWord(AppendWord(line, n)) = IF line.words = <<>> THEN n ELSE FirstWord(line)
    BY <1>1, <1>3, <1>6, AppendedLine
  <2>2. LastWord(currentLine)' = n
        /\ FirstWord(currentLine)' = IF line.words = <<>> THEN n ELSE FirstWord(line)
    BY <1>6, <2>1 DEF LastWord, FirstWord
  <2>3. /\ RunLength(n - 1, n) = words[n]
        /\ \A i \in 0..(n - 1) :
              i < n - 1 => RunLength(i, n) = RunLength(i, n - 1) + 1 + words[n]
    BY <1>1, <1>3, RunLengths
  <2>4. CASE line.words = <<>>
    <3>1. currentLine'.length = RunLength(n - 1, n) /\ n \in 1..n
      BY <1>3, <2>1, <2>3, <2>4
    <3>2. QED
      BY <1>3, <2>2, <2>4, <3>1 DEF Measured, RunLength
  <2>5. CASE line.words # <<>>
    <3>1. PICK f : f = FirstWord(line)
      OBVIOUS
    <3>2. f \in 1..(n - 1) /\ line.length = RunLength(f - 1, n - 1)
      BY <1>3, <1>6, <2>5, <3>1 DEF Measured
    <3>3. f - 1 \in 0..(n - 1) /\ f - 1 < n - 1 /\ f \in 1..n /\ n \in 1..n
      BY <3>2, <1>3
    <3>4. currentLine'.length = RunLength(f - 1, n)
      BY <2>1, <2>3, <2>5, <3>2, <3>3
    <3>5. QED
      BY <1>3, <2>2, <2>5, <3>1, <3>3, <3>4 DEF Measured, RunLength
  <2>6. QED
    BY <2>4, <2>5
<1>7. /\ EmptyLine \in LineType /\ EmptyLine.words = <<>> /\ EmptyLine.length = 0
  BY DEF EmptyLine, LineType
<1>8. CASE Closes(words[n])
  <2>1. lines' = Append(lines, currentLine) /\ currentLine' = AppendWord(EmptyLine, n)
    BY <1>2, <1>8 DEF TakeWord
  <2>2. currentLine.words # <<>>
    <3>1. currentLine.length \in Nat
      BY <1>4 DEF LineType
    <3>2. QED
      BY <1>4, <1>8, <3>1 DEF Closes
  <2>3. Measured(currentLine)
    BY <1>3, <2>2 DEF LinesMeasured
  <2>4. Measured(currentLine)'
    BY <1>6, <1>7, <2>1
  <2>5. ASSUME NEW k \in DOMAIN lines'
        PROVE  Good(lines'[k])
    <3>1. \/ k \in DOMAIN lines /\ lines'[k] = lines[k]
          \/ lines'[k] = currentLine
      BY <1>4, <2>1
    <3>2. QED
      BY <1>5, <2>3, <3>1 DEF LinesMeasured
  <2>6. QED
    BY <1>a, <2>4, <2>5
<1>9. CASE ~Closes(words[n])
  <2>1. lines' = lines /\ currentLine' = AppendWord(currentLine, n)
    BY <1>2, <1>9 DEF TakeWord
  <2>2. currentLine.words # <<>> => Measured(currentLine)
    BY <1>3 DEF LinesMeasured
  <2>3. Measured(currentLine)'
    BY <1>4, <1>6, <2>1, <2>2
  <2>4. ASSUME NEW k \in DOMAIN lines'
        PROVE  Good(lines'[k])
    BY <1>5, <2>1 DEF LinesMeasured
  <2>5. QED
    BY <1>a, <2>3, <2>4
<1>10. QED
  BY <1>8, <1>9

\* The lines are measured at every round.
LEMMA MeasuredStep == WrapInv /\ LinesMeasured /\ [WrapNext]_wrapVars => LinesMeasured'
<1> SUFFICES ASSUME WrapInv, LinesMeasured, [WrapNext]_wrapVars PROVE LinesMeasured'
  OBVIOUS
<1>1. CASE TakeWord
  BY <1>1, MeasuredTakes
<1>2. CASE ReturnLines
  <2>1. /\ lines \in Seq(LineType) /\ currentLine \in LineType
        /\ wrapping = "words" /\ wrapping' = "wrapped" /\ words' = words /\ taken' = taken
        /\ currentLine.length = 0 <=> currentLine.words = <<>>
    BY <1>2 DEF WrapInv, WrapTypeOK, CurrentLineInv, ReturnLines
  <2>2. \/ lines' = lines
        \/ lines' = Append(lines, currentLine) /\ currentLine.words # <<>>
    <3>1. currentLine.length \in Nat
      BY <2>1 DEF LineType
    <3>2. QED
      BY <1>2, <2>1, <3>1 DEF ReturnLines
  <2>3. \A k \in DOMAIN lines' :
            \/ k \in DOMAIN lines /\ lines'[k] = lines[k]
            \/ lines'[k] = currentLine /\ currentLine.words # <<>>
    BY <2>1, <2>2
  <2> DEFINE Good(line) ==
                /\ FirstWord(line) \in 1..LastWord(line) /\ LastWord(line) \in 1..taken
                /\ line.length = RunLength(FirstWord(line) - 1, LastWord(line))
  <2>4. ASSUME NEW k \in DOMAIN lines' PROVE Good(lines'[k])
    BY <2>1, <2>3 DEF LinesMeasured, Measured
  <2>5. QED
    BY <2>1, <2>4 DEF LinesMeasured, Measured, RunLength, FirstWord, LastWord
<1>3. CASE UNCHANGED wrapVars
  BY <1>3 DEF wrapVars, LinesMeasured, Measured, RunLength, FirstWord, LastWord
<1>4. QED
  BY <1>1, <1>2, <1>3 DEF WrapNext

\* Every line is as long as its words and the blanks between them.
THEOREM LengthsAreMeasured == WrapSpec => [](WrapInv /\ LinesMeasured)
<1>1. WrapInv /\ LinesMeasured /\ [WrapNext]_wrapVars => (WrapInv /\ LinesMeasured)'
  BY MeasuredStep, WrapTakes, WrapReturns, WrapStutters DEF WrapNext
<1>2. WrapInit => WrapInv /\ LinesMeasured
  <2>1. WrapInit => LinesMeasured
    BY DEF WrapInit, EmptyLine, LinesMeasured
  <2>2. QED
    BY <2>1, WrapInitially
<1>3. QED
  BY <1>1, <1>2, PTL DEF WrapSpec

------------------------------------------------------------------------------
\* WrapText's lines are as few as they can be.

\* What the result is: lines that follow each other, each filled as far as the
\* words let it.
LEMMA LinesAreGreedy ==
    ASSUME WrapInv, LinesMeasured, wrapping = "wrapped", lines # <<>>
    PROVE  /\ Len(lines) \in Nat \ {0} /\ Len(words) \in Nat
           /\ \A k \in 1..Len(lines) :
                 /\ LastWord(lines[k]) \in 1..Len(words)
                 /\ (IF k = 1 THEN 0 ELSE LastWord(lines[k - 1])) < LastWord(lines[k])
                 /\ lines[k].length =
                       RunLength(IF k = 1 THEN 0 ELSE LastWord(lines[k - 1]),
                                 LastWord(lines[k]))
           /\ LastWord(lines[Len(lines)]) = Len(words)
           /\ \A k \in 1..(Len(lines) - 1) :
                 /\ LastWord(lines[k]) + 1 \in 1..Len(words)
                 /\ lines[k].length + 1 + words[LastWord(lines[k]) + 1] > MaxCharsPerLine
<1> DEFINE P == Len(lines)
           L == Len(words)
<1>1. /\ lines \in Seq(LineType) /\ P \in Nat \ {0} /\ DOMAIN lines = 1..P
      /\ words \in Seq(Nat \ {0}) /\ L \in Nat /\ taken \in 0..L
  BY LengthFacts DEF WrapInv, WrapTypeOK
<1>2. /\ \A k \in 1..(P - 1) : FirstWord(lines[k + 1]) = LastWord(lines[k]) + 1
      /\ FirstWord(lines[1]) = 1
  BY DEF WrapInv, WordsInOrder
<1>3. \A k \in 1..P :
          /\ FirstWord(lines[k]) \in 1..LastWord(lines[k])
          /\ LastWord(lines[k]) \in 1..taken
          /\ lines[k].length = RunLength(FirstWord(lines[k]) - 1, LastWord(lines[k]))
  BY <1>1 DEF LinesMeasured, Measured
<1>4. \A k \in 1..P : LastWord(lines[k]) \in 1..L
  BY <1>1, <1>3
<1>5. LastWord(lines[P]) = L
  <2>1. words # <<>>
    <3>1. P \in 1..P
      BY <1>1
    <3>2. LastWord(lines[P]) \in 1..L
      BY <3>1, <1>4
    <3>3. QED
      BY <3>2, <1>1, LengthFacts
  <2>2. QED
    BY <2>1 DEF WrapInv, WordsInOrder
<1>6. ASSUME NEW k \in 1..P
      PROVE  /\ (IF k = 1 THEN 0 ELSE LastWord(lines[k - 1])) < LastWord(lines[k])
             /\ lines[k].length =
                   RunLength(IF k = 1 THEN 0 ELSE LastWord(lines[k - 1]),
                             LastWord(lines[k]))
  <2>1. FirstWord(lines[k]) - 1 = IF k = 1 THEN 0 ELSE LastWord(lines[k - 1])
    <3>1. CASE k = 1
      BY <3>1, <1>2
    <3>2. CASE k # 1
      <4>1. k - 1 \in 1..(P - 1) /\ k - 1 \in 1..P /\ (k - 1) + 1 = k
        BY <3>2, <1>1
      <4>2. FirstWord(lines[k]) = LastWord(lines[k - 1]) + 1
            /\ LastWord(lines[k - 1]) \in 1..L
        BY <4>1, <1>2, <1>4
      <4>3. QED
        BY <3>2, <4>2
    <3>3. QED
      BY <3>1, <3>2
  <2>2. FirstWord(lines[k]) - 1 < LastWord(lines[k])
    BY <1>3, <1>4
  <2>3. QED
    BY <1>3, <2>1, <2>2
<1>7. ASSUME NEW k \in 1..(P - 1)
      PROVE  /\ LastWord(lines[k]) + 1 \in 1..L
             /\ lines[k].length + 1 + words[LastWord(lines[k]) + 1] > MaxCharsPerLine
  <2>1. k + 1 \in 1..P
    BY <1>1
  <2>2. FirstWord(lines[k + 1]) \in 1..LastWord(lines[k + 1])
        /\ LastWord(lines[k + 1]) \in 1..L
    BY <2>1, <1>3, <1>4
  <2>3. FirstWord(lines[k + 1]) \in 1..L
    BY <2>2, <1>1
  <2>4. QED
    BY <1>2, <2>3 DEF WrapInv, LinesFilled
<1>8. QED
  BY <1>1, <1>4, <1>5, <1>6, <1>7

\* A cut into fewer lines ends before the last word, because it is never ahead.
LEMMA GreedyWrapIsFewest == WrapInv /\ LinesMeasured => FewestLines
<1> SUFFICES ASSUME WrapInv, LinesMeasured, wrapping = "wrapped",
                    NEW m \in 0..(Len(lines) - 1), WrapInto(m)
             PROVE  FALSE
  BY DEF FewestLines
<1> DEFINE P == Len(lines)
           L == Len(words)
<1>1. WrapTypeOK /\ lines \in Seq(LineType)
  BY DEF WrapInv, WrapTypeOK
<1>2. P \in Nat \ {0} /\ m \in Nat /\ m < P /\ lines # <<>>
  BY <1>1, LengthFacts
<1> DEFINE before(k) == IF k = 1 THEN 0 ELSE LastWord(lines[k - 1])
<1>3. /\ L \in Nat
      /\ \A k \in 1..P : /\ LastWord(lines[k]) \in 1..L
                         /\ before(k) < LastWord(lines[k])
                         /\ lines[k].length = RunLength(before(k), LastWord(lines[k]))
      /\ LastWord(lines[P]) = L
      /\ \A k \in 1..(P - 1) :
            /\ LastWord(lines[k]) + 1 \in 1..L
            /\ lines[k].length + 1 + words[LastWord(lines[k]) + 1] > MaxCharsPerLine
  BY <1>2, LinesAreGreedy
<1> DEFINE greedy == [k \in 0..P |-> IF k = 0 THEN 0 ELSE LastWord(lines[k])]
           Runs == {r \in (0..L) \X (0..L) :
                       RunLength(r[1], r[2]) <= MaxCharsPerLine \/ r[2] = r[1] + 1}
<1>4. greedy \in [0..P -> 0..L]
  <2>1. \A k \in 0..P : (IF k = 0 THEN 0 ELSE LastWord(lines[k])) \in 0..L
    BY <1>2, <1>3
  <2>2. QED
    BY <2>1
<1>5. PICK cut \in [0..m -> 0..L] :
             /\ cut[0] = 0 /\ cut[m] = L
             /\ \A k \in 1..m :
                   /\ cut[k - 1] < cut[k]
                   /\ \/ RunLength(cut[k - 1], cut[k]) <= MaxCharsPerLine
                      \/ cut[k] = cut[k - 1] + 1
  BY DEF WrapInto
<1>6. \A k \in 1..m : <<cut[k - 1], cut[k]>> \in Runs
  <2>1. ASSUME NEW k \in 1..m
        PROVE  cut[k - 1] \in 0..L /\ cut[k] \in 0..L
    BY <1>2
  <2>2. QED
    BY <1>5, <2>1
<1>7. ASSUME NEW k \in 1..(P - 1), NEW i \in 0..greedy[k - 1], NEW j \in (greedy[k] + 1)..L
      PROVE  <<i, j>> \notin Runs
  <2>1. k \in 1..P /\ k \in 0..P /\ k - 1 \in 0..P /\ k \in Nat
    BY <1>2
  <2>2. greedy[k] = LastWord(lines[k]) /\ greedy[k - 1] = before(k)
    BY <2>1
  <2> DEFINE g == greedy[k - 1]
             n == greedy[k]
  <2>3. g \in 0..L /\ n \in 0..L
    BY <1>4, <2>1
  <2>4. /\ n + 1 \in 1..L /\ g < n
        /\ RunLength(g, n) + 1 + words[n + 1] > MaxCharsPerLine
    BY <1>3, <2>1, <2>2
  <2>5. i \in 0..g /\ j \in (n + 1)..L
    OBVIOUS
  <2> HIDE DEF g, n, greedy, before
  <2>6. \A b, c, l \in Nat : \A a \in 0..b, d \in (c + 1)..l :
            b < c /\ c + 1 <= l =>
                a \in 0..l /\ d \in 0..l /\ a <= b /\ c + 1 <= d /\ d # a + 1
    OBVIOUS
  <2>7. /\ g \in Nat /\ n \in Nat /\ L \in Nat /\ n + 1 <= L /\ n + 1 \in 0..L
        /\ g \in 0..((n + 1) - 1) /\ g < (n + 1) - 1 /\ (n + 1) - 1 = n
    <3>1. \A b, c, l \in Nat :
             b < c /\ c + 1 \in 1..l =>
                /\ c + 1 <= l /\ c + 1 \in 0..l
                /\ b \in 0..((c + 1) - 1) /\ b < (c + 1) - 1 /\ (c + 1) - 1 = c
      OBVIOUS
    <3>2. g \in Nat /\ n \in Nat /\ L \in Nat
      BY <1>3, <2>3
    <3>3. QED
      BY <2>4, <3>1, <3>2
  <2>8. i \in 0..L /\ j \in 0..L /\ i <= g /\ n + 1 <= j /\ j # i + 1
    BY <2>4, <2>5, <2>6, <2>7
  <2>9. RunLength(g, n + 1) > MaxCharsPerLine
    <3>1. RunLength(g, n + 1) = RunLength(g, (n + 1) - 1) + 1 + words[n + 1]
      BY <1>1, <2>4, <2>7, RunLengths
    <3>2. QED
      BY <2>4, <2>7, <3>1
  <2>10. ~(RunLength(i, j) <= MaxCharsPerLine)
    <3>1. PICK sum : sum = RunningSum(words)
      OBVIOUS
    <3>2. /\ sum \in [0..L -> Nat]
          /\ \A x, y \in 0..L : x <= y => sum[x] <= sum[y]
      BY <1>1, <3>1, WordSums
    <3>3. /\ sum[i] \in Nat /\ sum[g] \in Nat /\ sum[n + 1] \in Nat /\ sum[j] \in Nat
          /\ sum[i] <= sum[g] /\ sum[n + 1] <= sum[j]
      BY <2>3, <2>7, <2>8, <3>2
    <3>4. /\ RunLength(i, j) = sum[j] - sum[i] + (j - i - 1)
          /\ RunLength(g, n + 1) = sum[n + 1] - sum[g] + ((n + 1) - g - 1)
      BY <3>1 DEF RunLength
    <3>5. \A a, b, c, d, x, y, z, w, room \in Nat :
              /\ c - b + (z - y - 1) > room
              /\ a <= b /\ c <= d /\ x <= y /\ z <= w
              => ~(d - a + (w - x - 1) <= room)
      OBVIOUS
    <3>6. i \in Nat /\ j \in Nat /\ n + 1 \in Nat /\ MaxCharsPerLine \in Nat
      BY <2>7, <2>8, MaxCharsPerLineAssumption
    <3>7. sum[n + 1] - sum[g] + ((n + 1) - g - 1) > MaxCharsPerLine
      BY <2>9, <3>4
    <3>8. ~(sum[j] - sum[i] + (j - i - 1) <= MaxCharsPerLine)
      BY <2>7, <2>8, <3>3, <3>5, <3>6, <3>7
    <3>9. QED
      BY <3>4, <3>8
  <2>11. QED
    BY <2>8, <2>10
<1> HIDE DEF greedy, Runs, P, L, before
<1>8. cut[m] <= greedy[m]
  BY <1>2, <1>3, <1>4, <1>5, <1>6, <1>7, GreedyIsAhead
<1>9. greedy[m] < L
  <2>1. m \in 0..(P - 1) /\ m \in 0..P
    BY <1>2
  <2>2. CASE m = 0
    <3>1. 1 \in 1..P
      BY <1>2
    <3>2. L > 0
      BY <3>1, <1>3
    <3>3. QED
      BY <2>1, <2>2, <3>2 DEF greedy
  <2>3. CASE m # 0
    <3>1. m \in 1..(P - 1)
      BY <2>1, <2>3
    <3>2. LastWord(lines[m]) + 1 \in 1..L /\ LastWord(lines[m]) \in 1..L
      BY <3>1, <1>2, <1>3
    <3>3. greedy[m] = LastWord(lines[m])
      BY <2>1, <2>3 DEF greedy
    <3>4. QED
      BY <3>2, <3>3, <1>3
  <2>4. QED
    BY <2>2, <2>3
<1>10. greedy[m] \in Nat
  BY <1>2, <1>3, <1>4
<1>11. QED
  BY <1>3, <1>5, <1>8, <1>9, <1>10

\* No other way to cut the words into lines within the bound, or of one word, has
\* fewer lines than WrapText returns.
THEOREM WrapIsOptimal == WrapSpec => []FewestLines
BY LengthsAreMeasured, GreedyWrapIsFewest, PTL

------------------------------------------------------------------------------
\* WrapText implements Flow, step by step.

\* Is word m on the line?
Holds(line, m) == \E j \in DOMAIN line.words : line.words[j] = m

\* The longer line holds word n besides.
HoldsAlso(line, n, longer) == \A m : Holds(longer, m) <=> Holds(line, m) \/ m = n

\* A word more is on a line that takes it.
LEMMA HoldsMore ==
    ASSUME NEW line \in LineType, NEW n \in Nat \ {0}, NEW longer,
           longer.words = Append(line.words, n)
    PROVE  HoldsAlso(line, n, longer)
<1>1. line.words \in Seq(Nat \ {0})
  BY DEF LineType
<1> DEFINE ws == line.words
           L == Len(ws)
<1>2. L \in Nat /\ DOMAIN ws = 1..L
  BY <1>1
<1>3. /\ Append(ws, n) \in Seq(Nat \ {0}) /\ Len(Append(ws, n)) = L + 1
      /\ Append(ws, n)[L + 1] = n /\ \A j \in 1..L : Append(ws, n)[j] = ws[j]
  BY <1>1, AppendFacts
<1>4. DOMAIN Append(ws, n) = 1..(L + 1)
  BY <1>3
<1>5. \A j : j \in 1..(L + 1) <=> j \in 1..L \/ j = L + 1
  BY <1>2
<1> HIDE DEF L
<1>6. QED
  BY <1>2, <1>3, <1>4, <1>5 DEF Holds, HoldsAlso

\* What a round does to the lines so far: the next word is put at the end of the
\* last of them, or alone on a new one.
LEMMA TakenOnLine ==
    ASSUME WrapInv, TakeWord, NEW n, n = taken + 1, NEW last, last = Len(LinesSoFar')
    PROVE  /\ Len(LinesSoFar) \in Nat \ {0}
           /\ DOMAIN LinesSoFar = 1..Len(LinesSoFar) /\ DOMAIN LinesSoFar' = 1..last
           /\ last = IF Closes(words[n]) THEN Len(LinesSoFar) + 1 ELSE Len(LinesSoFar)
           /\ \A k \in 1..last : \A m :
                  Holds(LinesSoFar'[k], m)
                    <=> (k \in DOMAIN LinesSoFar /\ Holds(LinesSoFar[k], m))
                          \/ (k = last /\ m = n)
<1>1. WrapTypeOK /\ WrapTypeOK'
  BY WrapTakes DEF WrapInv
<1>2. /\ currentLine \in LineType /\ lines \in Seq(LineType)
      /\ currentLine' \in LineType /\ lines' \in Seq(LineType)
      /\ wrapping = "words" /\ wrapping' = "words"
      /\ n \in 1..Len(words) /\ n \in Nat \ {0}
      /\ currentLine.length = 0 <=> currentLine.words = <<>>
  BY <1>1, LengthFacts DEF WrapTypeOK, TakeWord, WrapInv, CurrentLineInv
<1>3. LinesSoFar = Append(lines, currentLine) /\ LinesSoFar' = Append(lines', currentLine')
  BY <1>2 DEF LinesSoFar
<1>4. PICK K : K = Len(lines) + 1
  OBVIOUS
<1>5. /\ K \in Nat \ {0} /\ K - 1 \in Nat /\ Len(lines) = K - 1
      /\ LinesSoFar \in Seq(LineType) /\ Len(LinesSoFar) = K
      /\ LinesSoFar[K] = currentLine /\ \A k \in 1..(K - 1) : LinesSoFar[k] = lines[k]
  BY <1>2, <1>3, <1>4, AppendFacts
<1>6. DOMAIN LinesSoFar = 1..K
  BY <1>5
<1>7. CASE ~Closes(words[n])
  <2>1. lines' = lines /\ currentLine' = AppendWord(currentLine, n)
    BY <1>7 DEF TakeWord
  <2>2. currentLine'.words = Append(currentLine.words, n)
    BY <2>1 DEF AppendWord
  <2>3. \A m : Holds(currentLine', m) <=> Holds(currentLine, m) \/ m = n
    <3>1. PICK longer : longer = currentLine'
      OBVIOUS
    <3>2. HoldsAlso(currentLine, n, longer)
      BY <1>2, <2>2, <3>1, HoldsMore
    <3>3. QED
      BY <3>1, <3>2 DEF HoldsAlso
  <2>4. /\ LinesSoFar' \in Seq(LineType) /\ Len(LinesSoFar') = K
        /\ LinesSoFar'[K] = currentLine' /\ \A k \in 1..(K - 1) : LinesSoFar'[k] = lines[k]
    BY <1>2, <1>3, <1>4, <1>5, <2>1, AppendFacts
  <2>5. DOMAIN LinesSoFar' = 1..K /\ last = K
    BY <2>4
  <2>6. \A k \in 1..K : k \in 1..(K - 1) \/ k = K
    BY <1>5
  <2>7. \A k \in 1..(K - 1) : k # K
    BY <1>5
  <2>8. QED
    BY <1>5, <1>6, <1>7, <2>3, <2>4, <2>5, <2>6, <2>7
<1>8. CASE Closes(words[n])
  <2>1. lines' = Append(lines, currentLine) /\ currentLine' = AppendWord(EmptyLine, n)
    BY <1>8 DEF TakeWord
  <2>2. currentLine'.words = Append(EmptyLine.words, n) /\ EmptyLine \in LineType
        /\ EmptyLine.words = <<>>
    BY <2>1 DEF AppendWord, EmptyLine, LineType
  <2>3. \A m : Holds(currentLine', m) <=> Holds(EmptyLine, m) \/ m = n
    <3>1. PICK longer : longer = currentLine'
      OBVIOUS
    <3>2. HoldsAlso(EmptyLine, n, longer)
      BY <1>2, <2>2, <3>1, HoldsMore
    <3>3. QED
      BY <3>1, <3>2 DEF HoldsAlso
  <2>4. \A m : Holds(currentLine', m) <=> m = n
    BY <2>2, <2>3 DEF Holds
  <2>5. LinesSoFar' = Append(LinesSoFar, currentLine')
    BY <1>3, <2>1
  <2>6. /\ LinesSoFar' \in Seq(LineType) /\ Len(LinesSoFar') = K + 1
        /\ LinesSoFar'[K + 1] = currentLine'
        /\ \A k \in 1..K : LinesSoFar'[k] = LinesSoFar[k]
    BY <1>2, <1>5, <2>5, AppendFacts
  <2>7. DOMAIN LinesSoFar' = 1..(K + 1) /\ last = K + 1
    BY <2>6
  <2>8. \A k \in 1..(K + 1) : k \in 1..K \/ (k = K + 1 /\ k \notin 1..K)
    BY <1>5
  <2>9. \A k \in 1..K : k # K + 1
    BY <1>5
  <2>10. QED
    BY <1>5, <1>6, <1>8, <2>4, <2>6, <2>7, <2>8, <2>9
<1>9. QED
  BY <1>7, <1>8

\* A round gives the next word the last line there is then, and no other word
\* another line.
LEMMA WrapPlaces ==
    ASSUME WrapInv, PlacedInv, TakeWord
    PROVE  /\ LineOf' = Append(LineOf, Len(LinesSoFar'))
           /\ Len(LineOf) = taken /\ (LineOf = <<>> <=> taken = 0)
           /\ taken > 0 => LineOf[Len(LineOf)] = Len(LinesSoFar)
           /\ PlacedInv'
<1>1. PICK n, last : n = taken + 1 /\ last = Len(LinesSoFar')
  OBVIOUS
<1>2. /\ taken \in Nat /\ n \in Nat \ {0} /\ taken' = n /\ n - 1 = taken
      /\ wrapping = "words" /\ wrapping' = "words"
  BY <1>1, LengthFacts DEF WrapTypeOK, WrapInv, TakeWord
<1>3. /\ Len(LinesSoFar) \in Nat \ {0}
      /\ DOMAIN LinesSoFar = 1..Len(LinesSoFar) /\ DOMAIN LinesSoFar' = 1..last
      /\ last \in {Len(LinesSoFar), Len(LinesSoFar) + 1}
      /\ \A k \in 1..last : \A m :
             Holds(LinesSoFar'[k], m)
               <=> (k \in DOMAIN LinesSoFar /\ Holds(LinesSoFar[k], m))
                     \/ (k = last /\ m = n)
  BY <1>1, TakenOnLine
<1>4. last \in 1..last /\ last \in Nat /\ DOMAIN LinesSoFar \subseteq 1..last
  BY <1>3
<1>5. \A k \in DOMAIN LinesSoFar : \A m : Holds(LinesSoFar[k], m) => m \in 1..taken
  BY DEF PlacedInv, Holds
<1>6. n \notin 1..taken /\ 1..taken \subseteq 1..n /\ n \in 1..n
  BY <1>1, <1>2
<1>7. /\ \A m : LinesWith(m) = {k \in DOMAIN LinesSoFar : Holds(LinesSoFar[k], m)}
      /\ \A m : LinesWith(m)' = {k \in 1..last : Holds(LinesSoFar'[k], m)}
  BY <1>3 DEF LinesWith, Holds
<1>8. \A m \in 1..taken : LinesWith(m)' = LinesWith(m)
  <2>1. \A m \in 1..taken : m # n
    BY <1>6
  <2>2. QED
    BY <1>3, <1>4, <1>7, <2>1
<1>9. LinesWith(n)' = {last}
  BY <1>3, <1>4, <1>5, <1>6, <1>7
<1>10. /\ LineOf = [m \in 1..taken |-> CHOOSE k \in LinesWith(m) : TRUE]
       /\ LineOf' = [m \in 1..n |-> CHOOSE k \in LinesWith(m)' : TRUE]
  BY <1>2 DEF LineOf
<1>11. \A m \in 1..taken : LineOf'[m] = LineOf[m]
  BY <1>6, <1>8, <1>10
<1>12. LineOf'[n] = last
  BY <1>6, <1>9, <1>10
<1>13. /\ Len(LineOf) = taken /\ (LineOf = <<>> <=> taken = 0)
       /\ LineOf' = Append(LineOf, LineOf'[taken + 1])
  <2>1. PICK f, g : f = LineOf /\ g = LineOf'
    OBVIOUS
  <2>2. LineOf = [m \in 1..taken |-> LineOf[m]]
    BY <1>10
  <2>3. LineOf' = [m \in 1..n |-> LineOf'[m]]
    BY <1>10
  <2>4. /\ f = [m \in 1..taken |-> f[m]] /\ g = [m \in 1..(taken + 1) |-> g[m]]
        /\ \A m \in 1..taken : g[m] = f[m]
    BY <1>1, <1>11, <2>1, <2>2, <2>3
  <2>5. Len(f) = taken /\ (f = <<>> <=> taken = 0) /\ g = Append(f, g[taken + 1])
    <3>1. taken \in Nat
      BY <1>2
    <3>2. QED
      BY <2>4, <3>1, LongerByOne
  <2>6. QED
    BY <2>1, <2>5
<1>14. PlacedInv'
  <2>1. \A k \in 1..last : \A m : Holds(LinesSoFar'[k], m) => m \in 1..n
    BY <1>3, <1>5, <1>6
  <2>2. QED
    BY <1>1, <1>2, <1>3, <1>12, <2>1 DEF PlacedInv, Holds
<1>15. taken > 0 => LineOf[taken] = Len(LinesSoFar)
  BY <1>2 DEF PlacedInv
<1>16. QED
  BY <1>1, <1>12, <1>13, <1>14, <1>15

\* A round is a step of Flow: the word joins the others of its line if it fits
\* after a blank, and opens the next line otherwise.
LEMMA WrapFlows == WrapInv /\ PlacedInv /\ TakeWord => Flow!Next
<1> SUFFICES ASSUME WrapInv, PlacedInv, TakeWord PROVE Flow!Next
  OBVIOUS
<1>1. PICK n, last : n = taken + 1 /\ last = Len(LinesSoFar')
  OBVIOUS
<1>2. /\ words \in Seq(Nat \ {0}) /\ currentLine \in LineType
      /\ taken \in Nat /\ taken < Len(words) /\ n \in 1..Len(words) /\ taken' = n
      /\ wrapping = "words" /\ wrapping' = "words" /\ words' = words
      /\ currentLine.length = 0 <=> currentLine.words = <<>>
      /\ currentLine.words = <<>> => taken = 0
      /\ currentLine.words # <<>> => LastWord(currentLine) = taken
  BY <1>1, LengthFacts DEF WrapTypeOK, WrapInv, TakeWord, CurrentLineInv
<1>3. words[n] \in Nat \ {0} /\ currentLine.length \in Nat /\ MaxCharsPerLine \in Nat
  BY <1>2, LengthFacts, MaxCharsPerLineAssumption DEF LineType
<1>4. /\ LineOf' = Append(LineOf, last) /\ Len(LineOf) = taken
      /\ LineOf = <<>> <=> taken = 0
      /\ taken > 0 => LineOf[Len(LineOf)] = Len(LinesSoFar)
  BY <1>1, WrapPlaces
<1>5. last = IF Closes(words[n]) THEN Len(LinesSoFar) + 1 ELSE Len(LinesSoFar)
  BY <1>1, TakenOnLine
<1>6. Flow!Placing
  BY <1>2, <1>4 DEF Flow!Placing
<1>7. Flow!NextSize = words[n]
  BY <1>1, <1>4 DEF Flow!NextSize
<1>8. RoomOnLine' = MaxCharsPerLine - currentLine'.length
  BY <1>1, <1>2 DEF RoomOnLine
<1>9. CASE taken = 0
  <2>1. currentLine.words = <<>>
    <3>1. currentLine.words # <<>> => 1 \in DOMAIN LinesSoFar[Len(LinesSoFar)].words
                                     /\ LinesSoFar[Len(LinesSoFar)].words[1] \in 1..taken
      <4>1. SUFFICES ASSUME currentLine.words # <<>>
                     PROVE  /\ 1 \in DOMAIN LinesSoFar[Len(LinesSoFar)].words
                            /\ LinesSoFar[Len(LinesSoFar)].words[1] \in 1..taken
        OBVIOUS
      <4>2. /\ LinesSoFar \in Seq(LineType) /\ Len(LinesSoFar) \in DOMAIN LinesSoFar
            /\ LinesSoFar[Len(LinesSoFar)] = currentLine
        <5>1. lines \in Seq(LineType) /\ LinesSoFar = Append(lines, currentLine)
          BY <1>2 DEF LinesSoFar, WrapInv, WrapTypeOK
        <5>2. QED
          BY <1>2, <5>1
      <4>3. currentLine.words \in Seq(Nat \ {0})
        BY <1>2 DEF LineType
      <4>4. 1 \in DOMAIN currentLine.words
        BY <4>1, <4>3
      <4>5. QED
        BY <4>2, <4>4 DEF PlacedInv
    <3>2. QED
      BY <1>9, <3>1
  <2>2. ~Closes(words[n]) /\ currentLine' = AppendWord(currentLine, n)
    BY <1>1, <1>2, <1>3, <2>1 DEF Closes, TakeWord
  <2>3. currentLine'.length = words[n]
    BY <1>2, <1>3, <2>1, <2>2 DEF AppendWord
  <2>4. Len(LinesSoFar) = 1 /\ last = 1
    <3>1. lines = <<>>
      BY <1>2, <2>1 DEF WrapInv, CurrentLineInv
    <3>2. LinesSoFar = <<currentLine>>
      BY <1>2, <3>1 DEF LinesSoFar
    <3>3. QED
      BY <1>5, <2>2, <3>2
  <2>5. Flow!LastBox = 0
    BY <1>4, <1>9 DEF Flow!LastBox
  <2>6. Flow!Open
    BY <1>4, <1>6, <1>7, <1>8, <2>3, <2>4, <2>5 DEF Flow!Open
  <2>7. QED
    BY <2>6 DEF Flow!Next
<1>10. CASE taken # 0
  <2>1. /\ taken > 0 /\ LineOf # <<>> /\ Flow!LastBox = Len(LinesSoFar)
        /\ currentLine.words # <<>> /\ currentLine.length > 0
    BY <1>2, <1>3, <1>4, <1>10 DEF Flow!LastBox
  <2>2. CASE Closes(words[n])
    <3>1. currentLine' = AppendWord(EmptyLine, n)
      BY <1>1, <2>2 DEF TakeWord
    <3>2. currentLine'.length = words[n]
      BY <3>1 DEF AppendWord, EmptyLine
    <3>3. Flow!Open
      BY <1>4, <1>5, <1>6, <1>7, <1>8, <2>1, <2>2, <3>2 DEF Flow!Open
    <3>4. QED
      BY <3>3 DEF Flow!Next
  <2>3. CASE ~Closes(words[n])
    <3>1. currentLine' = AppendWord(currentLine, n)
      BY <1>1, <2>3 DEF TakeWord
    <3>2. currentLine'.length = currentLine.length + 1 + words[n]
      BY <2>1, <3>1 DEF AppendWord
    <3>3. RoomOnLine = MaxCharsPerLine - currentLine.length
      BY <1>10 DEF RoomOnLine
    <3>4. 1 + words[n] <= RoomOnLine /\ RoomOnLine' = RoomOnLine - 1 - words[n]
      <4>1. ~(currentLine.length + words[n] + 1 > MaxCharsPerLine)
        BY <2>1, <2>3 DEF Closes
      <4>2. QED
        BY <1>3, <1>8, <3>2, <3>3, <4>1
    <3>5. Flow!Join
      BY <1>4, <1>5, <1>6, <1>7, <2>1, <2>3, <3>4 DEF Flow!Join
    <3>6. QED
      BY <3>5 DEF Flow!Next
  <2>4. QED
    BY <2>2, <2>3
<1>11. QED
  BY <1>9, <1>10

\* Returning, the lines stay what they are.
LEMMA WrapEndsFlow ==
    WrapInv /\ PlacedInv /\ ReturnLines => Flow!Next /\ PlacedInv'
<1> SUFFICES ASSUME WrapInv, PlacedInv, ReturnLines PROVE Flow!Next /\ PlacedInv'
  OBVIOUS
<1>1. /\ wrapping = "words" /\ wrapping' = "wrapped" /\ taken = Len(words) /\ taken' = taken
      /\ words' = words /\ currentLine' = currentLine
      /\ currentLine.length = 0 <=> currentLine.words = <<>>
      /\ currentLine.words = <<>> => taken = 0
      /\ taken \in Nat /\ lines \in Seq(LineType) /\ currentLine \in LineType
  BY LengthFacts DEF WrapTypeOK, WrapInv, ReturnLines, CurrentLineInv
<1>2. LineOf' = LineOf
  <2>1. CASE taken = 0
    <3>1. 1..taken = {}
      BY <1>1, <2>1
    <3>2. QED
      BY <1>1, <3>1 DEF LineOf
  <2>2. CASE taken # 0
    <3>1. currentLine.length \in Nat /\ currentLine.length # 0
      BY <1>1, <2>2 DEF LineType
    <3>2. lines' = Append(lines, currentLine)
      BY <3>1 DEF ReturnLines
    <3>3. LinesSoFar' = LinesSoFar
      BY <1>1, <3>2 DEF LinesSoFar
    <3>4. \A m : LinesWith(m)' = LinesWith(m)
      BY <3>3 DEF LinesWith
    <3>5. QED
      BY <1>1, <3>4 DEF LineOf
  <2>3. QED
    BY <2>1, <2>2
<1>3. Len(LineOf) = taken
  <2>1. \A m \in 1..taken : LineOf[m] \in {LineOf[k] : k \in 1..taken}
    OBVIOUS
  <2>2. LineOf = [m \in 1..taken |-> LineOf[m]]
    BY DEF LineOf
  <2>3. LineOf \in Seq({LineOf[k] : k \in 1..taken})
    BY <1>1, <2>1, <2>2
  <2>4. QED
    BY <1>1, <2>2, <2>3
<1>4. RoomOnLine' = RoomOnLine
  BY <1>1 DEF RoomOnLine
<1>5. Flow!End
  BY <1>1, <1>2, <1>3, <1>4 DEF Flow!End
<1>6. PlacedInv'
  <2>1. \A k \in DOMAIN LinesSoFar' : k \in DOMAIN LinesSoFar /\ LinesSoFar'[k] = LinesSoFar[k]
    <3>1. LinesSoFar = Append(lines, currentLine)
      BY <1>1 DEF LinesSoFar
    <3>2. LinesSoFar' = LinesSoFar \/ LinesSoFar' = lines
      BY <1>1, <3>1 DEF LinesSoFar, ReturnLines
    <3>3. QED
      BY <1>1, <3>1, <3>2
  <2>2. QED
    BY <1>1, <2>1 DEF PlacedInv
<1>7. QED
  BY <1>5, <1>6 DEF Flow!Next

\* WrapText implements Flow, for every text and every bound: each round puts the
\* next word on the line of the word before it, if it fits there, or on a new one.
THEOREM WrapTextImplementsFlow == WrapSpec => WrapTextFlows
<1>1. WrapInit => Flow!Init /\ PlacedInv
  <2> SUFFICES ASSUME WrapInit PROVE Flow!Init /\ PlacedInv
    OBVIOUS
  <2>1. /\ words \in Seq(Nat \ {0}) /\ taken = 0 /\ currentLine = EmptyLine
        /\ lines = <<>> /\ wrapping = "words"
    BY WrapTextsAssumption DEF WrapInit
  <2>2. words \in Seq(Nat)
    BY <2>1
  <2>3. 1..taken = {}
    BY <2>1
  <2>4. LineOf = <<>> /\ RoomOnLine = 0
    BY <2>1, <2>3 DEF LineOf, RoomOnLine
  <2>5. Flow!Init
    BY <2>1, <2>2, <2>4 DEF Flow!Init
  <2>6. LinesSoFar = <<EmptyLine>> /\ EmptyLine.words = <<>>
    BY <2>1 DEF LinesSoFar, EmptyLine
  <2>7. PlacedInv
    BY <2>1, <2>6 DEF PlacedInv
  <2>8. QED
    BY <2>5, <2>7
<1>2. WrapInv /\ PlacedInv /\ [WrapNext]_wrapVars
        => [Flow!Next]_(Flow!flowVars) /\ PlacedInv'
  <2> SUFFICES ASSUME WrapInv, PlacedInv, [WrapNext]_wrapVars
               PROVE  [Flow!Next]_(Flow!flowVars) /\ PlacedInv'
    OBVIOUS
  <2>1. CASE TakeWord
    BY <2>1, WrapFlows, WrapPlaces
  <2>2. CASE ReturnLines
    BY <2>2, WrapEndsFlow
  <2>3. CASE UNCHANGED wrapVars
    <3>1. /\ words' = words /\ taken' = taken /\ currentLine' = currentLine
          /\ lines' = lines /\ wrapping' = wrapping
      BY <2>3 DEF wrapVars
    <3>2. LinesSoFar' = LinesSoFar
      BY <3>1 DEF LinesSoFar
    <3>3. \A m : LinesWith(m)' = LinesWith(m)
      BY <3>2 DEF LinesWith
    <3>4. LineOf' = LineOf
      BY <3>1, <3>3 DEF LineOf
    <3>5. RoomOnLine' = RoomOnLine
      BY <3>1 DEF RoomOnLine
    <3>6. UNCHANGED Flow!flowVars
      BY <3>1, <3>4, <3>5 DEF Flow!flowVars
    <3>7. PlacedInv'
      BY <3>1, <3>2, <3>4 DEF PlacedInv
    <3>8. QED
      BY <3>6, <3>7
  <2>4. QED
    BY <2>1, <2>2, <2>3 DEF WrapNext
<1>3. QED
  BY <1>1, <1>2, WrapSafe, PTL DEF WrapSpec, WrapTextFlows

------------------------------------------------------------------------------
\* The main text.

\* If the buffer is full, its characters, ordered by x, are the main text.
LEMMA LineTextIsContent ==
    ASSUME content \in Contents, GlyphsInv, DOMAIN glyphs = DOMAIN content
    PROVE  LineText = content
<1>1. PICK L : L = Len(content)
  OBVIOUS
<1>2. /\ L \in Nat /\ DOMAIN content = 1..L /\ DOMAIN glyphs = 1..L
      /\ content = [k \in 1..L |-> content[k]]
  BY <1>1, ContentsAssumption
<1>3. \A i \in 1..L : glyphs[i].id = i /\ glyphs[i].x = (i - 1) * 20
  <2>1. \A i \in 1..L : glyphs[i] = Glyph(i - 1) /\ (i - 1) + 1 = i
    BY <1>2 DEF GlyphsInv
  <2>2. \A i \in 1..L : Glyph(i - 1).id = (i - 1) + 1 /\ Glyph(i - 1).x = (i - 1) * 20
    BY DEF Glyph, GlyphWidth
  <2>3. QED
    BY <2>1, <2>2
<1>4. ASSUME NEW j \in 1..L
      PROVE  PlaceByX(j) = j
  <2>1. \A i \in 1..L :
           (\/ glyphs[i].x < glyphs[j].x
            \/ glyphs[i].x = glyphs[j].x /\ i <= j) <=> i <= j
    <3>1. \A i \in 1..L : i \in Int /\ j \in Int
      BY <1>2
    <3>2. \A i \in 1..L : /\ (i - 1) * 20 < (j - 1) * 20 <=> i < j
                          /\ (i - 1) * 20 = (j - 1) * 20 <=> i = j
      BY <3>1
    <3>3. QED
      BY <1>3, <3>1, <3>2
  <2>2. {i \in 1..L : \/ glyphs[i].x < glyphs[j].x
                      \/ glyphs[i].x = glyphs[j].x /\ i <= j} = 1..j
    <3>1. {i \in 1..L : \/ glyphs[i].x < glyphs[j].x
                        \/ glyphs[i].x = glyphs[j].x /\ i <= j}
            = {i \in 1..L : i <= j}
      BY <2>1
    <3>2. {i \in 1..L : i <= j} = 1..j
      BY <1>2
    <3>3. QED
      BY <3>1, <3>2
  <2>3. Cardinality(1..j) = j
    <3>1. j \in Nat /\ j >= 1
      BY <1>2
    <3>2. Cardinality(1..j) = j - 1 + 1
      BY <3>1, FS_Interval
    <3>3. QED
      BY <3>1, <3>2
  <2>4. QED
    BY <1>2, <2>2, <2>3 DEF PlaceByX
<1>5. ASSUME NEW k \in 1..L
      PROVE  (CHOOSE j \in 1..L : PlaceByX(j) = k) = k
  BY <1>4
<1>6. LineText = [k \in 1..L |-> content[glyphs[CHOOSE j \in 1..L : PlaceByX(j) = k].id]]
  BY <1>2 DEF LineText
<1>7. \A k \in 1..L : content[glyphs[CHOOSE j \in 1..L : PlaceByX(j) = k].id] = content[k]
  BY <1>3, <1>5
<1>8. QED
  BY <1>2, <1>6, <1>7

\* A word has at least one character.
LEMMA WordLengthsType ==
    ASSUME content \in Contents
    PROVE  WordLengths(content) \in Seq(Nat \ {0})
<1> DEFINE Part(k) == IF EndsWord(content, k)
                        THEN <<Cardinality(WordEndingAt(content, k))>> ELSE <<>>
           parts == [k \in DOMAIN content |-> Part(k)]
<1>1. PICK L : L = Len(content)
  OBVIOUS
<1>2. L \in Nat /\ DOMAIN content = 1..L
  BY <1>1, ContentsAssumption
<1>3. ASSUME NEW k \in 1..L
      PROVE  Part(k) \in Seq(Nat \ {0})
  <2>1. CASE EndsWord(content, k)
    <3>1. k \in WordEndingAt(content, k)
      <4>1. k \in 1..k /\ \A i \in k..k : i = k
        BY <1>2
      <4>2. content[k] # Blank
        BY <2>1 DEF EndsWord
      <4>3. QED
        BY <4>1, <4>2 DEF WordEndingAt
    <3>2. IsFiniteSet(WordEndingAt(content, k))
      <4>1. IsFiniteSet(1..k)
        BY <1>2, FS_Interval
      <4>2. WordEndingAt(content, k) \in SUBSET (1..k)
        BY DEF WordEndingAt
      <4>3. QED
        BY <4>1, <4>2, FS_Subset
    <3>3. Cardinality(WordEndingAt(content, k)) \in Nat \ {0}
      BY <3>1, <3>2, FS_CardinalityType, FS_EmptySet
    <3>4. QED
      BY <2>1, <3>3
  <2>2. CASE ~EndsWord(content, k)
    BY <2>2
  <2>3. QED
    BY <2>1, <2>2
<1> HIDE DEF Part
<1>4. parts \in Seq(Seq(Nat \ {0}))
  <2> DEFINE T == Seq(Nat \ {0})
  <2>1. \A k \in 1..L : Part(k) \in T
    BY <1>3
  <2> HIDE DEF T
  <2>2. parts \in Seq(T)
    BY <1>2, <2>1
  <2>3. QED
    BY <2>2 DEF T
<1> HIDE DEF parts
<1>5. FlattenSeq(parts) \in Seq(Nat \ {0})
  <2>1. <<>> \in Seq(Nat \ {0})
    OBVIOUS
  <2>2. QED
    BY <1>4, <2>1, FlattenAppend
<1>6. QED
  BY <1>5 DEF WordLengths, parts, Part

------------------------------------------------------------------------------
\* What is on the canvas.

\* Elements of the canvas, whatever the words are.
Elements ==
    [what   : {"line", "separator", "title", "note"},
     item   : Nat \X Nat,
     top    : Nat,
     bottom : Nat]

ItemsOf(q, what) ==
    FlattenSeq([k \in DOMAIN q |-> IF q[k].what = what THEN <<q[k].item>> ELSE <<>>])

\* An element more, and the items of its kind are longer by its own.
ItemAdded(q, e, what, longer) ==
    ItemsOf(longer, what)
      = IF e.what = what THEN Append(ItemsOf(q, what), e.item) ELSE ItemsOf(q, what)

LEMMA ItemsLonger ==
    ASSUME NEW q \in Seq(Elements), NEW e \in Elements, NEW what,
           NEW longer, longer = Append(q, e)
    PROVE  ItemsOf(q, what) \in Seq(Nat \X Nat) /\ ItemAdded(q, e, what, longer)
<1> DEFINE S == Nat \X Nat
           Part(one) == IF one.what = what THEN <<one.item>> ELSE <<>>
<1>1. PICK t : t = Len(q)
  OBVIOUS
<1>2. /\ t \in Nat /\ longer \in Seq(Elements) /\ DOMAIN q = 1..t
      /\ longer[t + 1] = e /\ \A k \in 1..t : longer[k] = q[k] /\ q[k] \in Elements
  BY <1>1
<1>3. DOMAIN longer = 1..(t + 1)
  <2>1. Len(longer) = t + 1 /\ DOMAIN longer = 1..Len(longer)
    BY <1>1, <1>2
  <2>2. QED
    BY <2>1
<1>4. \A one \in Elements : one.item \in S
  BY DEF Elements
<1> HIDE DEF S
<1>5. \A one \in Elements : Part(one) \in Seq(S)
  BY <1>4
<1>6. /\ e.what = what => Part(e) = <<e.item>>
      /\ e.what # what => Part(e) = <<>>
      /\ e.item \in S
  BY <1>4
<1>7. /\ ItemsOf(q, what) = FlattenSeq([k \in 1..t |-> Part(q[k])])
      /\ ItemsOf(longer, what) = FlattenSeq([k \in 1..(t + 1) |-> Part(longer[k])])
  BY <1>2, <1>3 DEF ItemsOf
<1> HIDE DEF Part
<1>8. PICK f : f = [k \in 1..t |-> Part(q[k])]
  OBVIOUS
<1>9. PICK g : g = [k \in 1..(t + 1) |-> Part(longer[k])]
  OBVIOUS
<1>10. /\ f = [k \in 1..t |-> f[k]] /\ \A k \in 1..t : f[k] = Part(q[k])
       /\ g = [k \in 1..(t + 1) |-> g[k]]
       /\ \A k \in 1..(t + 1) : g[k] = Part(longer[k])
  BY <1>8, <1>9
<1>11. \A k \in 1..t : g[k] = f[k]
  <2>1. \A k \in 1..t : k \in 1..(t + 1)
    BY <1>2
  <2>2. QED
    BY <1>2, <1>10, <2>1
<1>12. t + 1 \in 1..(t + 1) /\ g[t + 1] = Part(e)
  BY <1>2, <1>10
<1>13. \A k \in 1..(t + 1) : g[k] \in Seq(S)
  <2>1. \A k \in 1..(t + 1) : k \in 1..t \/ k = t + 1
    BY <1>2
  <2>2. \A k \in 1..(t + 1) : longer[k] \in Elements
    BY <1>2, <2>1
  <2>3. QED
    BY <1>5, <1>10, <2>2
<1>14. FlattenSeq(f) \in Seq(S) /\ JoinsOn(f, g[t + 1], g)
  BY <1>2, <1>10, <1>11, <1>13, FlattenLonger
<1>15. PICK u : u = FlattenSeq(f)
  OBVIOUS
<1>16. u \in Seq(S) /\ FlattenSeq(g) = u \o Part(e)
  BY <1>12, <1>14, <1>15 DEF JoinsOn
<1>17. /\ e.what = what => u \o Part(e) = Append(u, e.item)
       /\ e.what # what => u \o Part(e) = u
  <2>1. u \o <<>> = u
    BY <1>16
  <2>2. \A x \in S : u \o <<x>> = Append(u, x)
    <3>1. u \in Seq(S)
      BY <1>16
    <3>2. QED
      BY <3>1
  <2>3. QED
    BY <1>6, <2>1, <2>2
<1>18. ItemsOf(q, what) = u /\ ItemsOf(longer, what) = u \o Part(e)
  BY <1>7, <1>8, <1>9, <1>15, <1>16
<1>19. ItemAdded(q, e, what, longer)
  BY <1>17, <1>18 DEF ItemAdded
<1>20. QED
  BY <1>16, <1>18, <1>19 DEF S

\* The number of notes of section s.
NotesIn(q, s) == Cardinality({k \in DOMAIN q : q[k].what = "note" /\ q[k].item[1] = s})

\* Element e may be one more note of section s.
NotesAdded(q, e, s, longer) ==
    /\ NotesIn(q, s) \in Nat
    /\ NotesIn(longer, s) = IF e.what = "note" /\ e.item[1] = s THEN NotesIn(q, s) + 1
                            ELSE NotesIn(q, s)

\* An element more, and the notes of a section are one more if it is one of them.
LEMMA NotesLonger ==
    ASSUME NEW q \in Seq(Elements), NEW e \in Elements, NEW s,
           NEW longer, longer = Append(q, e)
    PROVE  NotesAdded(q, e, s, longer)
<1> DEFINE IsNote(one) == one.what = "note" /\ one.item[1] = s
<1>1. PICK t : t = Len(q)
  OBVIOUS
<1>2. /\ t \in Nat /\ longer \in Seq(Elements) /\ DOMAIN q = 1..t
      /\ longer[t + 1] = e /\ \A k \in 1..t : longer[k] = q[k]
  BY <1>1
<1>3. DOMAIN longer = 1..(t + 1)
  <2>1. Len(longer) = t + 1 /\ DOMAIN longer = 1..Len(longer)
    BY <1>1, <1>2
  <2>2. QED
    BY <2>1
<1>4. /\ NotesIn(q, s) = Cardinality({k \in 1..t : IsNote(q[k])})
      /\ NotesIn(longer, s) = Cardinality({k \in 1..(t + 1) : IsNote(longer[k])})
      /\ e.what = "note" /\ e.item[1] = s <=> IsNote(e)
  BY <1>2, <1>3 DEF NotesIn
<1> HIDE DEF IsNote
<1>5. PICK N : N = {k \in 1..t : IsNote(q[k])}
  OBVIOUS
<1>6. IsFiniteSet(N) /\ Cardinality(N) \in Nat
  <2>1. IsFiniteSet(1..t) /\ N \in SUBSET (1..t)
    BY <1>2, <1>5, FS_Interval
  <2>2. QED
    BY <2>1, FS_Subset, FS_CardinalityType
<1>7. \A k : k \in 1..(t + 1) <=> k \in 1..t \/ k = t + 1
  BY <1>2
<1>8. t + 1 \notin N
  BY <1>2, <1>5
<1>9. {k \in 1..(t + 1) : IsNote(longer[k])} = IF IsNote(e) THEN N \cup {t + 1} ELSE N
  <2>1. \A k : k \in {i \in 1..(t + 1) : IsNote(longer[i])}
                 <=> k \in N \/ (k = t + 1 /\ IsNote(e))
    BY <1>2, <1>5, <1>7
  <2>2. QED
    BY <2>1
<1>10. Cardinality(N \cup {t + 1}) = Cardinality(N) + 1
  BY <1>6, <1>8, FS_AddElement
<1>11. QED
  BY <1>4, <1>5, <1>6, <1>9, <1>10 DEF NotesAdded

\* There are no notes of a section nothing is drawn of.
LEMMA NoNotesIn ==
    ASSUME NEW q, NEW s, \A k \in DOMAIN q : q[k].what = "note" => q[k].item[1] # s
    PROVE  NotesIn(q, s) = 0
<1>1. {k \in DOMAIN q : q[k].what = "note" /\ q[k].item[1] = s} = {}
  OBVIOUS
<1>2. QED
  BY <1>1, FS_EmptySet DEF NotesIn

------------------------------------------------------------------------------
\* Numbered items.

\* The first d items of section s.
Numbered(s, d) == [n \in 1..d |-> <<s, n>>]

\* One item more.
LEMMA NumberedLonger ==
    ASSUME NEW s \in Nat, NEW d \in Nat
    PROVE  /\ Numbered(s, d) \in Seq(Nat \X Nat) /\ Numbered(s, 0) = <<>>
           /\ Numbered(s, d + 1) = Append(Numbered(s, d), <<s, d + 1>>)
<1>1. \A n \in 1..d : <<s, n>> \in Nat \X Nat
  OBVIOUS
<1>2. Numbered(s, d) \in Seq(Nat \X Nat)
  BY <1>1 DEF Numbered
<1>3. Numbered(s, 0) = <<>>
  <2>1. 1..0 = {}
    OBVIOUS
  <2>2. QED
    BY <2>1 DEF Numbered
<1>4. PICK f, g : f = Numbered(s, d) /\ g = Numbered(s, d + 1)
  OBVIOUS
<1>5. /\ f = [n \in 1..d |-> f[n]] /\ g = [n \in 1..(d + 1) |-> g[n]]
      /\ \A n \in 1..d : f[n] = <<s, n>>
      /\ \A n \in 1..(d + 1) : g[n] = <<s, n>>
  BY <1>4 DEF Numbered
<1>6. \A n \in 1..d : g[n] = f[n]
  <2>1. \A n \in 1..d : n \in 1..(d + 1)
    OBVIOUS
  <2>2. QED
    BY <1>5, <2>1
<1>7. g = Append(f, g[d + 1])
  BY <1>5, <1>6, LongerByOne
<1>8. d + 1 \in 1..(d + 1)
  OBVIOUS
<1>9. g[d + 1] = <<s, d + 1>>
  BY <1>5, <1>8
<1>10. QED
  BY <1>2, <1>3, <1>4, <1>7, <1>9

\* Three sequences joined.
LEMMA ThreeJoined ==
    ASSUME NEW S, NEW B, B = [s \in 1..3 |-> B[s]], \A s \in 1..3 : B[s] \in Seq(S)
    PROVE  FlattenSeq(B) = (B[1] \o B[2]) \o B[3]
<1>1. PICK none : none = [s \in 1..0 |-> B[s]]
  OBVIOUS
<1>2. PICK one : one = [s \in 1..1 |-> B[s]]
  OBVIOUS
<1>3. PICK two : two = [s \in 1..2 |-> B[s]]
  OBVIOUS
<1>4. /\ none = [s \in 1..0 |-> none[s]]
      /\ one = [s \in 1..(0 + 1) |-> one[s]] /\ one = [s \in 1..1 |-> one[s]]
      /\ two = [s \in 1..(1 + 1) |-> two[s]] /\ two = [s \in 1..2 |-> two[s]]
      /\ B = [s \in 1..(2 + 1) |-> B[s]]
  BY <1>1, <1>2, <1>3
<1>5. /\ \A s \in 1..1 : one[s] = B[s]
      /\ \A s \in 1..2 : two[s] = B[s]
      /\ one[0 + 1] = B[1] /\ two[1 + 1] = B[2] /\ B[2 + 1] = B[3]
      /\ \A s \in 1..1 : s \in 1..2 /\ s \in 1..3
      /\ \A s \in 1..2 : s \in 1..3
  BY <1>2, <1>3
<1>6. FlattenSeq(none) = <<>>
  <2>1. none = <<>>
    <3>1. 1..0 = {}
      OBVIOUS
    <3>2. QED
      BY <1>1, <3>1
  <2>2. QED
    BY <2>1 DEF FlattenSeq
<1>7. JoinsOn(none, one[0 + 1], one)
  <2>1. \A s \in 1..(0 + 1) : one[s] \in Seq(S)
    BY <1>5
  <2>2. \A s \in 1..0 : one[s] = none[s]
    OBVIOUS
  <2>3. 0 \in Nat
    OBVIOUS
  <2>4. QED
    BY <1>4, <2>1, <2>2, <2>3, FlattenLonger
<1>8. JoinsOn(one, two[1 + 1], two)
  <2>1. \A s \in 1..(1 + 1) : two[s] \in Seq(S)
    BY <1>5
  <2>2. \A s \in 1..1 : two[s] = one[s]
    BY <1>5
  <2>3. QED
    BY <1>4, <2>1, <2>2, FlattenLonger
<1>9. JoinsOn(two, B[2 + 1], B)
  <2>1. \A s \in 1..(2 + 1) : B[s] \in Seq(S)
    OBVIOUS
  <2>2. \A s \in 1..2 : B[s] = two[s]
    BY <1>5
  <2>3. QED
    BY <1>4, <2>1, <2>2, FlattenLonger
<1>10. /\ FlattenSeq(one) = <<>> \o B[1]
       /\ FlattenSeq(two) = FlattenSeq(one) \o B[2]
       /\ FlattenSeq(B) = FlattenSeq(two) \o B[3]
  BY <1>5, <1>6, <1>7, <1>8, <1>9 DEF JoinsOn
<1>11. <<>> \o B[1] = B[1]
  <2>1. B[1] \in Seq(S)
    OBVIOUS
  <2>2. QED
    BY <2>1
<1>12. QED
  BY <1>10, <1>11

\* A note more, of a section after which there are none yet, comes last.
LEMMA OneNoteMore ==
    ASSUME NEW d \in [Sections -> Nat], NEW s \in Sections,
           \A r \in Sections : r > s => d[r] = 0,
           NEW e, e = [d EXCEPT ![s] = d[s] + 1]
    PROVE  NotesUpTo(e) = Append(NotesUpTo(d), <<s, d[s] + 1>>)
<1>1. /\ Sections = 1..3 /\ e \in [Sections -> Nat] /\ e[s] = d[s] + 1
      /\ \A r \in 1..3 : r # s => e[r] = d[r]
  BY DEF Sections
<1>2. \A f \in [Sections -> Nat] :
         NotesUpTo(f) = (Numbered(1, f[1]) \o Numbered(2, f[2])) \o Numbered(3, f[3])
  <2> TAKE f \in [Sections -> Nat]
  <2>1. PICK B : B = [r \in 1..3 |-> Numbered(r, f[r])]
    OBVIOUS
  <2>2. B = [r \in 1..3 |-> B[r]] /\ \A r \in 1..3 : B[r] = Numbered(r, f[r])
    BY <2>1
  <2>3. \A r \in 1..3 : B[r] \in Seq(Nat \X Nat)
    <3>1. ASSUME NEW r \in 1..3 PROVE Numbered(r, f[r]) \in Seq(Nat \X Nat)
      <4>1. PICK d1 : d1 = f[r]
        OBVIOUS
      <4>2. r \in Nat /\ d1 \in Nat
        BY <1>1, <4>1
      <4>3. Numbered(r, d1) \in Seq(Nat \X Nat)
        BY <4>2, NumberedLonger
      <4>4. QED
        BY <4>1, <4>3
    <3>2. QED
      BY <2>2, <3>1
  <2>4. FlattenSeq(B) = (B[1] \o B[2]) \o B[3]
    BY <2>2, <2>3, ThreeJoined
  <2>5. NotesUpTo(f) = FlattenSeq(B)
    BY <1>1, <2>1 DEF NotesUpTo, Numbered
  <2>6. 1 \in 1..3 /\ 2 \in 1..3 /\ 3 \in 1..3
    OBVIOUS
  <2>7. QED
    BY <2>2, <2>4, <2>5, <2>6
<1>3. /\ d[1] \in Nat /\ d[2] \in Nat /\ d[3] \in Nat
  BY <1>1
<1>4. PICK a, b, c : a = Numbered(1, d[1]) /\ b = Numbered(2, d[2]) /\ c = Numbered(3, d[3])
  OBVIOUS
<1>5. a \in Seq(Nat \X Nat) /\ b \in Seq(Nat \X Nat) /\ c \in Seq(Nat \X Nat)
  BY <1>3, <1>4, NumberedLonger
<1> DEFINE P == Nat \X Nat
<1>6. PICK x : x = <<s, d[s] + 1>>
  OBVIOUS
<1>7. x \in Nat \X Nat
  BY <1>1, <1>3, <1>6
<1>7a. a \in Seq(P) /\ b \in Seq(P) /\ c \in Seq(P) /\ x \in P
  BY <1>5, <1>7
<1> HIDE DEF P
<1>8. /\ NotesUpTo(d) = (a \o b) \o c
      /\ NotesUpTo(e) = (Numbered(1, e[1]) \o Numbered(2, e[2])) \o Numbered(3, e[3])
  BY <1>1, <1>2, <1>4
<1>9. \A r \in 1..3 : Numbered(r, d[r] + 1) = Append(Numbered(r, d[r]), <<r, d[r] + 1>>)
  <2>1. \A r \in 1..3 : r \in Nat /\ d[r] \in Nat
    BY <1>1
  <2>2. QED
    BY <2>1, NumberedLonger
<1>10. \A r \in 1..3 : r > s => Numbered(r, d[r]) = <<>>
  <2>1. \A r \in 1..3 : r > s => d[r] = 0
    BY <1>1
  <2>2. QED
    BY <2>1, NumberedLonger
<1>11. CASE s = 1
  <2>1. Numbered(1, e[1]) = Append(a, x) /\ Numbered(2, e[2]) = b /\ Numbered(3, e[3]) = c
    BY <1>1, <1>4, <1>6, <1>9, <1>11
  <2>2. b = <<>> /\ c = <<>>
    BY <1>4, <1>10, <1>11
  <2>3. (Append(a, x) \o <<>>) \o <<>> = Append((a \o <<>>) \o <<>>, x)
    BY <1>7a
  <2>4. QED
    BY <1>6, <1>8, <2>1, <2>2, <2>3
<1>12. CASE s = 2
  <2>1. Numbered(1, e[1]) = a /\ Numbered(2, e[2]) = Append(b, x) /\ Numbered(3, e[3]) = c
    BY <1>1, <1>4, <1>6, <1>9, <1>12
  <2>2. c = <<>>
    BY <1>4, <1>10, <1>12
  <2>3. (a \o Append(b, x)) \o <<>> = Append((a \o b) \o <<>>, x)
    <3>1. a \o Append(b, x) = Append(a \o b, x) /\ a \o b \in Seq(P)
      BY <1>7a, ConcatAppend
    <3>2. PICK u : u = a \o b
      OBVIOUS
    <3>3. Append(u, x) \o <<>> = Append(u \o <<>>, x)
      BY <1>7a, <3>1, <3>2
    <3>4. QED
      BY <3>1, <3>2, <3>3
  <2>4. QED
    BY <1>6, <1>8, <2>1, <2>2, <2>3
<1>13. CASE s = 3
  <2>1. Numbered(1, e[1]) = a /\ Numbered(2, e[2]) = b /\ Numbered(3, e[3]) = Append(c, x)
    BY <1>1, <1>4, <1>6, <1>9, <1>13
  <2>2. PICK u : u = a \o b
    OBVIOUS
  <2>3. u \in Seq(P)
    BY <1>7a, <2>2
  <2>4. u \o Append(c, x) = Append(u \o c, x)
    BY <1>7a, <2>3, ConcatAppend
  <2>5. QED
    BY <1>6, <1>8, <2>1, <2>2, <2>4
<1>14. s = 1 \/ s = 2 \/ s = 3
  BY <1>1
<1>15. QED
  BY <1>11, <1>12, <1>13, <1>14

------------------------------------------------------------------------------
\* Wrapping.

\* A round of WrapText puts the next word behind those the lines have, and so does
\* not make more lines than there are words; returning changes nothing.
LEMMA SpeltStep ==
    ASSUME WrapInv, SpeltInv, taken = 0 => lines = <<>> /\ currentLine = EmptyLine,
           WrapNext
    PROVE  SpeltInv'
<1> DEFINE S == Nat \ {0}
           Upto(t) == [n \in 1..t |-> n]
<1>1. /\ words \in Seq(S) /\ taken \in Nat /\ lines \in Seq(LineType)
      /\ currentLine \in LineType /\ wrapping = "words"
      /\ LinesSoFar = Append(lines, currentLine)
      /\ \A line \in LineType : line.words \in Seq(S) /\ line.length \in Nat
      /\ currentLine.length = 0 <=> currentLine.words = <<>>
      /\ currentLine.words = <<>> => taken = 0 /\ lines = <<>>
  <2>1. WrapTypeOK /\ CurrentLineInv /\ wrapping = "words"
    BY DEF WrapInv, WrapNext, TakeWord, ReturnLines
  <2>2. \A line \in LineType : line.words \in Seq(S) /\ line.length \in Nat
    BY DEF LineType
  <2>3. QED
    BY <2>1, <2>2, LengthFacts DEF WrapTypeOK, CurrentLineInv, LinesSoFar
<1>2. /\ Spelt(LinesSoFar) = Upto(taken)
      /\ taken > 0 => Len(LinesSoFar) <= taken
  BY DEF SpeltInv, Spelt
<1>3. LinesSoFar \in Seq(LineType) /\ Len(LinesSoFar) = Len(lines) + 1 /\ Len(lines) \in Nat
  BY <1>1, AppendFacts
<1>4. SUFFICES ASSUME TRUE
               PROVE  /\ Spelt(LinesSoFar') = Upto(taken')
                      /\ taken' > 0 => Len(LinesSoFar') <= taken'
  BY <1>4 DEF SpeltInv, Spelt
<1> HIDE DEF S
<1>5. CASE TakeWord
  <2>1. PICK n : n = taken + 1
    OBVIOUS
  <2>2. /\ taken' = n /\ n \in S /\ wrapping' = "words" /\ n \in Nat /\ n - 1 = taken
        /\ LinesSoFar' = Append(lines', currentLine')
    BY <1>1, <1>5, <2>1 DEF TakeWord, LinesSoFar, S
  <2>3. Upto(n) = Append(Upto(taken), n)
    <3>1. PICK f, g : f = Upto(taken) /\ g = Upto(n)
      OBVIOUS
    <3>2. /\ f = [m \in 1..taken |-> f[m]] /\ g = [m \in 1..n |-> g[m]]
          /\ \A m \in 1..taken : f[m] = m
          /\ \A m \in 1..n : g[m] = m
      BY <3>1
    <3>3. (\A m \in 1..taken : m \in 1..n) /\ n \in 1..n
      BY <1>1, <2>1
    <3>4. /\ g = [m \in 1..(taken + 1) |-> g[m]] /\ \A m \in 1..taken : g[m] = f[m]
          /\ g[taken + 1] = n
      BY <2>1, <3>2, <3>3
    <3>5. g = Append(f, g[taken + 1])
      BY <1>1, <3>2, <3>4, LongerByOne
    <3>6. QED
      BY <3>1, <3>4, <3>5
  <2>4. Upto(taken) \in Seq(S)
    <3>1. \A m \in 1..taken : m \in S
      BY <1>1 DEF S
    <3>2. QED
      BY <1>1, <3>1
  <2> HIDE DEF Upto
  <2>5. CASE Closes(words[n])
    <3>1. lines' = Append(lines, currentLine) /\ currentLine' = AppendWord(EmptyLine, n)
      BY <1>5, <2>1, <2>5 DEF TakeWord
    <3>2. currentLine'.words = <<n>>
      BY <3>1 DEF AppendWord, EmptyLine
    <3>3. LinesSoFar' = Append(LinesSoFar, currentLine')
      BY <1>1, <2>2, <3>1
    <3>4. currentLine' \in LineType
      BY <1>5, WrapTakes DEF WrapInv, WrapTypeOK
    <3>5. Spelt(LinesSoFar') = Spelt(LinesSoFar) \o <<n>>
      <4>1. SpelledOn(LinesSoFar, currentLine', LinesSoFar')
        BY <1>1, <1>3, <3>3, <3>4, SpeltLonger
      <4>2. QED
        BY <3>2, <4>1 DEF SpelledOn
    <3>6. Upto(taken) \o <<n>> = Append(Upto(taken), n)
      BY <2>2, <2>4
    <3>7. Len(LinesSoFar') = Len(LinesSoFar) + 1
      BY <1>3, <3>3, <3>4, AppendFacts
    <3>8. taken > 0
      <4>1. currentLine.length > 0
        BY <2>5 DEF Closes
      <4>2. currentLine # EmptyLine
        BY <4>1 DEF EmptyLine
      <4>3. QED
        BY <1>1, <4>2
    <3>9. Spelt(LinesSoFar') = Upto(taken')
      BY <1>2, <2>2, <2>3, <3>5, <3>6
    <3>10. Len(LinesSoFar) <= taken
      BY <1>2, <3>8
    <3>11. Len(LinesSoFar') <= taken'
      <4>1. PICK m, m2 : m = Len(LinesSoFar) /\ m2 = Len(LinesSoFar')
        OBVIOUS
      <4>2. m \in Nat /\ m2 = m + 1 /\ m <= taken
        BY <1>3, <3>7, <3>10, <4>1
      <4>3. m2 <= n
        BY <1>1, <2>1, <4>2
      <4>4. QED
        BY <2>2, <4>1, <4>3
    <3>12. QED
      BY <3>9, <3>11
  <2>6. CASE ~Closes(words[n])
    <3>1. lines' = lines /\ currentLine' = AppendWord(currentLine, n)
      BY <1>5, <2>1, <2>6 DEF TakeWord
    <3>2. currentLine'.words = Append(currentLine.words, n)
      BY <3>1 DEF AppendWord
    <3>3. LinesSoFar' = Append(lines, currentLine')
      BY <2>2, <3>1
    <3>4. currentLine' \in LineType
      BY <1>5, WrapTakes DEF WrapInv, WrapTypeOK
    <3>5. PICK u : u = Spelt(lines)
      OBVIOUS
    <3>6. /\ u \in Seq(S)
          /\ Spelt(LinesSoFar) = u \o currentLine.words
          /\ Spelt(LinesSoFar') = u \o currentLine'.words
      <4>1. u \in Seq(S) /\ SpelledOn(lines, currentLine, LinesSoFar)
        BY <1>1, <3>5, SpeltLonger
      <4>2. SpelledOn(lines, currentLine', LinesSoFar')
        BY <1>1, <3>3, <3>4, SpeltLonger
      <4>3. QED
        BY <3>5, <4>1, <4>2 DEF SpelledOn
    <3>7. u \o Append(currentLine.words, n) = Append(u \o currentLine.words, n)
      <4>1. PICK w : w = currentLine.words
        OBVIOUS
      <4>2. w \in Seq(S) /\ u \in Seq(S) /\ n \in S
        BY <1>1, <2>2, <3>6, <4>1
      <4>3. u \o Append(w, n) = Append(u \o w, n)
        BY <4>2, ConcatAppend
      <4>4. QED
        BY <4>1, <4>3
    <3>8. Spelt(LinesSoFar') = Upto(n)
      BY <1>2, <2>3, <3>2, <3>6, <3>7
    <3>9. Len(LinesSoFar') = Len(lines) + 1
      BY <1>1, <3>3, <3>4, AppendFacts
    <3>10. Len(LinesSoFar') <= n
      <4>1. CASE taken = 0
        <5>1. Len(lines) = 0
          BY <4>1
        <5>2. QED
          BY <2>1, <3>9, <4>1, <5>1
      <4>2. CASE taken # 0
        BY <1>1, <1>2, <1>3, <2>1, <3>9, <4>2
      <4>3. QED
        BY <4>1, <4>2
    <3>11. QED
      BY <2>2, <3>8, <3>10
  <2>7. QED
    BY <2>5, <2>6
<1>6. CASE ReturnLines
  <2>1. /\ taken' = taken /\ wrapping' = "wrapped" /\ LinesSoFar' = lines'
        /\ lines' = IF currentLine.length > 0 THEN Append(lines, currentLine) ELSE lines
    BY <1>6 DEF ReturnLines, LinesSoFar
  <2>2. CASE currentLine.length > 0
    BY <1>1, <1>2, <2>1, <2>2
  <2>3. CASE ~(currentLine.length > 0)
    <3>1. taken = 0 /\ lines = <<>>
      BY <1>1, <2>3
    <3>2. LinesSoFar' = <<>>
      BY <2>1, <2>3, <3>1
    <3>3. Spelt(<<>>) = <<>>
      <4>1. DOMAIN <<>> = {}
        OBVIOUS
      <4>2. [k \in DOMAIN <<>> |-> <<>>[k].words] = <<>>
        BY <4>1
      <4>3. QED
        BY <4>2 DEF Spelt, FlattenSeq
    <3>4. Upto(0) = <<>>
      <4>1. 1..0 = {}
        OBVIOUS
      <4>2. QED
        BY <4>1
    <3>5. QED
      BY <2>1, <3>1, <3>2, <3>3, <3>4
  <2>4. QED
    BY <2>2, <2>3
<1>7. QED
  BY <1>5, <1>6 DEF WrapNext
------------------------------------------------------------------------------
\* What a state is made of.

\* The types of the canvas and of the notes, spelled out.
LEMMA CanvasTypes ==
    ASSUME TypeOK
    PROVE  /\ ElementType \subseteq Elements /\ drawn \in Seq(Elements)
           /\ Len(drawn) \in Nat /\ DOMAIN drawn = 1..Len(drawn)
           /\ \A k \in DOMAIN drawn : drawn[k].top \in Nat /\ drawn[k].bottom \in Nat
           /\ currentY \in Nat /\ section \in 1..3 /\ section \in Nat
           /\ lines \in Seq(LineType) /\ Len(lines) \in Nat
           /\ words \in Seq(Nat \ {0}) /\ Len(words) \in Nat /\ taken \in Nat
<1>1. words \in Seq(Nat \ {0}) /\ lines \in Seq(LineType) /\ taken \in 0..Len(words)
  BY DEF TypeOK, WrapTypeOK
<1>2. Len(words) \in Nat /\ Len(lines) \in Nat
  BY <1>1, LengthFacts
<1>3. section \in 1..3 /\ currentY \in Nat
  BY DEF TypeOK, Sections
<1>4. ElementType \subseteq Elements
  <2>1. 1..Len(words) \subseteq Nat /\ Sections \subseteq Nat
    BY <1>2 DEF Sections
  <2>2. {0} \X (1..Len(words)) \subseteq Nat \X Nat /\ Sections \X Nat \subseteq Nat \X Nat
    <3>1. \A A, B : A \subseteq Nat /\ B \subseteq Nat => A \X B \subseteq Nat \X Nat
      OBVIOUS
    <3>2. {0} \subseteq Nat /\ Nat \subseteq Nat
      OBVIOUS
    <3>3. QED
      BY <2>1, <3>1, <3>2
  <2>3. ({0} \X (1..Len(words))) \cup (Sections \X Nat) \subseteq Nat \X Nat
    BY <2>2
  <2>4. QED
    BY <2>3 DEF ElementType, Elements
<1>5. drawn \in Seq(Elements) /\ Len(drawn) \in Nat /\ DOMAIN drawn = 1..Len(drawn)
  <2>1. drawn \in Seq(ElementType)
    BY DEF TypeOK
  <2> HIDE DEF ElementType, Elements
  <2>2. QED
    BY <1>4, <2>1
<1>6. \A k \in DOMAIN drawn : drawn[k].top \in Nat /\ drawn[k].bottom \in Nat
  <2>1. \A k \in DOMAIN drawn : drawn[k] \in Elements
    BY <1>5
  <2>2. QED
    BY <2>1 DEF Elements
<1>7. QED
  BY <1>1, <1>2, <1>3, <1>4, <1>5, <1>6

\* What is on the canvas are elements.
LEMMA CanvasElements == TypeOK => drawn \in Seq(Elements)
BY CanvasTypes

\* The same after a step.
LEMMA CanvasElementsThen == TypeOK' => (drawn \in Seq(Elements))'
BY CanvasElements, PTL

\* The notes of a page are a sequence in every section.
LEMMA NoteTypes ==
    ASSUME TypeOK, NEW s \in Sections
    PROVE  /\ Len(notes[s]) \in Nat /\ DOMAIN notes[s] = 1..Len(notes[s])
           /\ notes[s] = <<>> <=> Len(notes[s]) = 0
           /\ s \in Nat /\ s \in 1..3
<1> DEFINE N == [prefix : Nat, words : Seq(Nat)]
<1>1. notes \in [Sections -> Seq(N)]
  BY NotesAssumption DEF TypeOK
<1> HIDE DEF N
<1>2. notes[s] \in Seq(N)
  BY <1>1
<1>3. QED
  BY <1>2, LengthFacts DEF Sections

\* The number of notes on the canvas is a number.
LEMMA NotesInType ==
    ASSUME NEW q \in Seq(Elements), NEW s
    PROVE  NotesIn(q, s) \in Nat
<1>1. PICK e : e = [what |-> "line", item |-> <<0, 0>>, top |-> 0, bottom |-> 0]
  OBVIOUS
<1>2. e \in Elements
  BY <1>1 DEF Elements
<1>3. PICK longer : longer = Append(q, e)
  OBVIOUS
<1>4. NotesAdded(q, e, s, longer)
  BY <1>2, <1>3, NotesLonger
<1>5. QED
  BY <1>4 DEF NotesAdded

\* What is of kind "note" and how many notes there are, in terms of the canvas.
LEMMA CanvasCounts ==
    /\ NotesDrawn = NotesIn(drawn, section)
    /\ \A what : Items(what) = ItemsOf(drawn, what)
    /\ LinesInv <=> /\ LinesDrawn <= Len(lines)
                    /\ ItemsOf(drawn, "line") = Numbered(0, LinesDrawn)
BY DEF NotesDrawn, NotesIn, Items, ItemsOf, LinesInv, Numbered
------------------------------------------------------------------------------
\* What a step keeps.

\* A step that leaves the wrap alone keeps what is known of it.
LEMMA WrapKept ==
    ASSUME WrapInv, SpeltInv, UNCHANGED wrapVars
    PROVE  WrapInv' /\ SpeltInv'
<1>1. /\ words' = words /\ taken' = taken /\ currentLine' = currentLine
      /\ lines' = lines /\ wrapping' = wrapping
  BY DEF wrapVars
<1>2. WrapInv'
  BY <1>1 DEF WrapInv, WrapTypeOK, LinesWithinBound, WordsInOrder,
              LinesFilled, CurrentLineInv, Consecutive, FirstWord, LastWord
<1>3. SpeltInv'
  BY <1>1 DEF SpeltInv, LinesSoFar
<1>4. QED
  BY <1>2, <1>3

\* A step that leaves the buffer alone keeps what is known of it.
LEMMA BufferKept ==
    ASSUME TypeOK, GlyphsInv, UNCHANGED <<content, glyphs>>
    PROVE  /\ GlyphsInv' /\ (glyphs \in Seq(GlyphType))' /\ content' \in Contents
           /\ Len(glyphs') <= Len(content')
<1>1. GlyphsInv'
  BY DEF GlyphsInv
<1>2. GlyphType' = GlyphType
  BY DEF GlyphType
<1>3. QED
  BY <1>1, <1>2 DEF TypeOK

\* An element drawn at or below the height reached, which is not higher after it, is
\* below all others.
LEMMA Draws ==
    ASSUME TypeOK, AboveInv, OneBelowAnother, NEW e \in ElementType,
           drawn' = Append(drawn, e), words' = words, stage' # "drawn",
           currentY' \in Nat, currentY <= e.top, e.top <= e.bottom, e.bottom <= currentY'
    PROVE  /\ (drawn \in Seq(ElementType))' /\ AboveInv' /\ OneBelowAnother'
           /\ Len(drawn') = Len(drawn) + 1
           /\ \A k \in DOMAIN drawn' :
                 drawn'[k] = e \/ (k \in DOMAIN drawn /\ drawn'[k] = drawn[k])
<1>1. PICK t : t = Len(drawn)
  OBVIOUS
<1>2. /\ t \in Nat /\ DOMAIN drawn = 1..t /\ drawn \in Seq(ElementType)
      /\ \A k \in 1..t : drawn[k].top \in Nat /\ drawn[k].bottom \in Nat
      /\ currentY \in Nat /\ ElementType \subseteq Elements
  BY <1>1, CanvasTypes DEF TypeOK
<1>3. e.top \in Nat /\ e.bottom \in Nat
  BY <1>2 DEF Elements
<1>4. ElementType' = ElementType
  BY DEF ElementType
<1> HIDE DEF ElementType
<1>5. /\ drawn' \in Seq(ElementType) /\ Len(drawn') = t + 1 /\ drawn'[t + 1] = e
      /\ \A k \in 1..t : drawn'[k] = drawn[k]
  BY <1>1, <1>2
<1>6. DOMAIN drawn' = 1..(t + 1)
  <2>1. DOMAIN drawn' = 1..Len(drawn')
    BY <1>5
  <2>2. QED
    BY <1>5, <2>1
<1>7. \A k \in 1..(t + 1) : k \in 1..t \/ k = t + 1
  BY <1>2
<1>8. AboveInv'
  <2>1. \A k \in 1..t : drawn[k].bottom <= currentY
    BY <1>2 DEF AboveInv
  <2>2. currentY <= currentY'
    BY <1>2, <1>3
  <2>3. \A k \in 1..t : drawn'[k].bottom <= currentY'
    BY <1>2, <1>5, <2>1, <2>2
  <2>4. QED
    BY <1>5, <1>6, <1>7, <2>3 DEF AboveInv
<1>9. OneBelowAnother'
  <2>1. ASSUME NEW k \in 1..t
        PROVE  drawn'[k].bottom <= drawn'[k + 1].top
    <3>1. CASE k = t
      <4>1. drawn[k].bottom <= currentY
        BY <1>2 DEF AboveInv
      <4>2. drawn'[k] = drawn[k] /\ drawn'[k + 1] = e
        BY <1>5, <3>1
      <4>3. drawn[k].bottom \in Nat
        BY <1>2
      <4>4. QED
        BY <1>2, <1>3, <4>1, <4>2, <4>3
    <3>2. CASE k # t
      <4>1. k \in 1..(t - 1) /\ k + 1 \in 1..t
        BY <1>2, <3>2
      <4>2. drawn[k].bottom <= drawn[k + 1].top
        BY <1>1, <4>1 DEF OneBelowAnother
      <4>3. QED
        BY <1>5, <4>1, <4>2
    <3>3. QED
      BY <3>1, <3>2
  <2>2. Len(drawn') - 1 = t
    BY <1>2, <1>5
  <2>3. QED
    BY <2>1, <2>2 DEF OneBelowAnother
<1>10. \A k \in DOMAIN drawn' :
          drawn'[k] = e \/ (k \in DOMAIN drawn /\ drawn'[k] = drawn[k])
  BY <1>2, <1>5, <1>6, <1>7
<1>11. (drawn \in Seq(ElementType))'
  BY <1>4, <1>5
<1>12. QED
  BY <1>1, <1>5, <1>8, <1>9, <1>10, <1>11

\* What the height reached bounds, it still bounds if nothing is drawn.
LEMMA CanvasKept ==
    ASSUME TypeOK, AboveInv, OneBelowAnother, drawn' = drawn, words' = words,
           currentY' = currentY, stage' # "drawn"
    PROVE  (drawn \in Seq(ElementType))' /\ AboveInv' /\ OneBelowAnother'
<1>1. ElementType' = ElementType
  BY DEF ElementType
<1>2. (drawn \in Seq(ElementType))'
  BY <1>1 DEF TypeOK
<1>3. QED
  BY <1>2 DEF AboveInv, OneBelowAnother

\* What an element more is to the lines and notes on the canvas.
LEMMA OneElementMore ==
    ASSUME TypeOK, NEW e \in ElementType, drawn' = Append(drawn, e)
    PROVE  /\ ItemAdded(drawn, e, "line", drawn') /\ ItemAdded(drawn, e, "note", drawn')
           /\ NotesIn(drawn, section) \in Nat
           /\ NotesIn(drawn', section)
                = IF e.what = "note" /\ e.item[1] = section THEN NotesIn(drawn, section) + 1
                  ELSE NotesIn(drawn, section)
<1>1. PICK longer : longer = drawn'
  OBVIOUS
<1>2. drawn \in Seq(Elements) /\ e \in Elements /\ longer = Append(drawn, e)
  BY <1>1, CanvasTypes
<1>3. ItemAdded(drawn, e, "line", longer) /\ ItemAdded(drawn, e, "note", longer)
  BY <1>2, ItemsLonger
<1>4. /\ NotesIn(drawn, section) \in Nat
      /\ NotesIn(longer, section)
           = IF e.what = "note" /\ e.item[1] = section THEN NotesIn(drawn, section) + 1
             ELSE NotesIn(drawn, section)
  <2>1. PICK s : s = section
    OBVIOUS
  <2>2. /\ NotesIn(drawn, s) \in Nat
        /\ NotesIn(longer, s) = IF e.what = "note" /\ e.item[1] = s
                                 THEN NotesIn(drawn, s) + 1 ELSE NotesIn(drawn, s)
    <3>1. NotesAdded(drawn, e, s, longer)
      BY <1>2, NotesLonger
    <3>2. QED
      BY <3>1 DEF NotesAdded
  <2>3. QED
    BY <2>1, <2>2
<1>5. QED
  BY <1>1, <1>3, <1>4

\* If nothing but a note is drawn, the lines stay those on the canvas.
LEMMA LinesStay ==
    ASSUME LinesInv, ItemsOf(drawn', "line") = ItemsOf(drawn, "line"),
           lines' = lines, LinesDrawn' = LinesDrawn
    PROVE  LinesInv'
<1>1. ItemsOf(drawn, "line") = Numbered(0, LinesDrawn) /\ LinesDrawn <= Len(lines)
  BY CanvasCounts
<1>2. Items("line")' = ItemsOf(drawn', "line")
  BY DEF Items, ItemsOf
<1>3. PICK d : d = LinesDrawn
  OBVIOUS
<1>4. LinesDrawn' = d /\ Items("line")' = Numbered(0, d) /\ d <= Len(lines')
  BY <1>1, <1>2, <1>3
<1>5. QED
  BY <1>4 DEF LinesInv, Numbered
\* If no note is drawn, and as many are done of every section as before, the notes
\* stay those on the canvas.
LEMMA NotesStay ==
    ASSUME NotesInv, ItemsOf(drawn', "note") = ItemsOf(drawn, "note"),
           \A s \in Sections : Done(s)' = Done(s),
           NotesDrawn' = IF stage' \in {"notes", "drawn"} THEN Done(section)' ELSE 0,
           NotesDrawn' <= Len(notes'[section']),
           \A k \in DOMAIN drawn' :
              drawn'[k].what = "note" => drawn'[k].item[1] <= section'
    PROVE  NotesInv'
<1>1. PICK d : d = [s \in Sections |-> Done(s)]
  OBVIOUS
<1>2. ItemsOf(drawn, "note") = NotesUpTo(d)
  BY <1>1, CanvasCounts DEF NotesInv
<1>3. [s \in Sections |-> Done(s)]' = d
  BY <1>1
<1>4. Items("note")' = ItemsOf(drawn', "note")
  BY DEF Items, ItemsOf
<1>5. (Items("note") = NotesUpTo([s \in Sections |-> Done(s)]))'
  BY <1>2, <1>3, <1>4
<1> HIDE DEF Done, NotesDrawn, Items, NotesUpTo
<1>6. QED
  BY <1>5 DEF NotesInv

\* The notes on the canvas, if none is drawn and the section stays, are as before.
LEMMA DoneStays ==
    ASSUME NotesInv, stage \notin {"notes", "drawn"}, stage' \notin {"notes", "drawn"},
           notes' = notes, section' = section,
           NotesIn(drawn', section) = NotesIn(drawn, section),
           ItemsOf(drawn', "note") = ItemsOf(drawn, "note"),
           \A k \in DOMAIN drawn' :
              drawn'[k].what = "note" => \E j \in DOMAIN drawn : drawn'[k] = drawn[j]
    PROVE  NotesInv'
<1>1. \A s \in Sections : Done(s)' = Done(s)
  BY DEF Done
<1>2. NotesDrawn' = NotesDrawn
  BY DEF NotesDrawn, NotesIn
<1>3. NotesDrawn = 0 /\ NotesDrawn <= Len(notes[section])
  BY DEF NotesInv
<1>4. \A k \in DOMAIN drawn' :
         drawn'[k].what = "note" => drawn'[k].item[1] <= section'
  BY DEF NotesInv
<1>5. NotesDrawn' = IF stage' \in {"notes", "drawn"} THEN Done(section)' ELSE 0
  BY <1>2, <1>3
<1>6. NotesDrawn' <= Len(notes'[section'])
  BY <1>2, <1>3
<1>7. QED
  BY <1>1, <1>4, <1>5, <1>6, NotesStay
------------------------------------------------------------------------------
\* The invariant holds in the first state and is kept by every step.

\* Joining nothing gives nothing.
LEMMA NothingJoined ==
    /\ FlattenSeq(<<>>) = <<>> /\ Spelt(<<>>) = <<>>
    /\ \A what : ItemsOf(<<>>, what) = <<>>
    /\ \A s : NotesIn(<<>>, s) = 0
<1>1. DOMAIN <<>> = {}
  OBVIOUS
<1>2. FlattenSeq(<<>>) = <<>>
  BY DEF FlattenSeq
<1>3. [k \in DOMAIN <<>> |-> <<>>[k].words] = <<>>
  BY <1>1
<1>4. Spelt(<<>>) = <<>>
  BY <1>2, <1>3 DEF Spelt
<1>5. ASSUME NEW what
      PROVE  ItemsOf(<<>>, what) = <<>>
  <2>1. [k \in DOMAIN <<>> |-> IF <<>>[k].what = what THEN <<<<>>[k].item>> ELSE <<>>] = <<>>
    BY <1>1
  <2>2. QED
    BY <1>2, <2>1 DEF ItemsOf
<1>6. \A s : NotesIn(<<>>, s) = 0
  BY <1>1, NoNotesIn
<1>7. QED
  BY <1>2, <1>4, <1>5, <1>6

\* No notes of any section are no notes.
LEMMA NoNotesYet ==
    ASSUME NEW d, d = [s \in Sections |-> 0]
    PROVE  NotesUpTo(d) = <<>>
<1>1. PICK B : B = [s \in 1..3 |-> Numbered(s, 0)]
  OBVIOUS
<1>2. \A s \in 1..3 : Numbered(s, 0) = <<>>
  BY NumberedLonger
<1>3. B = [s \in 1..3 |-> B[s]] /\ \A s \in 1..3 : B[s] = <<>>
  BY <1>1, <1>2
<1>4. \A s \in 1..3 : B[s] \in Seq(Nat)
  <2>1. <<>> \in Seq(Nat)
    OBVIOUS
  <2>2. QED
    BY <1>3, <2>1
<1>5. FlattenSeq(B) = (<<>> \o <<>>) \o <<>>
  <2>1. FlattenSeq(B) = (B[1] \o B[2]) \o B[3]
    BY <1>3, <1>4, ThreeJoined
  <2>2. 1 \in 1..3 /\ 2 \in 1..3 /\ 3 \in 1..3
    OBVIOUS
  <2>3. QED
    BY <1>3, <2>1, <2>2
<1>6. NotesUpTo(d) = FlattenSeq(B)
  BY <1>1 DEF NotesUpTo, Numbered, Sections
<1>7. <<>> \o <<>> = <<>>
  <2>1. <<>> \in Seq(Nat)
    OBVIOUS
  <2>2. QED
    BY <2>1
<1>8. QED
  BY <1>5, <1>6, <1>7

\* So it is when a page is selected: nothing is laid out, nothing is drawn.
LEMMA PreviewInitially == Init => PreviewInv
<1> SUFFICES ASSUME Init PROVE PreviewInv
  OBVIOUS
<1>1. /\ glyphs = <<>> /\ drawn = <<>> /\ words = <<>> /\ taken = 0 /\ lines = <<>>
      /\ currentLine = EmptyLine /\ wrapping = "words" /\ stage = "layout"
      /\ currentY = 800 /\ section = 1 /\ numberTop = 0
      /\ content \in Contents /\ notes \in Notes
  BY DEF Init, StartY
<1>2. Fresh
  BY <1>1 DEF Fresh
<1>3. WrapInv
  BY <1>2, WrapFresh
<1>4. TypeOK
  <2>1. Len(content) \in Nat
    BY <1>1, ContentsAssumption
  <2>2. glyphs \in Seq(GlyphType) /\ Len(glyphs) <= Len(content)
    BY <1>1, <2>1
  <2>3. drawn \in Seq(ElementType)
    BY <1>1
  <2>4. WrapTypeOK
    BY <1>3 DEF WrapInv
  <2>5. QED
    BY <1>1, <2>2, <2>3, <2>4 DEF TypeOK, Sections
<1>5. GlyphsInv
  BY <1>1 DEF GlyphsInv
<1>6. StageInv
  BY <1>1 DEF StageInv
<1>7. SpeltInv
  <2>1. EmptyLine \in LineType /\ EmptyLine.words = <<>>
    BY DEF EmptyLine, LineType
  <2>2. LinesSoFar = Append(<<>>, EmptyLine)
    BY <1>1 DEF LinesSoFar
  <2>3. SpelledOn(<<>>, EmptyLine, LinesSoFar)
    <3>1. \A one \in LineType : one.words \in Seq(Nat \ {0})
      BY DEF LineType
    <3>2. <<>> \in Seq(LineType)
      OBVIOUS
    <3>3. PICK longer : longer = LinesSoFar
      OBVIOUS
    <3>4. SpelledOn(<<>>, EmptyLine, longer)
      BY <2>1, <2>2, <3>1, <3>2, <3>3, SpeltLonger
    <3>5. QED
      BY <3>3, <3>4
  <2>4. Spelt(LinesSoFar) = <<>> \o <<>>
    BY <2>1, <2>3, NothingJoined DEF SpelledOn
  <2>5. <<>> \o <<>> = <<>>
    <3>1. <<>> \in Seq(Nat)
      OBVIOUS
    <3>2. QED
      BY <3>1
  <2>6. [n \in 1..taken |-> n] = <<>>
    <3>1. 1..taken = {}
      BY <1>1
    <3>2. QED
      BY <3>1
  <2>7. Spelt(LinesSoFar) = [n \in 1..taken |-> n]
    BY <2>4, <2>5, <2>6
  <2>8. QED
    BY <1>1, <2>7 DEF SpeltInv, Spelt
<1>8. LinesInv
  <2>1. LinesDrawn = 0 /\ Len(lines) = 0
    BY <1>1 DEF LinesDrawn
  <2>2. ItemsOf(drawn, "line") = <<>> /\ Numbered(0, 0) = <<>>
    BY <1>1, NothingJoined, NumberedLonger
  <2>3. QED
    BY <2>1, <2>2, CanvasCounts
<1>9. NotesInv
  <2>1. NotesDrawn = 0
    BY <1>1, NothingJoined, CanvasCounts
  <2>2. Len(notes[section]) \in Nat
    BY <1>1, <1>4, NoteTypes DEF Sections
  <2>3. \A s \in Sections : Done(s) = 0
    <3>1. \A s \in Sections : ~(s < section)
      BY <1>1 DEF Sections
    <3>2. QED
      BY <1>1, <3>1 DEF Done
  <2>4. Items("note") = NotesUpTo([s \in Sections |-> Done(s)])
    <3>1. [s \in Sections |-> Done(s)] = [s \in Sections |-> 0]
      BY <2>3
    <3>2. NotesUpTo([s \in Sections |-> 0]) = <<>>
      BY NoNotesYet
    <3>3. Items("note") = <<>>
      BY <1>1, NothingJoined, CanvasCounts
    <3>4. QED
      BY <3>1, <3>2, <3>3
  <2>5. \A k \in DOMAIN drawn : drawn[k].what = "note" => drawn[k].item[1] <= section
    BY <1>1
  <2>6. QED
    BY <1>1, <2>1, <2>2, <2>4, <2>5 DEF NotesInv
<1>10. AboveInv /\ OneBelowAnother
  BY <1>1 DEF AboveInv, OneBelowAnother
<1>11. QED
  BY <1>3, <1>4, <1>5, <1>6, <1>7, <1>8, <1>9, <1>10 DEF PreviewInv
\* Filling the buffer keeps the invariant.
LEMMA FillsGlyph == PreviewInv /\ FillGlyph => PreviewInv'
<1> SUFFICES ASSUME PreviewInv, FillGlyph PROVE PreviewInv'
  OBVIOUS
<1>1. /\ TypeOK /\ WrapInv /\ GlyphsInv /\ StageInv /\ SpeltInv /\ LinesInv /\ NotesInv
      /\ AboveInv /\ OneBelowAnother
  BY DEF PreviewInv
<1>2. /\ stage = "layout" /\ stage' = "layout" /\ content' = content /\ notes' = notes
      /\ drawn' = drawn /\ currentY' = currentY /\ section' = section
      /\ numberTop' = numberTop /\ UNCHANGED wrapVars
      /\ words' = words /\ taken' = taken /\ currentLine' = currentLine
      /\ lines' = lines /\ wrapping' = wrapping
  BY DEF FillGlyph, wrapVars
<1>3. PICK g, t : g = Glyph(Len(glyphs)) /\ t = Len(glyphs)
  OBVIOUS
<1>4. /\ content \in Contents /\ glyphs \in Seq(GlyphType) /\ t \in Nat
      /\ DOMAIN glyphs = 1..t /\ glyphs' = Append(glyphs, g)
      /\ Len(content) \in Nat /\ DOMAIN content = 1..Len(content) /\ t < Len(content)
  <2>1. content \in Contents /\ glyphs \in Seq(GlyphType)
    BY <1>1 DEF TypeOK
  <2>2. glyphs' = Append(glyphs, g) /\ t < Len(content)
    BY <1>3 DEF FillGlyph
  <2>3. t \in Nat /\ DOMAIN glyphs = 1..t
    BY <1>3, <2>1
  <2>4. Len(content) \in Nat /\ DOMAIN content = 1..Len(content)
    BY <2>1, ContentsAssumption
  <2>5. QED
    BY <2>1, <2>2, <2>3, <2>4
<1>5. g \in GlyphType
  <2>1. g = [id |-> t + 1, x |-> t * 20]
    BY <1>3 DEF Glyph, GlyphWidth
  <2>2. t + 1 \in DOMAIN content /\ t * 20 \in Nat
    BY <1>4
  <2>3. QED
    BY <2>1, <2>2 DEF GlyphType
<1>6. GlyphType' = GlyphType
  BY <1>2 DEF GlyphType
<1> HIDE DEF GlyphType
<1>7. /\ glyphs' \in Seq(GlyphType) /\ Len(glyphs') = t + 1 /\ glyphs'[t + 1] = g
      /\ \A k \in 1..t : glyphs'[k] = glyphs[k]
  BY <1>3, <1>4, <1>5
<1>8. GlyphsInv'
  <2>1. DOMAIN glyphs' = 1..(t + 1)
    <3>1. DOMAIN glyphs' = 1..Len(glyphs')
      BY <1>7
    <3>2. QED
      BY <1>7, <3>1
  <2>2. \A k \in 1..(t + 1) : k \in 1..t \/ k = t + 1
    BY <1>4
  <2>3. \A k \in 1..t : glyphs'[k] = Glyph(k - 1)
    BY <1>1, <1>4, <1>7 DEF GlyphsInv
  <2>4. glyphs'[t + 1] = Glyph((t + 1) - 1)
    <3>1. (t + 1) - 1 = t
      BY <1>4
    <3>2. QED
      BY <1>3, <1>7, <3>1
  <2>5. QED
    BY <2>1, <2>2, <2>3, <2>4 DEF GlyphsInv
<1>9. WrapInv' /\ SpeltInv'
  BY <1>1, <1>2, WrapKept
<1>10. (drawn \in Seq(ElementType))' /\ AboveInv' /\ OneBelowAnother'
  BY <1>1, <1>2, CanvasKept
<1>11. TypeOK'
  <2>1. (glyphs \in Seq(GlyphType))' /\ Len(glyphs') <= Len(content')
    BY <1>2, <1>4, <1>6, <1>7
  <2>2. WrapTypeOK'
    BY <1>9 DEF WrapInv
  <2>3. QED
    BY <1>1, <1>2, <1>10, <2>1, <2>2 DEF TypeOK
<1>12. StageInv'
  BY <1>1, <1>2 DEF StageInv
<1>13. LinesInv'
  <2>1. LinesDrawn' = LinesDrawn
    BY <1>2 DEF LinesDrawn
  <2>2. QED
    BY <1>1, <1>2, <2>1, LinesStay
<1>14. NotesInv'
  BY <1>1, <1>2, DoneStays
<1>15. QED
  BY <1>8, <1>9, <1>10, <1>11, <1>12, <1>13, <1>14 DEF PreviewInv
\* The same as WrapFresh, of the state after a step.
LEMMA WrapFreshThen == Fresh' => WrapInv'
BY WrapFresh, PTL

\* Splitting what comes out of the buffer keeps the invariant.
LEMMA BeginsWrap == PreviewInv /\ BeginWrap => PreviewInv'
<1> SUFFICES ASSUME PreviewInv, BeginWrap PROVE PreviewInv'
  OBVIOUS
<1>1. /\ TypeOK /\ WrapInv /\ GlyphsInv /\ StageInv /\ SpeltInv /\ LinesInv /\ NotesInv
      /\ AboveInv /\ OneBelowAnother
  BY DEF PreviewInv
<1>2. /\ stage = "layout" /\ stage' = "wrap" /\ content' = content /\ notes' = notes
      /\ glyphs' = glyphs /\ drawn' = drawn /\ currentY' = currentY
      /\ section' = section /\ numberTop' = numberTop /\ taken' = taken
      /\ currentLine' = currentLine /\ lines' = lines /\ wrapping' = wrapping
      /\ words' = WordLengths(LineText) /\ Len(glyphs) = Len(content)
  BY DEF BeginWrap
<1>3. /\ drawn = <<>> /\ taken = 0 /\ lines = <<>> /\ currentLine = EmptyLine
      /\ wrapping = "words" /\ section = 1
  BY <1>1, <1>2 DEF StageInv
<1>4. words' = WordLengths(content) /\ words' \in Seq(Nat \ {0})
  <2>1. content \in Contents /\ glyphs \in Seq(GlyphType)
    BY <1>1 DEF TypeOK
  <2>2. DOMAIN glyphs = DOMAIN content
    <3>1. DOMAIN content = 1..Len(content)
      BY <2>1, ContentsAssumption
    <3>2. DOMAIN glyphs = 1..Len(glyphs)
      BY <2>1
    <3>3. QED
      BY <1>2, <3>1, <3>2
  <2>3. LineText = content
    BY <1>1, <2>1, <2>2, LineTextIsContent
  <2>4. QED
    BY <1>2, <2>1, <2>3, WordLengthsType
<1>5. WrapInv'
  <2>1. Fresh'
    BY <1>2, <1>3, <1>4 DEF Fresh
  <2>2. QED
    BY <2>1, WrapFreshThen
<1>6. SpeltInv'
  BY <1>1, <1>2 DEF SpeltInv, LinesSoFar
<1>7. /\ GlyphsInv' /\ (glyphs \in Seq(GlyphType))' /\ content' \in Contents
      /\ Len(glyphs') <= Len(content')
  BY <1>1, <1>2, BufferKept
<1>8. (drawn \in Seq(ElementType))' /\ AboveInv' /\ OneBelowAnother'
  BY <1>2, <1>3 DEF AboveInv, OneBelowAnother
<1>9. TypeOK'
  <2>1. WrapTypeOK'
    BY <1>5 DEF WrapInv
  <2>2. QED
    BY <1>1, <1>2, <1>7, <1>8, <2>1 DEF TypeOK
<1>10. StageInv'
  BY <1>2, <1>3, <1>4 DEF StageInv
<1>11. LinesInv'
  <2>1. LinesDrawn' = LinesDrawn
    BY <1>2, <1>3 DEF LinesDrawn
  <2>2. QED
    BY <1>1, <1>2, <2>1, LinesStay
<1>12. NotesInv'
  BY <1>1, <1>2, DoneStays
<1>13. QED
  BY <1>5, <1>6, <1>7, <1>8, <1>9, <1>10, <1>11, <1>12 DEF PreviewInv

\* A round of WrapText keeps the invariant.
LEMMA Wraps == PreviewInv /\ Wrap => PreviewInv'
<1> SUFFICES ASSUME PreviewInv, Wrap PROVE PreviewInv'
  OBVIOUS
<1>1. /\ TypeOK /\ WrapInv /\ GlyphsInv /\ StageInv /\ SpeltInv /\ LinesInv /\ NotesInv
      /\ AboveInv /\ OneBelowAnother
  BY DEF PreviewInv
<1>2. /\ stage = "wrap" /\ content' = content /\ notes' = notes
      /\ glyphs' = glyphs /\ drawn' = drawn /\ currentY' = currentY
      /\ section' = section /\ numberTop' = numberTop
      /\ stage' = IF wrapping' = "wrapped" THEN "lines" ELSE "wrap"
      /\ WrapNext
  BY DEF Wrap, WrapNext
<1>3. drawn = <<>> /\ wrapping = "words" /\ section = 1 /\ words = WordLengths(content)
  BY <1>1, <1>2 DEF StageInv, WrapNext, TakeWord, ReturnLines
<1>4. WrapInv'
  BY <1>1, <1>2, WrapTakes, WrapReturns DEF WrapNext
<1>5. SpeltInv'
  BY <1>1, <1>2, SpeltStep DEF StageInv
<1>6. words' = words /\ wrapping' \in {"words", "wrapped"}
  BY <1>2 DEF WrapNext, TakeWord, ReturnLines
<1>7. /\ GlyphsInv' /\ (glyphs \in Seq(GlyphType))' /\ content' \in Contents
      /\ Len(glyphs') <= Len(content')
  BY <1>1, <1>2, BufferKept
<1>8. (drawn \in Seq(ElementType))' /\ AboveInv' /\ OneBelowAnother'
  BY <1>2, <1>3 DEF AboveInv, OneBelowAnother
<1>9. TypeOK'
  <2>1. WrapTypeOK'
    BY <1>4 DEF WrapInv
  <2>2. QED
    BY <1>1, <1>2, <1>7, <1>8, <2>1 DEF TypeOK
<1>10. StageInv'
  <2>1. taken \in Nat
    BY <1>1, CanvasTypes
  <2>2. taken' = 0 => lines' = <<>> /\ currentLine' = EmptyLine
    <3>1. CASE TakeWord
      BY <2>1, <3>1 DEF TakeWord
    <3>2. CASE ReturnLines
      <4>1. EmptyLine.length = 0
        BY DEF EmptyLine
      <4>2. QED
        BY <1>1, <3>2, <4>1 DEF ReturnLines, StageInv
    <3>3. QED
      BY <1>2, <3>1, <3>2 DEF WrapNext
  <2>3. wrapping' = "wrapped" => taken' = Len(words')
    BY <1>2 DEF WrapNext, TakeWord, ReturnLines
  <2>4. QED
    BY <1>2, <1>3, <1>6, <2>2, <2>3 DEF StageInv
<1>11. LinesInv'
  <2>1. LinesDrawn' = 0
    BY <1>2, <1>3, <1>6 DEF LinesDrawn
  <2>2. Items("line")' = <<>> /\ Numbered(0, 0) = <<>>
    <3>1. Items("line")' = ItemsOf(drawn', "line")
      BY DEF Items, ItemsOf
    <3>2. ItemsOf(drawn', "line") = <<>>
      BY <1>2, <1>3, NothingJoined
    <3>3. QED
      BY <3>1, <3>2, NumberedLonger
  <2>3. Len(lines') \in Nat
    <3>1. lines' \in Seq(LineType)
      BY <1>4 DEF WrapInv, WrapTypeOK
    <3>2. QED
      BY <3>1
  <2>4. [n \in 1..LinesDrawn' |-> <<0, n>>] = <<>>
    BY <2>1, <2>2 DEF Numbered
  <2>5. QED
    BY <2>1, <2>2, <2>3, <2>4 DEF LinesInv
<1>12. NotesInv'
  BY <1>1, <1>2, DoneStays
<1>13. QED
  BY <1>4, <1>5, <1>7, <1>8, <1>9, <1>10, <1>11, <1>12 DEF PreviewInv
\* A step that only draws keeps what is known of the text, and the types if it keeps
\* those of the canvas.
LEMMA CanvasStep ==
    ASSUME PreviewInv, UNCHANGED <<content, notes, glyphs, wrapVars>>,
           (drawn \in Seq(ElementType))', currentY' \in Nat, numberTop' \in Nat,
           section' \in Sections,
           stage' \in {"layout", "wrap", "lines", "section", "notes", "drawn"}
    PROVE  TypeOK' /\ WrapInv' /\ GlyphsInv' /\ SpeltInv'
<1>1. TypeOK /\ WrapInv /\ GlyphsInv /\ SpeltInv
  BY DEF PreviewInv
<1>2. WrapInv' /\ SpeltInv'
  BY <1>1, WrapKept
<1>3. /\ GlyphsInv' /\ (glyphs \in Seq(GlyphType))' /\ content' \in Contents
      /\ Len(glyphs') <= Len(content')
  BY <1>1, BufferKept
<1>4. WrapTypeOK' /\ notes' \in Notes
  BY <1>1, <1>2 DEF WrapInv, TypeOK
<1>5. TypeOK'
  BY <1>3, <1>4 DEF TypeOK
<1>6. QED
  BY <1>2, <1>3, <1>5

\* Drawing a line keeps the invariant.
LEMMA DrawsLine == PreviewInv /\ DrawLine => PreviewInv'
<1> SUFFICES ASSUME PreviewInv, DrawLine PROVE PreviewInv'
  OBVIOUS
<1>1. /\ TypeOK /\ WrapInv /\ GlyphsInv /\ StageInv /\ SpeltInv /\ LinesInv /\ NotesInv
      /\ AboveInv /\ OneBelowAnother
  BY DEF PreviewInv
<1>2. PICK t : t = Len(drawn)
  OBVIOUS
<1>3. PICK e : e = [what |-> "line", item |-> <<0, t + 1>>,
                    top |-> currentY, bottom |-> currentY + 408]
  OBVIOUS
<1>4. /\ stage = "lines" /\ stage' = "lines" /\ content' = content /\ notes' = notes
      /\ glyphs' = glyphs /\ section' = section /\ numberTop' = numberTop
      /\ UNCHANGED wrapVars /\ t < Len(lines)
      /\ drawn' = Append(drawn, e) /\ currentY' = currentY + 408 + 0
  BY <1>2, <1>3 DEF DrawLine, Draw, LineHeight
<1>5. /\ words' = words /\ taken' = taken /\ currentLine' = currentLine
      /\ lines' = lines /\ wrapping' = wrapping
  BY <1>4 DEF wrapVars
<1>6. wrapping = "wrapped" /\ taken = Len(words) /\ section = 1
  BY <1>1, <1>4 DEF StageInv
<1>7. /\ t \in Nat /\ currentY \in Nat /\ Len(lines) \in Nat /\ Len(words) \in Nat
      /\ drawn \in Seq(Elements) /\ DOMAIN drawn = 1..t
  BY <1>1, <1>2, CanvasTypes
<1>8. e \in ElementType
  <2>1. Len(lines) <= Len(words)
    <3>1. LinesSoFar = lines
      BY <1>6 DEF LinesSoFar
    <3>2. CASE taken > 0
      BY <1>1, <1>6, <3>1, <3>2 DEF SpeltInv
    <3>3. CASE ~(taken > 0)
      <4>1. lines = <<>>
        BY <1>1, <1>6, <1>7, <3>3 DEF StageInv
      <4>2. QED
        BY <1>4, <1>7, <4>1
    <3>4. QED
      BY <3>2, <3>3
  <2>2. t + 1 \in 1..Len(words)
    BY <1>4, <1>7, <2>1
  <2>3. <<0, t + 1>> \in ({0} \X (1..Len(words))) \cup (Sections \X Nat)
    BY <2>2
  <2>4. currentY + 408 \in Nat
    BY <1>7
  <2>5. QED
    BY <1>3, <1>7, <2>3, <2>4 DEF ElementType
<1>9. currentY' \in Nat /\ currentY <= e.top /\ e.top <= e.bottom /\ e.bottom <= currentY'
  BY <1>3, <1>4, <1>7
<1>10. /\ (drawn \in Seq(ElementType))' /\ AboveInv' /\ OneBelowAnother'
       /\ Len(drawn') = t + 1
       /\ \A k \in DOMAIN drawn' :
             drawn'[k] = e \/ (k \in DOMAIN drawn /\ drawn'[k] = drawn[k])
  BY <1>1, <1>2, <1>4, <1>5, <1>8, <1>9, Draws
<1>11. TypeOK' /\ WrapInv' /\ GlyphsInv' /\ SpeltInv'
  <2>1. numberTop' \in Nat /\ section' \in Sections
    BY <1>1, <1>4 DEF TypeOK
  <2>2. QED
    BY <1>4, <1>9, <1>10, <2>1, CanvasStep
<1>12. StageInv'
  BY <1>1, <1>4, <1>5 DEF StageInv
<1>13. /\ ItemsOf(drawn', "line") = Append(ItemsOf(drawn, "line"), e.item)
       /\ ItemsOf(drawn', "note") = ItemsOf(drawn, "note")
       /\ NotesIn(drawn', section) = NotesIn(drawn, section)
  <2>1. /\ ItemAdded(drawn, e, "line", drawn') /\ ItemAdded(drawn, e, "note", drawn')
        /\ NotesIn(drawn', section)
             = IF e.what = "note" /\ e.item[1] = section THEN NotesIn(drawn, section) + 1
               ELSE NotesIn(drawn, section)
    BY <1>1, <1>4, <1>8, OneElementMore
  <2>2. e.what = "line"
    BY <1>3
  <2>3. QED
    BY <2>1, <2>2 DEF ItemAdded
<1>14. LinesInv'
  <2>1. LinesDrawn = t /\ LinesDrawn' = t + 1
    BY <1>2, <1>4, <1>10 DEF LinesDrawn
  <2>2. ItemsOf(drawn, "line") = Numbered(0, t)
    BY <1>1, <2>1, CanvasCounts
  <2>3. ItemsOf(drawn', "line") = Numbered(0, t + 1)
    <3>1. Numbered(0, t + 1) = Append(Numbered(0, t), <<0, t + 1>>)
      BY <1>7, NumberedLonger
    <3>2. e.item = <<0, t + 1>>
      BY <1>3
    <3>3. QED
      BY <1>13, <2>2, <3>1, <3>2
  <2>4. Items("line")' = ItemsOf(drawn', "line")
    BY DEF Items, ItemsOf
  <2>5. t + 1 <= Len(lines')
    BY <1>4, <1>5, <1>7
  <2>6. (Items("line") = [n \in 1..LinesDrawn |-> <<0, n>>])'
    BY <2>1, <2>3, <2>4 DEF Numbered
  <2>7. QED
    BY <2>1, <2>5, <2>6 DEF LinesInv
<1>15. NotesInv'
  <2>1. \A k \in DOMAIN drawn' :
           drawn'[k].what = "note" => \E j \in DOMAIN drawn : drawn'[k] = drawn[j]
    BY <1>3, <1>10
  <2>2. QED
    BY <1>1, <1>4, <1>13, <2>1, DoneStays
<1>16. QED
  BY <1>10, <1>11, <1>12, <1>14, <1>15 DEF PreviewInv
\* Drawing the long separator keeps the invariant.
LEMMA DrawsLongSeparator == PreviewInv /\ DrawLongSeparator => PreviewInv'
<1> SUFFICES ASSUME PreviewInv, DrawLongSeparator PROVE PreviewInv'
  OBVIOUS
<1>1. /\ TypeOK /\ WrapInv /\ GlyphsInv /\ StageInv /\ SpeltInv /\ LinesInv /\ NotesInv
      /\ AboveInv /\ OneBelowAnother
  BY DEF PreviewInv
<1>2. PICK e : e = [what |-> "separator", item |-> <<section, 0>>,
                    top |-> currentY + 204, bottom |-> currentY + 204]
  OBVIOUS
<1>3. /\ stage = "lines" /\ stage' = "section" /\ content' = content /\ notes' = notes
      /\ glyphs' = glyphs /\ section' = section /\ numberTop' = numberTop
      /\ UNCHANGED wrapVars /\ Len(drawn) = Len(lines)
      /\ drawn' = Append(drawn, e) /\ currentY' = currentY + 204 + 250
  <2>1. 408 \div 2 = 204
    OBVIOUS
  <2>2. QED
    BY <1>2, <2>1 DEF DrawLongSeparator, DrawSeparator, LineHeight
<1>4. /\ words' = words /\ taken' = taken /\ currentLine' = currentLine
      /\ lines' = lines /\ wrapping' = wrapping
  BY <1>3 DEF wrapVars
<1>5. wrapping = "wrapped" /\ section = 1
  BY <1>1, <1>3 DEF StageInv
<1>6. currentY \in Nat /\ Len(lines) \in Nat
  BY <1>1, CanvasTypes
<1>7. e \in ElementType
  <2>1. <<section, 0>> \in ({0} \X (1..Len(words))) \cup (Sections \X Nat)
    BY <1>5 DEF Sections
  <2>2. QED
    BY <1>2, <1>6, <2>1 DEF ElementType
<1>8. currentY' \in Nat /\ currentY <= e.top /\ e.top <= e.bottom /\ e.bottom <= currentY'
  BY <1>2, <1>3, <1>6
<1>9. /\ (drawn \in Seq(ElementType))' /\ AboveInv' /\ OneBelowAnother'
      /\ \A k \in DOMAIN drawn' :
            drawn'[k] = e \/ (k \in DOMAIN drawn /\ drawn'[k] = drawn[k])
  BY <1>1, <1>3, <1>4, <1>7, <1>8, Draws
<1>10. TypeOK' /\ WrapInv' /\ GlyphsInv' /\ SpeltInv'
  <2>1. numberTop' \in Nat /\ section' \in Sections
    BY <1>1, <1>3 DEF TypeOK
  <2>2. QED
    BY <1>3, <1>8, <1>9, <2>1, CanvasStep
<1>11. StageInv'
  BY <1>1, <1>3, <1>4, <1>5 DEF StageInv
<1>12. /\ ItemsOf(drawn', "line") = ItemsOf(drawn, "line")
       /\ ItemsOf(drawn', "note") = ItemsOf(drawn, "note")
       /\ NotesIn(drawn', section) = NotesIn(drawn, section)
  <2>1. /\ ItemAdded(drawn, e, "line", drawn') /\ ItemAdded(drawn, e, "note", drawn')
        /\ NotesIn(drawn', section)
             = IF e.what = "note" /\ e.item[1] = section THEN NotesIn(drawn, section) + 1
               ELSE NotesIn(drawn, section)
    BY <1>1, <1>3, <1>7, OneElementMore
  <2>2. e.what = "separator"
    BY <1>2
  <2>3. QED
    BY <2>1, <2>2 DEF ItemAdded
<1>13. LinesInv'
  <2>1. LinesDrawn' = LinesDrawn
    BY <1>3, <1>4, <1>5 DEF LinesDrawn
  <2>2. QED
    BY <1>1, <1>4, <1>12, <2>1, LinesStay
<1>14. NotesInv'
  <2>1. \A k \in DOMAIN drawn' :
           drawn'[k].what = "note" => \E j \in DOMAIN drawn : drawn'[k] = drawn[j]
    BY <1>2, <1>9
  <2>2. QED
    BY <1>1, <1>3, <1>12, <2>1, DoneStays
<1>15. QED
  BY <1>9, <1>10, <1>11, <1>13, <1>14 DEF PreviewInv

\* Drawing the title of a section keeps the invariant.
LEMMA DrawsTitle == PreviewInv /\ DrawTitle => PreviewInv'
<1> SUFFICES ASSUME PreviewInv, DrawTitle PROVE PreviewInv'
  OBVIOUS
<1>1. /\ TypeOK /\ WrapInv /\ GlyphsInv /\ StageInv /\ SpeltInv /\ LinesInv /\ NotesInv
      /\ AboveInv /\ OneBelowAnother
  BY DEF PreviewInv
<1>2. PICK e : e = [what |-> "title", item |-> <<section, 0>>,
                    top |-> currentY, bottom |-> currentY + 306]
  OBVIOUS
<1>3. /\ stage = "section" /\ stage' = "notes" /\ content' = content /\ notes' = notes
      /\ glyphs' = glyphs /\ section' = section /\ numberTop' = numberTop
      /\ UNCHANGED wrapVars
      /\ drawn' = Append(drawn, e) /\ currentY' = currentY + 306 + 0
  BY <1>2 DEF DrawTitle, Draw, TitleHeight
<1>4. /\ words' = words /\ taken' = taken /\ currentLine' = currentLine
      /\ lines' = lines /\ wrapping' = wrapping
  BY <1>3 DEF wrapVars
<1>5. wrapping = "wrapped"
  BY <1>1, <1>3 DEF StageInv
<1>6. currentY \in Nat /\ section \in Sections /\ section \in Nat
  BY <1>1, CanvasTypes DEF TypeOK
<1>7. e \in ElementType
  <2>1. <<section, 0>> \in ({0} \X (1..Len(words))) \cup (Sections \X Nat)
    BY <1>6
  <2>2. currentY + 306 \in Nat
    BY <1>6
  <2>3. QED
    BY <1>2, <1>6, <2>1, <2>2 DEF ElementType
<1>8. currentY' \in Nat /\ currentY <= e.top /\ e.top <= e.bottom /\ e.bottom <= currentY'
  BY <1>2, <1>3, <1>6
<1>9. /\ (drawn \in Seq(ElementType))' /\ AboveInv' /\ OneBelowAnother'
      /\ \A k \in DOMAIN drawn' :
            drawn'[k] = e \/ (k \in DOMAIN drawn /\ drawn'[k] = drawn[k])
  BY <1>1, <1>3, <1>4, <1>7, <1>8, Draws
<1>10. TypeOK' /\ WrapInv' /\ GlyphsInv' /\ SpeltInv'
  <2>1. numberTop' \in Nat /\ section' \in Sections
    BY <1>1, <1>3 DEF TypeOK
  <2>2. QED
    BY <1>3, <1>8, <1>9, <2>1, CanvasStep
<1>11. StageInv'
  BY <1>1, <1>3, <1>4, <1>5 DEF StageInv
<1>12. /\ ItemsOf(drawn', "line") = ItemsOf(drawn, "line")
       /\ ItemsOf(drawn', "note") = ItemsOf(drawn, "note")
       /\ NotesIn(drawn', section) = NotesIn(drawn, section)
  <2>1. /\ ItemAdded(drawn, e, "line", drawn') /\ ItemAdded(drawn, e, "note", drawn')
        /\ NotesIn(drawn', section)
             = IF e.what = "note" /\ e.item[1] = section THEN NotesIn(drawn, section) + 1
               ELSE NotesIn(drawn, section)
    BY <1>1, <1>3, <1>7, OneElementMore
  <2>2. e.what = "title"
    BY <1>2
  <2>3. QED
    BY <2>1, <2>2 DEF ItemAdded
<1>13. LinesInv'
  <2>1. LinesDrawn' = LinesDrawn
    BY <1>3, <1>4, <1>5 DEF LinesDrawn
  <2>2. QED
    BY <1>1, <1>4, <1>12, <2>1, LinesStay
<1>14. NotesInv'
  <2>1. NotesDrawn = 0 /\ NotesDrawn <= Len(notes[section])
    BY <1>1, <1>3 DEF NotesInv
  <2>2. NotesDrawn' = NotesDrawn
    BY <1>3, <1>12 DEF NotesDrawn, NotesIn
  <2>3. \A s \in Sections : Done(s)' = Done(s)
    <3>1. ~(section < section)
      BY <1>6
    <3>2. QED
      BY <1>3, <2>1, <2>2, <3>1 DEF Done
  <2>4. NotesDrawn' = IF stage' \in {"notes", "drawn"} THEN Done(section)' ELSE 0
    <3>1. ~(section' < section')
      BY <1>3, <1>6
    <3>2. QED
      BY <1>3, <3>1 DEF Done
  <2>5. \A k \in DOMAIN drawn' :
           drawn'[k].what = "note" => drawn'[k].item[1] <= section'
    <3>1. e.what # "note"
      BY <1>2
    <3>2. QED
      BY <1>1, <1>3, <1>9, <3>1 DEF NotesInv
  <2>6. QED
    BY <1>1, <1>3, <1>12, <2>1, <2>2, <2>3, <2>4, <2>5, NotesStay
<1>15. QED
  BY <1>9, <1>10, <1>11, <1>13, <1>14 DEF PreviewInv
\* Drawing a note keeps the invariant.
LEMMA DrawsNote == PreviewInv /\ DrawNote => PreviewInv'
<1> SUFFICES ASSUME PreviewInv, DrawNote PROVE PreviewInv'
  OBVIOUS
<1>1. /\ TypeOK /\ WrapInv /\ GlyphsInv /\ StageInv /\ SpeltInv /\ LinesInv /\ NotesInv
      /\ AboveInv /\ OneBelowAnother
  BY DEF PreviewInv
<1>2. PICK n : n = NotesDrawn
  OBVIOUS
<1>3. PICK height \in NoteHeights : Draw("note", <<section, n + 1>>, height, NoteGap)
  BY <1>2 DEF DrawNote
<1>4. PICK e : e = [what |-> "note", item |-> <<section, n + 1>>,
                    top |-> currentY, bottom |-> currentY + height]
  OBVIOUS
<1>5. /\ stage = "notes" /\ stage' = "notes" /\ content' = content /\ notes' = notes
      /\ glyphs' = glyphs /\ section' = section /\ numberTop' = numberTop
      /\ UNCHANGED wrapVars /\ n < Len(notes[section])
  BY <1>2 DEF DrawNote
<1>6. drawn' = Append(drawn, e) /\ currentY' = currentY + height + 120
  BY <1>3, <1>4 DEF Draw, NoteGap
<1>7. /\ words' = words /\ taken' = taken /\ currentLine' = currentLine
      /\ lines' = lines /\ wrapping' = wrapping
  BY <1>5 DEF wrapVars
<1>8. wrapping = "wrapped"
  BY <1>1, <1>5 DEF StageInv
<1>9. /\ currentY \in Nat /\ section \in Sections /\ section \in Nat
      /\ drawn \in Seq(Elements)
  BY <1>1, CanvasTypes DEF TypeOK
<1>10. n \in Nat /\ height \in Nat /\ n = NotesIn(drawn, section)
  <2>1. n = NotesIn(drawn, section)
    BY <1>2, CanvasCounts
  <2>2. QED
    BY <1>9, <2>1, NotesInType, NoteHeightsAssumption
<1>11. e \in ElementType
  <2>1. <<section, n + 1>> \in ({0} \X (1..Len(words))) \cup (Sections \X Nat)
    BY <1>9, <1>10
  <2>2. currentY + height \in Nat
    BY <1>9, <1>10
  <2>3. QED
    BY <1>4, <1>9, <2>1, <2>2 DEF ElementType
<1>12. currentY' \in Nat /\ currentY <= e.top /\ e.top <= e.bottom /\ e.bottom <= currentY'
  BY <1>4, <1>6, <1>9, <1>10
<1>13. /\ (drawn \in Seq(ElementType))' /\ AboveInv' /\ OneBelowAnother'
       /\ \A k \in DOMAIN drawn' :
             drawn'[k] = e \/ (k \in DOMAIN drawn /\ drawn'[k] = drawn[k])
  BY <1>1, <1>5, <1>6, <1>7, <1>11, <1>12, Draws
<1>14. TypeOK' /\ WrapInv' /\ GlyphsInv' /\ SpeltInv'
  <2>1. numberTop' \in Nat /\ section' \in Sections
    BY <1>1, <1>5 DEF TypeOK
  <2>2. QED
    BY <1>5, <1>12, <1>13, <2>1, CanvasStep
<1>15. StageInv'
  BY <1>1, <1>5, <1>7, <1>8 DEF StageInv
<1>16. /\ ItemsOf(drawn', "line") = ItemsOf(drawn, "line")
       /\ ItemsOf(drawn', "note") = Append(ItemsOf(drawn, "note"), <<section, n + 1>>)
       /\ NotesIn(drawn', section) = n + 1
  <2>1. /\ ItemAdded(drawn, e, "line", drawn') /\ ItemAdded(drawn, e, "note", drawn')
        /\ NotesIn(drawn', section)
             = IF e.what = "note" /\ e.item[1] = section THEN NotesIn(drawn, section) + 1
               ELSE NotesIn(drawn, section)
    BY <1>1, <1>6, <1>11, OneElementMore
  <2>2. e.what = "note" /\ e.item = <<section, n + 1>> /\ e.item[1] = section
    BY <1>4
  <2>3. QED
    BY <1>10, <2>1, <2>2 DEF ItemAdded
<1>17. LinesInv'
  <2>1. LinesDrawn' = LinesDrawn
    BY <1>5, <1>7, <1>8 DEF LinesDrawn
  <2>2. QED
    BY <1>1, <1>7, <1>16, <2>1, LinesStay
<1>18. NotesInv'
  <2>1. PICK d : d = [s \in Sections |-> Done(s)]
    OBVIOUS
  <2>2. NotesDrawn' = n + 1
    BY <1>5, <1>16 DEF NotesDrawn, NotesIn
  <2>3. ASSUME NEW s \in Sections
        PROVE  /\ Done(s) \in Nat /\ (s > section => Done(s) = 0)
               /\ s = section => Done(s) = n /\ Done(s)' = n + 1
               /\ s # section => Done(s)' = Done(s)
    <3>1. s \in Nat /\ Len(notes[s]) \in Nat
      BY <1>1, NoteTypes
    <3>2. /\ s = section => ~(s < section)
          /\ s > section => ~(s < section) /\ s # section
      BY <1>9, <3>1
    <3>3. QED
      BY <1>2, <1>5, <1>10, <2>2, <3>1, <3>2 DEF Done
  <2>4. /\ d \in [Sections -> Nat] /\ \A r \in Sections : r > section => d[r] = 0
        /\ d[section] = n
    BY <1>9, <2>1, <2>3
  <2>5. PICK d2 : d2 = [s \in Sections |-> Done(s)]'
    OBVIOUS
  <2>6. d2 = [d EXCEPT ![section] = d[section] + 1]
    <3>1. d2 = [s \in Sections |-> Done(s)']
      BY <2>5
    <3>2. \A s \in Sections : Done(s)' = IF s = section THEN d[section] + 1 ELSE d[s]
      BY <2>1, <2>3, <2>4
    <3>3. QED
      BY <2>4, <3>1, <3>2
  <2>7. NotesUpTo(d2) = Append(NotesUpTo(d), <<section, d[section] + 1>>)
    BY <1>9, <2>4, <2>6, OneNoteMore
  <2>8. ItemsOf(drawn, "note") = NotesUpTo(d)
    BY <1>1, <2>1, CanvasCounts DEF NotesInv
  <2>9. Items("note")' = ItemsOf(drawn', "note")
    BY DEF Items, ItemsOf
  <2>10. (Items("note") = NotesUpTo([s \in Sections |-> Done(s)]))'
    BY <1>16, <2>4, <2>5, <2>7, <2>8, <2>9
  <2>11. NotesDrawn' = IF stage' \in {"notes", "drawn"} THEN Done(section)' ELSE 0
    <3>1. ~(section' < section')
      BY <1>5, <1>9
    <3>2. QED
      BY <1>5, <3>1 DEF Done
  <2>12. NotesDrawn' <= Len(notes'[section'])
    <3>1. Len(notes[section]) \in Nat
      BY <1>1, <1>9, NoteTypes
    <3>2. QED
      BY <1>5, <1>10, <2>2, <3>1
  <2>13. \A k \in DOMAIN drawn' :
            drawn'[k].what = "note" => drawn'[k].item[1] <= section'
    <3>1. e.item[1] = section /\ section <= section
      BY <1>4, <1>9
    <3>2. QED
      BY <1>1, <1>5, <1>13, <3>1 DEF NotesInv
  <2> HIDE DEF Done, NotesDrawn, Items, NotesUpTo
  <2>14. QED
    BY <2>10, <2>11, <2>12, <2>13 DEF NotesInv
<1>19. QED
  BY <1>13, <1>14, <1>15, <1>17, <1>18 DEF PreviewInv
\* A section ends when all its notes are on the canvas.
LEMMA SectionIsDone ==
    ASSUME TypeOK, NotesInv, SectionEnds
    PROVE  Done(section) = Len(notes[section]) /\ NotesDrawn = Len(notes[section])
<1>1. section \in Sections /\ section \in Nat
  BY CanvasTypes DEF TypeOK
<1>2. notes[section] = <<>> <=> Len(notes[section]) = 0
  BY <1>1, NoteTypes
<1>3. ~(section < section)
  BY <1>1
<1>4. QED
  BY <1>2, <1>3 DEF SectionEnds, NotesInv, Done

\* Going on to the next section keeps the invariant, with a separator or without.
LEMMA GoesToNextSection == PreviewInv /\ NextSection => PreviewInv'
<1> SUFFICES ASSUME PreviewInv, NextSection PROVE PreviewInv'
  OBVIOUS
<1>1. /\ TypeOK /\ WrapInv /\ GlyphsInv /\ StageInv /\ SpeltInv /\ LinesInv /\ NotesInv
      /\ AboveInv /\ OneBelowAnother
  BY DEF PreviewInv
<1>2. /\ stage \in {"section", "notes"} /\ stage' = "section" /\ SectionEnds
      /\ content' = content /\ notes' = notes
      /\ glyphs' = glyphs /\ section' = section + 1 /\ numberTop' = numberTop
      /\ UNCHANGED wrapVars /\ section < 3
  BY DEF NextSection, SectionEnds
<1>3. /\ words' = words /\ taken' = taken /\ currentLine' = currentLine
      /\ lines' = lines /\ wrapping' = wrapping
  BY <1>2 DEF wrapVars
<1>4. wrapping = "wrapped"
  BY <1>1, <1>2 DEF StageInv
<1>5. /\ currentY \in Nat /\ section \in Sections /\ section \in Nat
      /\ section' \in Sections
  <2>1. section \in Sections /\ section \in 1..3 /\ currentY \in Nat
    BY <1>1, CanvasTypes DEF TypeOK
  <2>2. QED
    BY <1>2, <2>1 DEF Sections
<1>6. /\ (drawn \in Seq(ElementType))' /\ AboveInv' /\ OneBelowAnother'
      /\ currentY' \in Nat
      /\ ItemsOf(drawn', "line") = ItemsOf(drawn, "line")
      /\ ItemsOf(drawn', "note") = ItemsOf(drawn, "note")
      /\ \A k \in DOMAIN drawn' :
            drawn'[k].what = "note" => \E j \in DOMAIN drawn : drawn'[k] = drawn[j]
  <2>1. CASE drawn' = drawn /\ currentY' = currentY
    <3>1. (drawn \in Seq(ElementType))' /\ AboveInv' /\ OneBelowAnother'
      BY <1>1, <1>2, <1>3, <2>1, CanvasKept
    <3>2. QED
      BY <1>5, <2>1, <3>1
  <2>2. CASE DrawSeparator(100, 200)
    <3>1. PICK e : e = [what |-> "separator", item |-> <<section, 0>>,
                        top |-> currentY + 100, bottom |-> currentY + 100]
      OBVIOUS
    <3>2. drawn' = Append(drawn, e) /\ currentY' = currentY + 100 + 200
      BY <2>2, <3>1 DEF DrawSeparator
    <3>3. e \in ElementType
      <4>1. <<section, 0>> \in ({0} \X (1..Len(words))) \cup (Sections \X Nat)
        BY <1>5
      <4>2. currentY + 100 \in Nat
        BY <1>5
      <4>3. QED
        BY <3>1, <4>1, <4>2 DEF ElementType
    <3>4. /\ currentY' \in Nat /\ currentY <= e.top /\ e.top <= e.bottom
          /\ e.bottom <= currentY'
      BY <1>5, <3>1, <3>2
    <3>5. /\ (drawn \in Seq(ElementType))' /\ AboveInv' /\ OneBelowAnother'
          /\ \A k \in DOMAIN drawn' :
                drawn'[k] = e \/ (k \in DOMAIN drawn /\ drawn'[k] = drawn[k])
      BY <1>1, <1>2, <1>3, <3>2, <3>3, <3>4, Draws
    <3>6. ItemAdded(drawn, e, "line", drawn') /\ ItemAdded(drawn, e, "note", drawn')
      BY <1>1, <3>2, <3>3, OneElementMore
    <3>7. e.what = "separator"
      BY <3>1
    <3>8. /\ ItemsOf(drawn', "line") = ItemsOf(drawn, "line")
          /\ ItemsOf(drawn', "note") = ItemsOf(drawn, "note")
      BY <3>6, <3>7 DEF ItemAdded
    <3>9. \A k \in DOMAIN drawn' :
             drawn'[k].what = "note" => \E j \in DOMAIN drawn : drawn'[k] = drawn[j]
      BY <3>5, <3>7
    <3>10. QED
      BY <3>4, <3>5, <3>8, <3>9
  <2>3. QED
    BY <2>1, <2>2 DEF NextSection
<1>7. TypeOK' /\ WrapInv' /\ GlyphsInv' /\ SpeltInv'
  <2>1. numberTop' \in Nat
    BY <1>1, <1>2 DEF TypeOK
  <2>2. QED
    BY <1>2, <1>5, <1>6, <2>1, CanvasStep
<1>8. StageInv'
  BY <1>1, <1>2, <1>3, <1>4 DEF StageInv
<1>9. LinesInv'
  <2>1. LinesDrawn' = LinesDrawn
    BY <1>2, <1>3, <1>4 DEF LinesDrawn
  <2>2. QED
    BY <1>1, <1>3, <1>6, <2>1, LinesStay
<1>10. NotesInv'
  <2>1. Done(section) = Len(notes[section])
    BY <1>1, <1>2, SectionIsDone
  <2>2. ASSUME NEW s \in Sections
        PROVE  Done(s)' = Done(s)
    <3>1. s \in Nat
      BY <1>1, NoteTypes
    <3>2. /\ s < section + 1 <=> s < section \/ s = section
          /\ s = section => ~(s < section)
      BY <1>5, <3>1
    <3>3. stage # "drawn" /\ stage' # "drawn" /\ stage' # "notes"
      BY <1>2
    <3>4. Done(s)' = IF s < section + 1 THEN Len(notes[s]) ELSE 0
      BY <1>2, <3>3 DEF Done
    <3>5. Done(s) = IF s < section \/ s = section THEN Len(notes[s]) ELSE 0
      BY <2>1, <3>3 DEF Done
    <3>6. QED
      BY <3>2, <3>4, <3>5
  <2>3. \A k \in DOMAIN drawn' :
           drawn'[k].what = "note" => drawn'[k].item[1] <= section
    BY <1>1, <1>6 DEF NotesInv
  <2>4. \A k \in DOMAIN drawn' :
           drawn'[k].what = "note" => /\ drawn'[k].item[1] <= section'
                                      /\ drawn'[k].item[1] # section'
    <3>1. \A k \in DOMAIN drawn' : drawn'[k].item[1] \in Nat
      <4>1. drawn' \in Seq(Elements)
        BY <1>7, CanvasElementsThen
      <4>2. \A k \in DOMAIN drawn' : drawn'[k] \in Elements
        BY <4>1
      <4>3. QED
        BY <4>2 DEF Elements
    <3>2. \A i \in Nat : i <= section => i <= section + 1 /\ i # section + 1
      BY <1>5
    <3>3. QED
      BY <1>2, <2>3, <3>1, <3>2
  <2>5. NotesDrawn' = 0
    <3>1. PICK q, s : q = drawn' /\ s = section'
      OBVIOUS
    <3>2. NotesIn(q, s) = 0
      BY <2>4, <3>1, NoNotesIn
    <3>3. NotesDrawn' = NotesIn(q, s)
      BY <3>1 DEF NotesDrawn, NotesIn
    <3>4. QED
      BY <3>2, <3>3
  <2>6. NotesDrawn' <= Len(notes'[section'])
    <3>1. Len(notes[section']) \in Nat
      BY <1>1, <1>5, NoteTypes
    <3>2. QED
      BY <1>2, <2>5, <3>1
  <2>7. NotesDrawn' = IF stage' \in {"notes", "drawn"} THEN Done(section)' ELSE 0
    BY <1>2, <2>5
  <2>8. QED
    BY <1>1, <1>6, <2>2, <2>4, <2>6, <2>7, NotesStay
<1>11. QED
  BY <1>6, <1>7, <1>8, <1>9, <1>10 DEF PreviewInv

\* Placing the page number keeps the invariant.
LEMMA PlacesNumber == PreviewInv /\ PlaceNumber => PreviewInv'
<1> SUFFICES ASSUME PreviewInv, PlaceNumber PROVE PreviewInv'
  OBVIOUS
<1>1. /\ TypeOK /\ WrapInv /\ GlyphsInv /\ StageInv /\ SpeltInv /\ LinesInv /\ NotesInv
      /\ AboveInv /\ OneBelowAnother
  BY DEF PreviewInv
<1>2. /\ stage \in {"section", "notes"} /\ stage' = "drawn" /\ SectionEnds
      /\ content' = content /\ notes' = notes /\ drawn' = drawn
      /\ glyphs' = glyphs /\ section' = section /\ currentY' = currentY
      /\ UNCHANGED wrapVars /\ section = 3
      /\ numberTop' = (IF currentY + 500 > 7000 THEN currentY + 500 ELSE 7000) - 400
  BY DEF PlaceNumber, SectionEnds
<1>3. /\ words' = words /\ taken' = taken /\ currentLine' = currentLine
      /\ lines' = lines /\ wrapping' = wrapping
  BY <1>2 DEF wrapVars
<1>4. wrapping = "wrapped"
  BY <1>1, <1>2 DEF StageInv
<1>5. /\ currentY \in Nat /\ section \in Sections
      /\ \A k \in DOMAIN drawn : drawn[k].bottom \in Nat
  BY <1>1, CanvasTypes DEF TypeOK
<1>6. numberTop' \in Nat /\ currentY <= numberTop'
  BY <1>2, <1>5
<1>7. (drawn \in Seq(ElementType))' /\ AboveInv'
  <2>1. ElementType' = ElementType
    BY <1>3 DEF ElementType
  <2>2. (drawn \in Seq(ElementType))'
    BY <1>1, <1>2, <2>1 DEF TypeOK
  <2>3. QED
    BY <1>1, <1>2, <2>2 DEF AboveInv
<1>8. OneBelowAnother'
  <2>1. \A k \in DOMAIN drawn : drawn[k].bottom <= numberTop'
    <3>1. \A k \in DOMAIN drawn : drawn[k].bottom <= currentY
      BY <1>1 DEF AboveInv
    <3>2. QED
      BY <1>5, <1>6, <3>1
  <2>2. QED
    BY <1>1, <1>2, <2>1 DEF OneBelowAnother
<1>9. TypeOK' /\ WrapInv' /\ GlyphsInv' /\ SpeltInv'
  BY <1>2, <1>5, <1>6, <1>7, CanvasStep
<1>10. StageInv'
  BY <1>1, <1>2, <1>3, <1>4 DEF StageInv
<1>11. LinesInv'
  <2>1. LinesDrawn' = LinesDrawn
    BY <1>2, <1>3, <1>4 DEF LinesDrawn
  <2>2. QED
    BY <1>1, <1>2, <1>3, <2>1, LinesStay
<1>12. NotesInv'
  <2>1. Done(section) = Len(notes[section]) /\ NotesDrawn = Len(notes[section])
    BY <1>1, <1>2, SectionIsDone
  <2>2. NotesDrawn' = NotesDrawn
    BY <1>2 DEF NotesDrawn
  <2>3. ASSUME NEW s \in Sections
        PROVE  Done(s)' = Done(s) /\ Done(s)' = Len(notes[s])
    <3>1. s \in 1..3 /\ s \in Nat
      BY <1>1, NoteTypes
    <3>2. s < section \/ s = section
      BY <1>2, <3>1
    <3>3. Done(s)' = Len(notes[s])
      BY <1>2 DEF Done
    <3>4. Done(s) = Len(notes[s])
      BY <2>1, <3>2 DEF Done
    <3>5. QED
      BY <3>3, <3>4
  <2>4. NotesDrawn' = IF stage' \in {"notes", "drawn"} THEN Done(section)' ELSE 0
    <3>1. Done(section)' = Len(notes[section])
      BY <1>2 DEF Done
    <3>2. QED
      BY <1>2, <2>1, <2>2, <3>1
  <2>5. NotesDrawn' <= Len(notes'[section'])
    BY <1>1, <1>2, <2>2 DEF NotesInv
  <2>6. \A k \in DOMAIN drawn' :
           drawn'[k].what = "note" => drawn'[k].item[1] <= section'
    BY <1>1, <1>2 DEF NotesInv
  <2>7. QED
    BY <1>1, <1>2, <2>3, <2>4, <2>5, <2>6, NotesStay
<1>13. QED
  BY <1>7, <1>8, <1>9, <1>10, <1>11, <1>12 DEF PreviewInv
\* A step that changes nothing keeps the invariant.
LEMMA PreviewStutters == PreviewInv /\ UNCHANGED vars => PreviewInv'
<1> SUFFICES ASSUME PreviewInv, UNCHANGED vars PROVE PreviewInv'
  OBVIOUS
<1>1. /\ TypeOK /\ WrapInv /\ GlyphsInv /\ StageInv /\ SpeltInv /\ LinesInv /\ NotesInv
      /\ AboveInv /\ OneBelowAnother
  BY DEF PreviewInv
<1>2. /\ content' = content /\ notes' = notes /\ glyphs' = glyphs /\ drawn' = drawn
      /\ currentY' = currentY /\ section' = section /\ numberTop' = numberTop
      /\ stage' = stage /\ UNCHANGED wrapVars
      /\ words' = words /\ taken' = taken /\ currentLine' = currentLine
      /\ lines' = lines /\ wrapping' = wrapping
  BY DEF vars, previewVars, wrapVars
<1>3. (drawn \in Seq(ElementType))' /\ AboveInv' /\ OneBelowAnother'
  <2>1. ElementType' = ElementType
    BY <1>2 DEF ElementType
  <2>2. (drawn \in Seq(ElementType))'
    BY <1>1, <1>2, <2>1 DEF TypeOK
  <2>3. QED
    BY <1>1, <1>2, <2>2 DEF AboveInv, OneBelowAnother
<1>4. TypeOK' /\ WrapInv' /\ GlyphsInv' /\ SpeltInv'
  <2>1. /\ currentY' \in Nat /\ numberTop' \in Nat /\ section' \in Sections
        /\ stage' \in {"layout", "wrap", "lines", "section", "notes", "drawn"}
    BY <1>1, <1>2 DEF TypeOK
  <2>2. QED
    BY <1>2, <1>3, <2>1, CanvasStep
<1>5. StageInv'
  BY <1>1, <1>2 DEF StageInv
<1>6. LinesInv'
  <2>1. LinesDrawn' = LinesDrawn
    BY <1>2 DEF LinesDrawn
  <2>2. QED
    BY <1>1, <1>2, <2>1, LinesStay
<1>7. NotesInv'
  <2>1. NotesDrawn' = NotesDrawn
    BY <1>2 DEF NotesDrawn
  <2>2. \A s \in Sections : Done(s)' = Done(s)
    BY <1>2, <2>1 DEF Done
  <2>3. Done(section)' = Done(section)
    BY <1>1, <1>2, <2>1 DEF Done
  <2>4. NotesDrawn' = IF stage' \in {"notes", "drawn"} THEN Done(section)' ELSE 0
    BY <1>1, <1>2, <2>1, <2>3 DEF NotesInv
  <2>5. /\ NotesDrawn' <= Len(notes'[section'])
        /\ \A k \in DOMAIN drawn' :
              drawn'[k].what = "note" => drawn'[k].item[1] <= section'
    BY <1>1, <1>2, <2>1 DEF NotesInv
  <2>6. QED
    BY <1>1, <1>2, <2>2, <2>4, <2>5, NotesStay
<1>8. QED
  BY <1>3, <1>4, <1>5, <1>6, <1>7 DEF PreviewInv

\* Every step keeps the invariant.
LEMMA PreviewStep == PreviewInv /\ [Next]_vars => PreviewInv'
BY FillsGlyph, BeginsWrap, Wraps, DrawsLine, DrawsLongSeparator, DrawsTitle, DrawsNote,
   GoesToNextSection, PlacesNumber, PreviewStutters DEF Next, Drawn

------------------------------------------------------------------------------
\* What the invariant says of the canvas.

\* From the text of a page to its canvas, every state is as the invariant says.
THEOREM PreviewSafe == Spec => []PreviewInv
BY PreviewInitially, PreviewStep, PTL DEF Spec

\* The variables keep their types: a glyph is of a character of the text, and an
\* element of the canvas a line, a separator, a title or a note.
THEOREM PreviewTypeCorrect == Spec => []TypeOK
<1>1. PreviewInv => TypeOK
  BY DEF PreviewInv
<1>2. QED
  BY PreviewSafe, <1>1, PTL

\* The lines of the page are the greedy wrap of its words, at every round.
THEOREM PreviewWrapsGreedily == Spec => []WrappedGreedily
<1>1. PreviewInv => WrappedGreedily
  BY DEF PreviewInv, WrapInv, WrappedGreedily
<1>2. QED
  BY PreviewSafe, <1>1, PTL

\* Nothing is drawn over what is above it, whatever heights the notes have.
THEOREM NothingDrawnOver == Spec => []OneBelowAnother
<1>1. PreviewInv => OneBelowAnother
  BY DEF PreviewInv
<1>2. QED
  BY PreviewSafe, <1>1, PTL

\* When all is drawn, the canvas shows the words of the main text in order, every
\* line once and every note once, by section and in order.
THEOREM CanvasIsThePage == Spec => []PageIsDrawn
<1>1. PreviewInv => PageIsDrawn
  <2> SUFFICES ASSUME PreviewInv, stage = "drawn"
               PROVE  /\ FlattenSeq([k \in DOMAIN lines |-> lines[k].words])
                           = [n \in DOMAIN WordLengths(content) |-> n]
                      /\ words = WordLengths(content)
                      /\ Items("line") = [n \in DOMAIN lines |-> <<0, n>>]
                      /\ Items("note") = FlattenSeq([s \in Sections |->
                                             [n \in DOMAIN notes[s] |-> <<s, n>>]])
    BY DEF PageIsDrawn
  <2>1. TypeOK /\ StageInv /\ SpeltInv /\ LinesInv /\ NotesInv
    BY DEF PreviewInv
  <2>2. wrapping = "wrapped" /\ taken = Len(words) /\ words = WordLengths(content)
    BY <2>1 DEF StageInv
  <2>3. DOMAIN words = 1..Len(words) /\ DOMAIN lines = 1..Len(lines)
    BY <2>1, CanvasTypes
  <2>4. FlattenSeq([k \in DOMAIN lines |-> lines[k].words])
           = [n \in DOMAIN WordLengths(content) |-> n]
    BY <2>1, <2>2, <2>3 DEF SpeltInv, LinesSoFar
  <2>5. Items("line") = [n \in DOMAIN lines |-> <<0, n>>]
    BY <2>1, <2>2, <2>3 DEF LinesInv, LinesDrawn
  <2>6. Items("note") = FlattenSeq([s \in Sections |-> [n \in DOMAIN notes[s] |-> <<s, n>>]])
    <3>1. PICK d : d = [s \in Sections |-> Done(s)]
      OBVIOUS
    <3>2. \A s \in Sections : d[s] = Len(notes[s]) /\ DOMAIN notes[s] = 1..Len(notes[s])
      BY <2>1, <3>1, NoteTypes DEF Done
    <3>3. Items("note") = NotesUpTo(d)
      BY <2>1, <3>1 DEF NotesInv
    <3>4. [s \in Sections |-> [n \in 1..d[s] |-> <<s, n>>]]
            = [s \in Sections |-> [n \in DOMAIN notes[s] |-> <<s, n>>]]
      BY <3>2
    <3>5. QED
      BY <3>3, <3>4 DEF NotesUpTo
  <2>7. QED
    BY <2>2, <2>4, <2>5, <2>6
<1>2. QED
  BY PreviewSafe, <1>1, PTL

------------------------------------------------------------------------------
\* The lines of the page are as few as they can be.

\* A step leaves the lines measured.
LEMMA PreviewMeasuredStep ==
    PreviewInv /\ LinesMeasured /\ [Next]_vars => LinesMeasured'
<1> SUFFICES ASSUME PreviewInv, LinesMeasured, [Next]_vars PROVE LinesMeasured'
  OBVIOUS
<1>1. CASE Wrap
  BY <1>1, MeasuredStep DEF PreviewInv, Wrap, WrapNext
<1>2. CASE BeginWrap
  <2>1. lines' = <<>> /\ currentLine'.words = <<>>
    BY <1>2 DEF PreviewInv, StageInv, BeginWrap, EmptyLine
  <2>2. QED
    BY <2>1 DEF LinesMeasured
<1>3. CASE UNCHANGED wrapVars
  BY <1>3, MeasuredStep DEF PreviewInv
<1>4. QED
  BY <1>1, <1>2, <1>3 DEF Next, FillGlyph, DrawLine, DrawLongSeparator, DrawTitle,
                          DrawNote, NextSection, PlaceNumber, Drawn, vars

\* No cut of the page's words into lines within the bound has fewer lines than the
\* canvas.
THEOREM PreviewHasFewestLines == Spec => []FewestLines
<1>1. Init => PreviewInv /\ LinesMeasured
  <2>1. Init => LinesMeasured
    BY DEF Init, EmptyLine, LinesMeasured
  <2>2. QED
    BY <2>1, PreviewInitially
<1>2. PreviewInv /\ LinesMeasured /\ [Next]_vars => (PreviewInv /\ LinesMeasured)'
  BY PreviewStep, PreviewMeasuredStep
<1>3. PreviewInv /\ LinesMeasured => FewestLines
  BY GreedyWrapIsFewest DEF PreviewInv
<1>4. QED
  BY <1>1, <1>2, <1>3, PTL DEF Spec
------------------------------------------------------------------------------
\* The words of the page flow onto the lines.

\* What Flow sees does not change if the lines, the words taken, the text and the
\* end of the wrap do not.
LEMMA PageFlowStutters ==
    ASSUME PlacedInv, taken' = taken, currentLine' = currentLine, lines' = lines,
           wrapping' = wrapping, content' = content,
           (stage \notin {"layout", "wrap"})' = (stage \notin {"layout", "wrap"})
    PROVE  UNCHANGED PageFlow!flowVars /\ PlacedInv'
<1>1. LinesSoFar' = LinesSoFar
  BY DEF LinesSoFar
<1>2. \A m : LinesWith(m)' = LinesWith(m)
  BY <1>1 DEF LinesWith
<1>3. LineOf' = LineOf
  BY <1>2 DEF LineOf
<1>4. RoomOnLine' = RoomOnLine
  BY DEF RoomOnLine
<1>5. WordLengths(content)' = WordLengths(content)
  BY DEF WordLengths, EndsWord, WordEndingAt
<1>6. UNCHANGED PageFlow!flowVars
  BY <1>3, <1>4, <1>5 DEF PageFlow!flowVars
<1>7. PlacedInv'
  BY <1>1, <1>3 DEF PlacedInv
<1>8. QED
  BY <1>6, <1>7

\* A round of WrapText on the words of the page is a step of their flow.
LEMMA PageFlows ==
    ASSUME PreviewInv, PlacedInv, Wrap
    PROVE  PageFlow!Next /\ PlacedInv'
<1>1. /\ WrapInv /\ words = WordLengths(content) /\ content' = content
      /\ stage = "wrap" /\ wrapping = "words" /\ words' = words
      /\ stage' = IF wrapping' = "wrapped" THEN "lines" ELSE "wrap"
      /\ wrapping' \in {"words", "wrapped"}
  BY DEF PreviewInv, StageInv, Wrap, TakeWord, ReturnLines
<1>2. Flow!Next /\ PlacedInv'
  BY <1>1, WrapFlows, WrapPlaces, WrapEndsFlow DEF Wrap
<1>3. WordLengths(content)' = WordLengths(content)
  BY <1>1 DEF WordLengths, EndsWord, WordEndingAt
<1>4. /\ (wrapping = "wrapped") = (stage \notin {"layout", "wrap"})
      /\ (wrapping = "wrapped")' = (stage \notin {"layout", "wrap"})'
  BY <1>1
<1>5. PageFlow!Next
  BY <1>1, <1>2, <1>3, <1>4
  DEF Flow!Next, Flow!Join, Flow!Open, Flow!End, Flow!Placing, Flow!NextSize, Flow!LastBox,
      PageFlow!Next, PageFlow!Join, PageFlow!Open, PageFlow!End, PageFlow!Placing,
      PageFlow!NextSize, PageFlow!LastBox
<1>6. QED
  BY <1>2, <1>5

\* Selecting a page puts every word of its main text in its turn on the line of the
\* word before it, if it fits there after a blank, or on a new one.
THEOREM PageImplementsFlow == Spec => WordsFlowSafely
<1>1. Init => PageFlow!Init /\ PlacedInv
  <2> SUFFICES ASSUME Init PROVE PageFlow!Init /\ PlacedInv
    OBVIOUS
  <2>1. /\ taken = 0 /\ currentLine = EmptyLine /\ content \in Contents
        /\ lines = <<>> /\ wrapping = "words" /\ stage = "layout"
    BY DEF Init
  <2>2. WordLengths(content) \in Seq(Nat)
    <3>1. WordLengths(content) \in Seq(Nat \ {0})
      BY <2>1, WordLengthsType
    <3>2. QED
      BY <3>1
  <2>3. 1..taken = {}
    BY <2>1
  <2>4. LineOf = <<>> /\ RoomOnLine = 0
    BY <2>1, <2>3 DEF LineOf, RoomOnLine
  <2>5. PageFlow!Init
    BY <2>1, <2>2, <2>4 DEF PageFlow!Init
  <2>6. LinesSoFar = <<EmptyLine>> /\ EmptyLine.words = <<>>
    BY <2>1 DEF LinesSoFar, EmptyLine
  <2>7. PlacedInv
    BY <2>1, <2>6 DEF PlacedInv
  <2>8. QED
    BY <2>5, <2>7
<1>2. PreviewInv /\ PlacedInv /\ [Next]_vars
        => [PageFlow!Next]_(PageFlow!flowVars) /\ PlacedInv'
  <2> SUFFICES ASSUME PreviewInv, PlacedInv, [Next]_vars
               PROVE  [PageFlow!Next]_(PageFlow!flowVars) /\ PlacedInv'
    OBVIOUS
  <2>1. CASE Wrap
    BY <2>1, PageFlows
  <2>2. CASE FillGlyph \/ BeginWrap
    <3>1. /\ taken' = taken /\ currentLine' = currentLine /\ lines' = lines
          /\ wrapping' = wrapping /\ content' = content
          /\ stage \in {"layout", "wrap"} /\ stage' \in {"layout", "wrap"}
      BY <2>2 DEF FillGlyph, BeginWrap, wrapVars
    <3>2. QED
      BY <3>1, PageFlowStutters
  <2>3. CASE DrawLine \/ DrawLongSeparator \/ DrawTitle \/ DrawNote \/ NextSection
               \/ PlaceNumber
    <3>1. UNCHANGED wrapVars /\ content' = content
      BY <2>3 DEF DrawLine, DrawLongSeparator, DrawTitle, DrawNote, NextSection, PlaceNumber
    <3>2. stage \notin {"layout", "wrap"} /\ stage' \notin {"layout", "wrap"}
      BY <2>3 DEF DrawLine, DrawLongSeparator, DrawTitle, DrawNote, NextSection,
                  PlaceNumber, SectionEnds
    <3>3. QED
      BY <3>1, <3>2, PageFlowStutters DEF wrapVars
  <2>4. CASE UNCHANGED vars
    BY <2>4, PageFlowStutters DEF vars, previewVars, wrapVars
  <2>5. QED
    BY <2>1, <2>2, <2>3, <2>4 DEF Next, Drawn
<1>3. QED
  BY <1>1, <1>2, PreviewSafe, PTL DEF Spec, WordsFlowSafely

=============================================================================
