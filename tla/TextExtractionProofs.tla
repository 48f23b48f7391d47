------------------------ MODULE TextExtractionProofs ------------------------
(***************************************************************************)
(* What the extraction keeps, for every text and any number of systems:    *)
(* letters, tags, reading order, and the absence of notes and line breaks  *)
(* where the method has gone; and that it ends.                            *)
(***************************************************************************)
EXTENDS TextExtraction, DataLemmas, SequenceTheorems

------------------------------------------------------------------------------
\* The systems are numbered, and the characters of their tags are no letters and
\* no blanks.
LEMMA SystemFacts ==
    /\ Len(TagChars) \in Nat \ {0} /\ Systems = 1..Len(TagChars)
    /\ \A s \in Systems : TagChars[s] # Letter /\ TagChars[s] \notin Blanks
    /\ Letter \notin Blanks
BY ClassesAssumption DEF Systems

\* Trim leaves a part of its argument that begins and ends with no blank, and
\* leaves no more than blanks out.
LEMMA TrimFacts ==
    ASSUME NEW S, NEW s \in Seq(S)
    PROVE  /\ Trim(s) \in Seq(S)
           /\ \E d \in 0..Len(s) :
                 /\ d + Len(Trim(s)) <= Len(s)
                 /\ \A k \in 1..Len(Trim(s)) : Trim(s)[k] = s[d + k]
                 /\ \A j \in 1..Len(s) :
                       ~IsBlank(s[j]) => j \in (d + 1)..(d + Len(Trim(s)))
           /\ Trim(s) # <<>> =>
                 ~IsBlank(Trim(s)[1]) /\ ~IsBlank(Trim(s)[Len(Trim(s))])
<1> DEFINE solid == {k \in DOMAIN s : ~IsBlank(s[k])}
           first == CHOOSE k \in solid : \A j \in solid : k <= j
           last  == CHOOSE k \in solid : \A j \in solid : k >= j
<1>1. Len(s) \in Nat /\ DOMAIN s = 1..Len(s) /\ \A k \in 1..Len(s) : s[k] \in S
  BY LenProperties, ElementOfSeq
<1>2. CASE solid = {}
  <2>1. Trim(s) = <<>>
    BY <1>2 DEF Trim
  <2>2. \A j \in 1..Len(s) : IsBlank(s[j])
    BY <1>1, <1>2
  <2>3. 0 \in 0..Len(s) /\ 0 + Len(<<>>) <= Len(s)
    BY <1>1
  <2>4. QED
    BY <2>1, <2>2, <2>3
<1>3. CASE solid # {}
  <2>1. solid \in SUBSET Nat /\ \A k \in solid : k \in 1..Len(s) /\ k <= Len(s)
    BY <1>1
  <2>2. first \in solid /\ \A j \in solid : first <= j
    <3>1. \E k \in solid : \A j \in solid : k <= j
      <4> HIDE DEF solid
      <4> QED BY <2>1, <1>3, LeastElement
    <3> HIDE DEF solid
    <3>2. QED
      BY <3>1
  <2>3. last \in solid /\ \A j \in solid : j <= last
    <3>1. \E k \in solid : \A j \in solid : j <= k
      <4> HIDE DEF solid
      <4> QED BY <1>1, <2>1, <1>3, GreatestElement
    <3>2. \E k \in solid : \A j \in solid : k >= j
      <4> HIDE DEF solid
      <4> QED BY <2>1, <3>1
    <3>3. \A j \in solid : last >= j /\ last \in solid
      <4> HIDE DEF solid
      <4> QED BY <3>2
    <3> HIDE DEF solid, last
    <3>4. QED
      BY <1>3, <2>1, <3>3
  <2>4. Trim(s) = SubSeq(s, first, last)
    BY <1>3, Zenon DEF Trim
  <2>5. first \in 1..Len(s) /\ last \in 1..Len(s) /\ first <= last
    <3> HIDE DEF solid, first, last
    <3> QED BY <2>1, <2>2, <2>3
  <2>6. ~IsBlank(s[first]) /\ ~IsBlank(s[last])
    BY <2>2, <2>3
  <2>7. \A j \in 1..Len(s) : ~IsBlank(s[j]) => j \in first..last
    <3> HIDE DEF first, last
    <3> QED BY <1>1, <2>2, <2>3, <2>5
  <2> HIDE DEF solid, first, last
  <2>8. /\ Trim(s) \in Seq(S)
        /\ Len(Trim(s)) = last - first + 1
        /\ \A k \in 1..(last - first + 1) : Trim(s)[k] = s[first + k - 1]
    <3>1. first \in Int /\ last \in Int /\ \A k \in first..last : s[k] \in S
      BY <1>1, <2>5
    <3>2. QED
      BY <2>4, <2>5, <3>1, SubSeqProperties
  <2>9. Trim(s)[1] = s[first] /\ Trim(s)[Len(Trim(s))] = s[last]
    BY <2>5, <2>8
  <2>a. first \in Int /\ last \in Int /\ first >= 1 /\ last <= Len(s)
    BY <1>1, <2>5
  <2>b. (first - 1) + Len(Trim(s)) = last /\ (first - 1) + 1 = first
    BY <2>8, <2>a
  <2>c. \A k \in 1..(last - first + 1) : (first - 1) + k = first + k - 1
    BY <2>a
  <2>10. /\ first - 1 \in 0..Len(s)
         /\ (first - 1) + Len(Trim(s)) <= Len(s)
         /\ \A k \in 1..Len(Trim(s)) : Trim(s)[k] = s[(first - 1) + k]
         /\ \A j \in 1..Len(s) :
               ~IsBlank(s[j]) => j \in ((first - 1) + 1)..((first - 1) + Len(Trim(s)))
    <3>1. first - 1 \in 0..Len(s)
      BY <1>1, <2>5
    <3>2. \A k \in 1..Len(Trim(s)) : Trim(s)[k] = s[(first - 1) + k]
      BY <2>8, <2>c
    <3>3. QED
      BY <2>7, <2>a, <2>b, <3>1, <3>2
  <2>11. QED
    BY <2>6, <2>8, <2>9, <2>10
<1>4. QED
  BY <1>2, <1>3

\* IndexOf finds the closing tag behind the opening one, within the text.
LEMMA EndFacts ==
    ASSUME NEW t, Len(t) \in Nat, NEW s, NEW k \in Nat \ {0}, NoteOpensAt(t, s, k)
    PROVE  /\ EndOfNote(t, s, k) \in (k + 2)..(Len(t) - 1)
           /\ IsTagAt(t, s, k) /\ IsTagAt(t, s, EndOfNote(t, s, k))
<1>1. ClosingTags(t, s, k) # {} /\ IsTagAt(t, s, k)
  BY DEF NoteOpensAt
<1>2. ClosingTags(t, s, k) \in SUBSET Nat
  BY DEF ClosingTags
<1>3. EndOfNote(t, s, k) \in ClosingTags(t, s, k)
  <2>1. \E e \in ClosingTags(t, s, k) : \A f \in ClosingTags(t, s, k) : e <= f
    BY <1>1, <1>2, LeastElement
  <2>2. QED
    BY <2>1 DEF EndOfNote
<1>4. EndOfNote(t, s, k) \in (k + 2)..Len(t) /\ IsTagAt(t, s, EndOfNote(t, s, k))
  BY <1>3 DEF ClosingTags
<1>5. EndOfNote(t, s, k) + 1 <= Len(t)
  BY <1>4 DEF IsTagAt
<1>6. QED
  BY <1>1, <1>4, <1>5

\* Every character of t stands for the one of s at its index under f: in order, every
\* blank for a blank, and all but blanks of s are there.
StandsFor(f, t, s) ==
    /\ f \in [1..Len(t) -> 1..Len(s)]
    /\ \A m, n \in 1..Len(t) : m < n => f[m] < f[n]
    /\ \A n \in 1..Len(t) : t[n] = IF IsBlank(s[f[n]]) THEN JoinedBlank ELSE s[f[n]]
    /\ \A j \in 1..Len(s) : ~IsBlank(s[j]) => \E n \in 1..Len(t) : f[n] = j

\* Joining the blanks leaves words apart by single blanks: none begins or ends the
\* result, and no two stand together.  Every character of the result stands for one of
\* the text, in order, and all but blanks are kept.
LEMMA NormalizeFacts ==
    ASSUME NEW S, NEW s \in Seq(S), JoinedBlank \notin S
    PROVE  /\ Normalize(s) \in Seq(S \cup {JoinedBlank})
           /\ \A n \in 1..Len(Normalize(s)) :
                 Normalize(s)[n] = JoinedBlank =>
                     /\ n \notin {1, Len(Normalize(s))}
                     /\ Normalize(s)[n + 1] # JoinedBlank
           /\ \E f : StandsFor(f, Normalize(s), s)
<1> DEFINE trimmed == Trim(s)
           kept == {k \in DOMAIN trimmed :
                       IsBlank(trimmed[k]) => ~IsBlank(trimmed[k - 1])}
           place(n) == CHOOSE k \in kept : Rank(kept, k) = n
           last == Len(trimmed)
           size == Cardinality(kept)
           joined == [n \in 1..size |-> IF IsBlank(trimmed[place(n)])
                                        THEN JoinedBlank ELSE trimmed[place(n)]]
<1>1. Normalize(s) = joined
  BY Zenon DEF Normalize, Rank
<1>2. /\ trimmed \in Seq(S)
      /\ trimmed # <<>> => ~IsBlank(trimmed[1]) /\ ~IsBlank(trimmed[last])
  BY TrimFacts
<1>b. PICK d \in 0..Len(s) :
         /\ d + last <= Len(s)
         /\ \A k \in 1..last : trimmed[k] = s[d + k]
         /\ \A j \in 1..Len(s) : ~IsBlank(s[j]) => j \in (d + 1)..(d + last)
  BY TrimFacts
<1> HIDE DEF trimmed
<1>3. /\ last \in Nat /\ DOMAIN trimmed = 1..last
      /\ \A k \in 1..last : trimmed[k] \in S
      /\ last # 0 => trimmed # <<>>
  BY <1>2, LenProperties, ElementOfSeq, EmptySeq
<1>4. kept \in SUBSET (1..last)
  BY <1>3
<1>5. \A k \in 1..last : ~IsBlank(trimmed[k]) => k \in kept
  BY <1>3
<1>6. \A k \in kept : IsBlank(trimmed[k]) => /\ k - 1 \in kept /\ ~IsBlank(trimmed[k - 1])
                                             /\ k < last /\ last \in kept
  <2> TAKE k \in kept
  <2> HAVE IsBlank(trimmed[k])
  <2>1. k \in 1..last /\ ~IsBlank(trimmed[k - 1])
    BY <1>3
  <2>2. k # 1 /\ k # last /\ ~IsBlank(trimmed[last])
    BY <1>2, <1>3, <2>1
  <2>3. k - 1 \in 1..last /\ last \in 1..last /\ k < last
    BY <1>3, <2>1, <2>2
  <2> HIDE DEF kept
  <2>4. QED
    BY <1>5, <2>1, <2>2, <2>3
<1> HIDE DEF kept
<1>7. /\ size \in Nat
      /\ \A k \in kept : Rank(kept, k) \in 1..size
      /\ \A j, k \in kept : j < k => Rank(kept, j) < Rank(kept, k)
  BY <1>3, <1>4, RankGrows
<1>a. /\ \A k \in kept : Rank(kept, k) \in Nat
      /\ \A k \in kept : k \in Nat
  BY <1>4, <1>7
<1>8. \A n \in 1..size : place(n) \in kept /\ Rank(kept, place(n)) = n
  <2> TAKE n \in 1..size
  <2>1. \E k \in kept : Rank(kept, k) = n
    BY <1>3, <1>4, RankTaken
  <2>2. QED
    BY <2>1
<1> HIDE DEF place
<1>9. joined \in Seq(S \cup {JoinedBlank}) /\ Len(joined) = size
  <2>1. \A n \in 1..size : trimmed[place(n)] \in S
    BY <1>3, <1>4, <1>8
  <2>2. joined \in [1..size -> S \cup {JoinedBlank}]
    BY <2>1
  <2> HIDE DEF joined
  <2>3. QED
    BY <1>7, <2>2, LenProperties, SeqDef
<1>10. \A n \in 1..size : joined[n] = JoinedBlank <=> IsBlank(trimmed[place(n)])
  <2> TAKE n \in 1..size
  <2>1. trimmed[place(n)] \in S
    BY <1>3, <1>4, <1>8
  <2>2. trimmed[place(n)] # JoinedBlank
    BY <2>1
  <2>3. QED
    BY <2>2
<1> HIDE DEF joined
<1>11. ASSUME NEW n \in 1..size, joined[n] = JoinedBlank
       PROVE  n # 1 /\ n # size /\ joined[n + 1] # JoinedBlank
  <2>1. /\ place(n) \in kept /\ Rank(kept, place(n)) = n
        /\ place(n) - 1 \in kept /\ last \in kept /\ place(n) < last
    BY <1>6, <1>8, <1>10, <1>11
  <2>2. place(n) \in Nat /\ last \in Nat
    BY <1>a, <2>1
  <2>3. Rank(kept, place(n) - 1) < n /\ Rank(kept, place(n) - 1) >= 1
    BY <1>7, <2>1, <2>2
  <2>4. n < Rank(kept, last) /\ Rank(kept, last) <= size
    BY <1>7, <2>1
  <2>5. n # 1 /\ n # size /\ n + 1 \in 1..size
    BY <1>7, <1>a, <2>1, <2>3, <2>4
  <2>6. ASSUME joined[n + 1] = JoinedBlank
        PROVE  FALSE
    <3>1. /\ place(n + 1) \in kept /\ Rank(kept, place(n + 1)) = n + 1
          /\ place(n + 1) - 1 \in kept
          /\ ~IsBlank(trimmed[place(n + 1) - 1])
      BY <1>6, <1>8, <1>10, <2>5, <2>6
    <3>2. IsBlank(trimmed[place(n)])
      BY <1>10, <1>11
    <3>3. place(n + 1) \in Nat /\ place(n + 1) - 1 # place(n)
      BY <1>a, <3>1, <3>2
    <3>4. ~ (place(n + 1) < place(n)) /\ place(n) # place(n + 1)
      BY <1>7, <2>1, <3>1
    <3>5. place(n) < place(n + 1) - 1
      BY <2>2, <3>3, <3>4
    <3>6. n < Rank(kept, place(n + 1) - 1) /\ Rank(kept, place(n + 1) - 1) < n + 1
      BY <1>7, <2>1, <3>1, <3>3, <3>5
    <3>7. Rank(kept, place(n + 1) - 1) \in Int
      BY <1>7, <3>1
    <3>8. QED
      BY <3>6, <3>7
  <2>7. QED
    BY <2>5, <2>6
<1>12. \E f : StandsFor(f, joined, s)
  <2> DEFINE f == [n \in 1..size |-> d + place(n)]
  <2>1. d \in Nat /\ Len(s) \in Nat
    BY <1>b, LenProperties
  <2>2. \A n \in 1..size : /\ place(n) \in 1..last /\ place(n) \in kept
                           /\ Rank(kept, place(n)) = n
    BY <1>4, <1>8
  <2>3. \A n \in 1..size : /\ d + place(n) \in 1..Len(s)
                           /\ trimmed[place(n)] = s[d + place(n)]
    BY <1>3, <1>b, <2>1, <2>2
  <2>4. f \in [1..size -> 1..Len(s)]
    BY <2>3
  <2>5. ASSUME NEW m \in 1..size, NEW n \in 1..size, m < n
        PROVE  f[m] < f[n]
    <3>1. place(m) \in Nat /\ place(n) \in Nat
      BY <1>3, <2>2
    <3>2. ~(place(n) < place(m)) /\ place(m) # place(n)
      BY <1>7, <2>2, <2>5
    <3>3. d + place(m) < d + place(n)
      BY <2>1, <3>1, <3>2
    <3>4. QED
      BY <3>3
  <2>6. \A n \in 1..size :
           joined[n] = IF IsBlank(trimmed[place(n)]) THEN JoinedBlank ELSE trimmed[place(n)]
    BY DEF joined
  <2>7. ASSUME NEW j \in 1..Len(s), ~IsBlank(s[j])
        PROVE  \E n \in 1..size : f[n] = j
    <3>1. j - d \in 1..last /\ d + (j - d) = j
      BY <1>3, <1>b, <2>1, <2>7
    <3>2. j - d \in kept
      BY <1>5, <1>b, <2>7, <3>1
    <3>3. PICK n \in 1..size : n = Rank(kept, j - d)
      BY <1>7, <3>2
    <3>4. place(n) = j - d
      <4>1. ~(place(n) < j - d) /\ ~(j - d < place(n))
        BY <1>7, <1>a, <2>2, <3>2, <3>3
      <4>2. QED
        BY <1>a, <2>2, <3>2, <4>1
    <3>5. f[n] = j
      BY <3>1, <3>4
    <3>6. QED
      BY <3>5
  <2>8. \A n \in 1..size : f[n] = d + place(n)
    OBVIOUS
  <2> HIDE DEF f
  <2>9. \A n \in 1..size : joined[n] = IF IsBlank(s[f[n]]) THEN JoinedBlank ELSE s[f[n]]
    BY <2>3, <2>6, <2>8
  <2>10. StandsFor(f, joined, s)
    BY <1>9, <2>4, <2>5, <2>7, <2>9 DEF StandsFor
  <2>11. QED
    BY <2>10
<1>13. QED
  BY <1>1, <1>9, <1>11, <1>12

------------------------------------------------------------------------------
\* The note that a step takes out, and where its closing tag is.
End  == EndOfNote(text, system, i)
Note == Trim(SubSeq(text, i + 2, End - 1))

\* What the type invariant says of the text at hand.
LEMMA TextFacts ==
    ASSUME TypeOK
    PROVE  /\ Len(rawText) \in Nat /\ JoinedBlank \notin Positions
           /\ \A p \in Positions : p \in Nat
           /\ Len(text) \in Nat /\ DOMAIN text = 1..Len(text)
           /\ \A k \in 1..Len(text) : text[k] \in Positions
           /\ Len(builder) \in Nat /\ DOMAIN builder = 1..Len(builder)
           /\ \A k \in 1..Len(builder) : builder[k] \in Positions
           /\ i \in Nat \ {0} /\ i <= Len(text) + 1
           /\ system \in Systems /\ system \in Nat
<1>1. rawText \in Seq(Classes) /\ text \in Seq(Positions) /\ builder \in Seq(Positions)
        /\ i \in 1..(Len(text) + 1) /\ system \in Systems
  BY DEF TypeOK
<1>2. Len(rawText) \in Nat
  BY <1>1, LenProperties
<1>3. Len(text) \in Nat /\ DOMAIN text = 1..Len(text)
        /\ \A k \in 1..Len(text) : text[k] \in Positions
  BY <1>1, LenProperties, ElementOfSeq
<1>4. Len(builder) \in Nat /\ DOMAIN builder = 1..Len(builder)
        /\ \A k \in 1..Len(builder) : builder[k] \in Positions
  BY <1>1, LenProperties, ElementOfSeq
<1>5. JoinedBlank \notin Positions /\ \A p \in Positions : p \in Nat
  BY <1>2 DEF Positions, JoinedBlank
<1>6. system \in Nat
  BY <1>1, SystemFacts
<1>7. QED
  BY <1>1, <1>2, <1>3, <1>4, <1>5, <1>6

\* The note lies between its two tags, and holds all of what stands there but
\* blanks.
LEMMA NoteFacts ==
    ASSUME TypeOK, NoteOpensAt(text, system, i)
    PROVE  /\ End \in (i + 2)..(Len(text) - 1)
           /\ \A a \in {i, i + 1, End, End + 1} : rawText[text[a]] = TagChars[system]
           /\ Note \in Seq(Positions)
           /\ \E d \in (i + 1)..(End - 1) :
                 /\ d + Len(Note) <= End - 1
                 /\ \A k \in 1..Len(Note) : Note[k] = text[d + k]
           /\ \A a \in (i + 2)..(End - 1) :
                 ~IsBlank(text[a]) => \E k \in 1..Len(Note) : Note[k] = text[a]
<1> DEFINE between == SubSeq(text, i + 2, End - 1)
<1>1. /\ End \in (i + 2)..(Len(text) - 1)
      /\ IsTagAt(text, system, i) /\ IsTagAt(text, system, End)
  <2>1. Len(text) \in Nat /\ i \in Nat \ {0}
    BY TextFacts
  <2>2. QED
    BY <2>1, EndFacts DEF End
<1>2. \A a \in {i, i + 1, End, End + 1} : rawText[text[a]] = TagChars[system]
  BY <1>1 DEF IsTagAt
<1>3. /\ between \in Seq(Positions) /\ Len(between) = (End - 1) - (i + 2) + 1
      /\ \A k \in 1..((End - 1) - (i + 2) + 1) : between[k] = text[(i + 2) + k - 1]
  <2>1. i + 2 \in Int /\ End - 1 \in Int /\ i + 2 <= (End - 1) + 1
    BY <1>1, TextFacts
  <2>2. \A k \in (i + 2)..(End - 1) : text[k] \in Positions
    BY <1>1, TextFacts
  <2>3. i + 2 <= End - 1 \/ i + 2 = (End - 1) + 1
    BY <2>1
  <2>4. QED
    BY <2>1, <2>2, SubSeqProperties
<1>4. Note = Trim(between)
  BY DEF Note
<1> HIDE DEF between
<1>5. Note \in Seq(Positions) /\ Len(Note) \in Nat
  BY <1>3, <1>4, TrimFacts, LenProperties
<1>6. PICK d \in 0..Len(between) :
         /\ d + Len(Note) <= Len(between)
         /\ \A k \in 1..Len(Note) : Note[k] = between[d + k]
         /\ \A j \in 1..Len(between) :
               ~IsBlank(between[j]) => j \in (d + 1)..(d + Len(Note))
  BY <1>3, <1>4, TrimFacts
<1>7. i \in Int /\ End \in Int /\ d \in Int
  BY <1>1, <1>6, TextFacts
<1>8. /\ d + (i + 1) \in (i + 1)..(End - 1)
      /\ d + (i + 1) + Len(Note) <= End - 1
  BY <1>3, <1>5, <1>6, <1>7
<1>9. \A k \in 1..Len(Note) : Note[k] = text[d + (i + 1) + k]
  <2> TAKE k \in 1..Len(Note)
  <2>1. d + k \in 1..((End - 1) - (i + 2) + 1)
    BY <1>3, <1>5, <1>6, <1>7
  <2>2. (i + 2) + (d + k) - 1 = d + (i + 1) + k
    BY <1>7, <2>1
  <2>3. QED
    BY <1>3, <1>6, <2>1, <2>2
<1>10. ASSUME NEW a \in (i + 2)..(End - 1), ~IsBlank(text[a])
       PROVE  \E k \in 1..Len(Note) : Note[k] = text[a]
  <2>1. a - (i + 1) \in 1..Len(between)
    BY <1>3, <1>7
  <2>2. between[a - (i + 1)] = text[a]
    <3>1. (i + 2) + (a - (i + 1)) - 1 = a
      BY <1>7
    <3>2. QED
      BY <1>3, <2>1, <3>1
  <2>3. a - (i + 1) \in (d + 1)..(d + Len(Note))
    BY <1>6, <1>10, <2>1, <2>2
  <2>4. (a - (i + 1)) - d \in 1..Len(Note) /\ d + ((a - (i + 1)) - d) = a - (i + 1)
    BY <1>5, <1>7, <2>3
  <2>5. QED
    BY <1>6, <2>2, <2>4
<1>11. QED
  BY <1>1, <1>2, <1>5, <1>8, <1>9, <1>10

------------------------------------------------------------------------------
\* Type correctness.

\* The first state has its types.
LEMMA TypeInit == Init => TypeOK
<1> SUFFICES ASSUME Init PROVE TypeOK
  OBVIOUS
<1>1. rawText \in Seq(Classes)
  BY RawTextsAssumption DEF Init
<1>2. Len(rawText) \in Nat
  BY <1>1, LenProperties
<1>3. text \in Seq(Positions) /\ Len(text) = Len(rawText)
  <2>1. text = [p \in 1..Len(rawText) |-> p]
    BY DEF Init
  <2>2. text \in [1..Len(rawText) -> Positions]
    BY <2>1 DEF Positions
  <2>3. QED
    BY <1>2, <2>2, SeqDef, LenProperties
<1>4. i \in 1..(Len(text) + 1)
  BY <1>2, <1>3 DEF Init
<1>5. system \in Systems
  BY SystemFacts DEF Init
<1>6. builder \in Seq(Positions) /\ mainText \in Seq(Positions \cup {JoinedBlank})
  BY EmptySeq DEF Init
<1>7. results \in [Systems -> Seq(Seq(Positions))]
  BY EmptySeq DEF Init
<1>8. QED
  BY <1>1, <1>3, <1>4, <1>5, <1>6, <1>7 DEF TypeOK, Init

\* A note leaves every variable with its type.
LEMMA TypeTakeNote == TypeOK /\ TakeNote => TypeOK'
<1> SUFFICES ASSUME TypeOK, TakeNote PROVE TypeOK'
  OBVIOUS
<1>1. /\ results' = [results EXCEPT ![system] = Append(@, Note)]
      /\ i' = End + 2
      /\ UNCHANGED <<rawText, system, text, builder, mainText, pc>>
  BY Zenon DEF TakeNote, Note, End
<1>2. End \in (i + 2)..(Len(text) - 1) /\ Note \in Seq(Positions)
  BY NoteFacts DEF TakeNote
<1>3. i' \in 1..(Len(text) + 1)
  BY <1>1, <1>2, TextFacts
<1>4. results' \in [Systems -> Seq(Seq(Positions))]
  <2>1. results \in [Systems -> Seq(Seq(Positions))] /\ system \in Systems
    BY DEF TypeOK
  <2>2. Append(results[system], Note) \in Seq(Seq(Positions))
    BY <1>2, <2>1, AppendProperties
  <2>3. QED
    BY <1>1, <2>1, <2>2
<1>5. Positions' = Positions
  BY <1>1 DEF Positions
<1>6. QED
  BY <1>1, <1>3, <1>4, <1>5 DEF TypeOK

\* So does a character that is copied.
LEMMA TypeCopyCharacter == TypeOK /\ CopyCharacter => TypeOK'
<1> SUFFICES ASSUME TypeOK, CopyCharacter PROVE TypeOK'
  OBVIOUS
<1>1. /\ builder' = Append(builder, text[i])
      /\ i' = i + 1 /\ i <= Len(text)
      /\ UNCHANGED <<rawText, system, text, results, mainText, pc>>
  BY DEF CopyCharacter
<1>2. i' \in 1..(Len(text) + 1)
  BY <1>1, TextFacts
<1>3. builder' \in Seq(Positions)
  <2>1. text[i] \in Positions /\ builder \in Seq(Positions)
    BY <1>1, TextFacts DEF TypeOK
  <2>2. QED
    BY <1>1, <2>1, AppendProperties
<1>4. Positions' = Positions
  BY <1>1 DEF Positions
<1>5. QED
  BY <1>1, <1>2, <1>3, <1>4 DEF TypeOK

\* So does the call for the next system.
LEMMA TypeNextSystem == TypeOK /\ NextSystem => TypeOK'
<1> SUFFICES ASSUME TypeOK, NextSystem PROVE TypeOK'
  OBVIOUS
<1>1. /\ system' = system + 1 /\ system < Len(TagChars)
      /\ text' = builder /\ i' = 1 /\ builder' = <<>>
      /\ UNCHANGED <<rawText, results, mainText, pc>>
  BY DEF NextSystem
<1>2. system' \in Systems
  BY <1>1, SystemFacts DEF TypeOK
<1>3. i' \in 1..(Len(builder) + 1)
  BY <1>1, TextFacts
<1>4. <<>> \in Seq(Positions)
  BY EmptySeq
<1>5. Positions' = Positions
  BY <1>1 DEF Positions
<1>6. QED
  BY <1>1, <1>2, <1>3, <1>4, <1>5 DEF TypeOK

\* So does the end of the method.
LEMMA TypeReturn == TypeOK /\ Return => TypeOK'
<1> SUFFICES ASSUME TypeOK, Return PROVE TypeOK'
  OBVIOUS
<1>1. /\ mainText' = Normalize(builder) /\ pc' = "returned"
      /\ UNCHANGED <<rawText, system, text, i, builder, results>>
  BY DEF Return
<1>2. Normalize(builder) \in Seq(Positions \cup {JoinedBlank})
  BY NormalizeFacts, TextFacts DEF TypeOK
<1>3. Positions' = Positions
  BY <1>1 DEF Positions
<1>4. QED
  BY <1>1, <1>2, <1>3 DEF TypeOK

\* So does every step.
LEMMA TypeStep == TypeOK /\ [Next]_vars => TypeOK'
<1> SUFFICES ASSUME TypeOK, [Next]_vars PROVE TypeOK'
  OBVIOUS
<1>1. CASE UNCHANGED vars
  BY <1>1 DEF vars, TypeOK, Positions
<1>2. CASE Next
  <2>1. CASE Returned
    BY <2>1 DEF Returned, vars, TypeOK, Positions
  <2>2. QED
    BY <1>2, <2>1, TypeTakeNote, TypeCopyCharacter, TypeNextSystem, TypeReturn DEF Next
<1>3. QED
  BY <1>1, <1>2

\* The index of ExtractByTag never leaves its text, whatever the text is, and what
\* the three passes return are sequences of its positions.
THEOREM TypeCorrect == Spec => []TypeOK
<1>1. Init => TypeOK
  BY TypeInit
<1>2. TypeOK /\ [Next]_vars => TypeOK'
  BY TypeStep
<1>3. QED
  BY <1>1, <1>2, PTL DEF Spec

------------------------------------------------------------------------------
\* Where the characters are.

\* What the type invariant says of the notes.
LEMMA ResultFacts ==
    ASSUME TypeOK, NEW s \in Systems
    PROVE  /\ results[s] \in Seq(Seq(Positions)) /\ Len(results[s]) \in Nat
           /\ DOMAIN results[s] = 1..Len(results[s])
           /\ \A n \in 1..Len(results[s]) :
                 /\ results[s][n] \in Seq(Positions) /\ Len(results[s][n]) \in Nat
                 /\ DOMAIN results[s][n] = 1..Len(results[s][n])
                 /\ \A k \in 1..Len(results[s][n]) : results[s][n][k] \in Positions
<1>1. results[s] \in Seq(Seq(Positions))
  BY DEF TypeOK
<1>2. /\ Len(results[s]) \in Nat /\ DOMAIN results[s] = 1..Len(results[s])
      /\ \A n \in 1..Len(results[s]) : results[s][n] \in Seq(Positions)
  BY <1>1, LenProperties, ElementOfSeq
<1>3. ASSUME NEW n \in 1..Len(results[s])
      PROVE  /\ Len(results[s][n]) \in Nat
             /\ DOMAIN results[s][n] = 1..Len(results[s][n])
             /\ \A k \in 1..Len(results[s][n]) : results[s][n][k] \in Positions
  BY <1>2, LenProperties, ElementOfSeq
<1>4. QED
  BY <1>1, <1>2, <1>3

\* Every position in a text or a note is one of the raw text.
LEMMA PlaceFacts ==
    ASSUME TypeOK
    PROVE  InText \subseteq Positions /\ \A s \in Systems : InNotes(s) \subseteq Positions
<1>1. InText \subseteq Positions
  <2>1. \A k \in i..Len(text) : k \in 1..Len(text)
    BY TextFacts
  <2>2. QED
    BY <2>1, TextFacts DEF InText
<1>2. ASSUME NEW s \in Systems
      PROVE  InNotes(s) \subseteq Positions
  BY ResultFacts DEF InNotes
<1>3. QED
  BY <1>1, <1>2

\* In a sequence of positions in reading order no position comes twice.
LEMMA AscendingFacts ==
    ASSUME NEW S \in SUBSET Nat, NEW s \in Seq(S), Ascending(s),
           NEW j \in 1..Len(s), NEW k \in 1..Len(s)
    PROVE  /\ j < k => s[j] < s[k]
           /\ s[j] = s[k] => j = k
           /\ s[j] < s[k] => j < k
<1>1. DOMAIN s = 1..Len(s) /\ Len(s) \in Nat /\ s[j] \in S /\ s[k] \in S
  BY LenProperties, ElementOfSeq
<1>2. (j < k => s[j] < s[k]) /\ (k < j => s[k] < s[j])
  BY <1>1 DEF Ascending
<1>3. j \in Int /\ k \in Int /\ s[j] \in Int /\ s[k] \in Int
  <2>1. S \subseteq Nat
    OBVIOUS
  <2>2. s[j] \in Nat /\ s[k] \in Nat
    BY <1>1, <2>1
  <2>3. QED
    BY <2>2
<1>4. QED
  BY <1>2, <1>3

\* Copying a character does not take it from the text.
LEMMA CopyKeepsPlaces ==
    ASSUME TypeOK, CopyCharacter
    PROVE  InText' = InText /\ \A s : InNotes(s)' = InNotes(s)
<1>1. /\ builder' = Append(builder, text[i])
      /\ i' = i + 1 /\ i <= Len(text)
      /\ text' = text /\ results' = results
  BY DEF CopyCharacter
<1>2. /\ Len(builder') = Len(builder) + 1 /\ DOMAIN builder' = 1..(Len(builder) + 1)
      /\ \A k \in 1..Len(builder) : builder'[k] = builder[k]
      /\ builder'[Len(builder) + 1] = text[i]
  <2>1. builder \in Seq(Positions) /\ text[i] \in Positions
    BY <1>1, TextFacts DEF TypeOK
  <2>2. builder' \in Seq(Positions)
    BY <1>1, <2>1, AppendProperties
  <2>3. QED
    BY <1>1, <2>1, <2>2, AppendProperties, LenProperties
<1>3. \A k \in i..Len(text) : k = i \/ k \in (i + 1)..Len(text)
  BY TextFacts
<1>4. \A k \in (i + 1)..Len(text) : k \in i..Len(text)
  BY TextFacts
<1>5. i \in i..Len(text) /\ Len(builder) + 1 \in 1..(Len(builder) + 1)
  BY <1>1, TextFacts
<1>6. \A k \in 1..(Len(builder) + 1) : k \in 1..Len(builder) \/ k = Len(builder) + 1
  BY TextFacts
<1>7. \A k \in 1..Len(builder) : k \in 1..(Len(builder) + 1)
  BY TextFacts
<1>8. {builder'[k] : k \in 1..(Len(builder) + 1)}
        = {builder[k] : k \in 1..Len(builder)} \cup {text[i]}
  BY <1>2, <1>5, <1>6, <1>7
<1>9. {text[k] : k \in i..Len(text)} = {text[i]} \cup {text[k] : k \in (i + 1)..Len(text)}
  BY <1>3, <1>4, <1>5
<1>10. InText' = {builder'[k] : k \in 1..(Len(builder) + 1)}
                   \cup {text[k] : k \in (i + 1)..Len(text)}
  BY <1>1, <1>2 DEF InText
<1>11. InText = {builder[k] : k \in 1..Len(builder)} \cup {text[k] : k \in i..Len(text)}
  BY TextFacts DEF InText
<1>12. InText' = InText
  BY <1>8, <1>9, <1>10, <1>11
<1>13. \A s : InNotes(s)' = InNotes(s)
  BY <1>1 DEF InNotes
<1>14. QED
  BY <1>12, <1>13

\* Neither does the call for the next system.
LEMMA NextKeepsPlaces ==
    ASSUME TypeOK, NextSystem
    PROVE  InText' = InText /\ \A s : InNotes(s)' = InNotes(s)
<1>1. /\ i > Len(text) /\ text' = builder /\ i' = 1 /\ builder' = <<>>
      /\ results' = results
  BY DEF NextSystem
<1>2. InText = {builder[k] : k \in 1..Len(builder)}
  <2>1. i..Len(text) = {}
    BY <1>1, TextFacts
  <2>2. QED
    BY <2>1, TextFacts DEF InText
<1>3. InText' = {builder[k] : k \in 1..Len(builder)}
  <2>1. DOMAIN builder' = {}
    BY <1>1
  <2>2. QED
    BY <1>1, <2>1 DEF InText
<1>4. \A s : InNotes(s)' = InNotes(s)
  BY <1>1 DEF InNotes
<1>5. QED
  BY <1>2, <1>3, <1>4

\* The tag characters that a note's step takes out.
Taken == {text[i], text[i + 1], text[End], text[End + 1]}

\* A note takes its characters out of the text, those of its tags too.
LEMMA NoteLeavesText ==
    ASSUME TypeOK, OrderInv, TakeNote
    PROVE  /\ InText' \subseteq InText
           /\ \A a \in i..(End + 1) : text[a] \in InText /\ text[a] \notin InText'
           /\ \A p \in InText : p \notin InText' => \E a \in i..(End + 1) : p = text[a]
<1>1. i' = End + 2 /\ UNCHANGED <<text, builder>>
  BY Zenon DEF TakeNote, End
<1>2. End \in (i + 2)..(Len(text) - 1) /\ End \in Int
  BY NoteFacts, TextFacts DEF TakeNote
<1>3. InText' = {builder[k] : k \in DOMAIN builder}
                  \cup {text[k] : k \in (End + 2)..Len(text)}
  BY <1>1 DEF InText
<1>4. \A k \in i..Len(text) : k \in i..(End + 1) \/ k \in (End + 2)..Len(text)
  BY <1>2, TextFacts
<1>5. \A k \in (End + 2)..Len(text) : k \in i..Len(text)
  BY <1>2, TextFacts
<1>6. \A k \in i..(End + 1) : k \in i..Len(text)
  BY <1>2, TextFacts
<1>7. ASSUME NEW a \in i..(End + 1)
      PROVE  text[a] \notin InText'
  <2>1. a \in i..Len(text) /\ a \in 1..Len(text)
    BY <1>2, <1>6, TextFacts
  <2>2. text[a] \in Nat /\ \A k \in DOMAIN builder : builder[k] \in Nat
    BY <2>1, TextFacts
  <2>3. \A k \in DOMAIN builder : builder[k] # text[a]
    BY <2>1, <2>2 DEF OrderInv
  <2>4. ASSUME NEW k \in (End + 2)..Len(text)
        PROVE  text[k] # text[a]
    <3>1. k \in 1..Len(text) /\ a < k /\ DOMAIN text = 1..Len(text)
      BY <1>2, TextFacts
    <3>2. text[a] < text[k]
      BY <2>1, <3>1 DEF OrderInv, Ascending
    <3>3. QED
      BY <2>2, <3>2
  <2>5. QED
    BY <1>3, <2>3, <2>4
<1>8. QED
  BY <1>3, <1>4, <1>5, <1>6, <1>7 DEF InText

\* And it puts them into the notes of its system, but for blanks and the tags.
LEMMA NoteEntersNotes ==
    ASSUME TypeOK, TakeNote
    PROVE  /\ \A s \in Systems : s # system => results'[s] = results[s]
           /\ Len(results'[system]) = Len(results[system]) + 1
           /\ DOMAIN results'[system] = 1..(Len(results[system]) + 1)
           /\ \A n \in 1..Len(results[system]) :
                 results'[system][n] = results[system][n]
           /\ results'[system][Len(results[system]) + 1] = Note
           /\ \A s \in Systems : s # system => InNotes(s)' = InNotes(s)
           /\ InNotes(system) \subseteq (InNotes(system))'
           /\ \A k \in 1..Len(Note) : Note[k] \in (InNotes(system))'
           /\ \A p \in (InNotes(system))' : p \in InNotes(system)
                                            \/ \E k \in 1..Len(Note) : p = Note[k]
<1>1. results' = [results EXCEPT ![system] = Append(@, Note)] /\ system' = system
  BY Zenon DEF TakeNote, Note, End
<1>2. /\ results \in [Systems -> Seq(Seq(Positions))] /\ system \in Systems
      /\ Note \in Seq(Positions)
  BY NoteFacts DEF TypeOK, TakeNote
<1>3. /\ \A s \in Systems : s # system => results'[s] = results[s]
      /\ results'[system] = Append(results[system], Note)
  BY <1>1, <1>2
<1>4. results[system] \in Seq(Seq(Positions)) /\ Len(results[system]) \in Nat
        /\ DOMAIN results[system] = 1..Len(results[system])
  BY <1>2, ResultFacts
<1>5. /\ Len(results'[system]) = Len(results[system]) + 1
      /\ DOMAIN results'[system] = 1..(Len(results[system]) + 1)
      /\ \A n \in 1..Len(results[system]) : results'[system][n] = results[system][n]
      /\ results'[system][Len(results[system]) + 1] = Note
  <2>1. results'[system] \in Seq(Seq(Positions))
    BY <1>2, <1>3, <1>4, AppendProperties
  <2>2. QED
    BY <1>2, <1>3, <1>4, <2>1, AppendProperties, LenProperties
<1>6. \A s \in Systems : s # system => InNotes(s)' = InNotes(s)
  BY <1>3 DEF InNotes
<1> DEFINE size == Len(results[system])
<1>7. DOMAIN Note = 1..Len(Note)
  BY <1>2, LenProperties
<1>8. (InNotes(system))' =
         UNION {{results'[system][n][k] : k \in DOMAIN results'[system][n]}
                : n \in 1..(size + 1)}
  BY <1>1, <1>5 DEF InNotes
<1>9. /\ size + 1 \in 1..(size + 1)
      /\ \A n \in 1..size : n \in 1..(size + 1)
      /\ \A n \in 1..(size + 1) : n \in 1..size \/ n = size + 1
  BY <1>4
<1>10. InNotes(system) = UNION {{results[system][n][k] : k \in DOMAIN results[system][n]}
                                : n \in 1..size}
  BY <1>4 DEF InNotes
<1>11. InNotes(system) \subseteq (InNotes(system))'
  <2> SUFFICES ASSUME NEW p \in InNotes(system)
               PROVE  p \in (InNotes(system))'
    OBVIOUS
  <2>1. PICK n \in 1..size : \E k \in DOMAIN results[system][n] :
                                 p = results[system][n][k]
    BY <1>10
  <2> DEFINE part == {results'[system][n][k] : k \in DOMAIN results'[system][n]}
  <2>a. n \in 1..(size + 1)
    BY <1>9
  <2>2. results'[system][n] = results[system][n]
    BY <1>5
  <2>3. p \in part
    BY <2>1, <2>2
  <2>4. part \subseteq (InNotes(system))'
    BY <1>8, <2>a, Zenon
  <2>5. QED
    BY <2>3, <2>4
<1>12. \A k \in 1..Len(Note) : Note[k] \in (InNotes(system))'
  <2> DEFINE part == {results'[system][size + 1][k] : k \in DOMAIN results'[system][size + 1]}
  <2>1. \A k \in 1..Len(Note) : Note[k] \in part
    BY <1>5, <1>7
  <2>2. size + 1 \in 1..(size + 1)
    BY <1>9
  <2>3. part \subseteq (InNotes(system))'
    BY <1>8, <2>2, Zenon
  <2>4. QED
    BY <2>1, <2>3
<1>13. ASSUME NEW p \in (InNotes(system))'
       PROVE  p \in InNotes(system) \/ \E k \in 1..Len(Note) : p = Note[k]
  <2>1. PICK n \in 1..(size + 1) : \E k \in DOMAIN results'[system][n] :
                                       p = results'[system][n][k]
    BY <1>8
  <2>2. CASE n \in 1..size
    <3>1. results'[system][n] = results[system][n]
      BY <1>5, <2>2
    <3>2. QED
      BY <1>10, <2>1, <2>2, <3>1
  <2>3. CASE n = size + 1
    BY <1>5, <1>7, <2>1, <2>3
  <2>4. QED
    BY <1>9, <2>2, <2>3
<1>14. QED
  BY <1>3, <1>5, <1>6, <1>11, <1>12, <1>13

\* So nothing but the tags, and blanks at the note's ends, is nowhere after it that was
\* somewhere before.
LEMMA NoteTakesTags ==
    ASSUME TypeOK, OrderInv, ApartInv, TakeNote
    PROVE  /\ \A s \in Systems : InNotes(s)' \cap InText' = {}
           /\ \A s, t \in Systems : s # t => InNotes(s)' \cap InNotes(t)' = {}
           /\ \A p \in Positions :
                 ~IsBlank(p) => (Nowhere(p)' <=> Nowhere(p) \/ p \in Taken)
           /\ \A p \in Taken : ~Nowhere(p) /\ rawText[p] = TagChars[system]
<1>1. /\ End \in (i + 2)..(Len(text) - 1) /\ End \in Int /\ i \in Int
      /\ \A a \in {i, i + 1, End, End + 1} : rawText[text[a]] = TagChars[system]
      /\ \A a \in (i + 2)..(End - 1) :
            ~IsBlank(text[a]) => \E k \in 1..Len(Note) : Note[k] = text[a]
  BY NoteFacts, TextFacts DEF TakeNote
<1>2. ASSUME NEW k \in 1..Len(Note)
      PROVE  \E a \in (i + 2)..(End - 1) : Note[k] = text[a]
  <2>1. PICK d \in (i + 1)..(End - 1) :
               /\ d + Len(Note) <= End - 1
               /\ \A l \in 1..Len(Note) : Note[l] = text[d + l]
    BY NoteFacts DEF TakeNote
  <2>2. Len(Note) \in Nat
    BY NoteFacts, LenProperties DEF TakeNote
  <2>3. d + k \in (i + 2)..(End - 1)
    BY <1>1, <2>1, <2>2
  <2>4. QED
    BY <2>1, <2>3
<1>3. \A a \in (i + 2)..(End - 1) : a \in i..(End + 1)
  BY <1>1
<1>4. /\ InText' \subseteq InText
      /\ \A a \in i..(End + 1) : text[a] \in InText /\ text[a] \notin InText'
      /\ \A p \in InText : p \notin InText' => \E a \in i..(End + 1) : p = text[a]
  BY NoteLeavesText
<1>5. /\ \A s \in Systems : s # system => InNotes(s)' = InNotes(s)
      /\ InNotes(system) \subseteq (InNotes(system))'
      /\ \A k \in 1..Len(Note) : Note[k] \in (InNotes(system))'
      /\ \A p \in (InNotes(system))' : p \in InNotes(system)
                                       \/ \E k \in 1..Len(Note) : p = Note[k]
  BY NoteEntersNotes
<1>6. system' = system /\ system \in Systems
  BY TextFacts DEF TakeNote
<1>7. \A p \in (InNotes(system))' :
         p \in InNotes(system) \/ \E a \in (i + 2)..(End - 1) : p = text[a]
  BY <1>2, <1>5
<1>8. \A p \in (InNotes(system))' : p \in InNotes(system) \/ (p \in InText /\ p \notin InText')
  BY <1>3, <1>4, <1>7
<1>a. /\ \A s \in Systems : InNotes(s) \cap InText = {}
      /\ \A s, t \in Systems : s # t => InNotes(s) \cap InNotes(t) = {}
  BY DEF ApartInv
<1> DEFINE After == [s \in Systems |-> InNotes(s)']
           Before == [s \in Systems |-> InNotes(s)]
<1>b. /\ \A s \in Systems : s # system => After[s] = Before[s]
      /\ \A p \in After[system] : p \in Before[system] \/ (p \in InText /\ p \notin InText')
      /\ \A s \in Systems : Before[s] \cap InText = {}
      /\ \A s, t \in Systems : s # t => Before[s] \cap Before[t] = {}
      /\ Before[system] \subseteq After[system]
  BY <1>5, <1>6, <1>8, <1>a, Zenon
<1>9. \A s \in Systems : After[s] \cap InText' = {}
  <2> HIDE DEF After, Before
  <2> QED BY <1>4, <1>6, <1>b
<1>10. \A s, t \in Systems : s # t => After[s] \cap After[t] = {}
  <2> HIDE DEF After, Before
  <2> QED BY <1>6, <1>b
<1>11. \A p \in Taken : ~Nowhere(p) /\ rawText[p] = TagChars[system]
  <2>1. \A a \in {i, i + 1, End, End + 1} : a \in i..(End + 1)
    BY <1>1
  <2>2. QED
    BY <1>1, <1>4, <2>1 DEF Taken, Nowhere
<1>12. ASSUME NEW p \in Positions, ~IsBlank(p)
       PROVE  (p \notin InText' /\ \A s \in Systems : p \notin After[s])
                 <=> (p \notin InText /\ \A s \in Systems : p \notin Before[s]) \/ p \in Taken
  <2>1. ASSUME p \notin InText' /\ \A s \in Systems : p \notin After[s], p \in InText
        PROVE  p \in Taken
    <3>1. PICK a \in i..(End + 1) : p = text[a]
      BY <1>4, <2>1
    <3>2. a \notin (i + 2)..(End - 1)
      <4>1. p \notin (InNotes(system))'
        BY <1>6, <2>1
      <4>2. QED
        BY <1>1, <1>5, <1>12, <3>1, <4>1
    <3>3. a \in {i, i + 1, End, End + 1}
      BY <1>1, <3>2
    <3>4. QED
      BY <3>1, <3>3 DEF Taken
  <2>2. ASSUME \A s \in Systems : p \notin After[s]
        PROVE  \A s \in Systems : p \notin Before[s]
    <3> HIDE DEF After, Before
    <3> QED BY <1>b, <2>2
  <2>3. ASSUME p \notin InText, \A s \in Systems : p \notin Before[s]
        PROVE  p \notin InText' /\ \A s \in Systems : p \notin After[s]
    <3> HIDE DEF After, Before
    <3> QED BY <1>4, <1>b, <2>3
  <2>4. ASSUME p \in Taken
        PROVE  p \notin InText' /\ \A s \in Systems : p \notin After[s]
    <3>1. PICK a \in {i, i + 1, End, End + 1} : p = text[a]
      BY <2>4 DEF Taken
    <3>2. a \in i..(End + 1) /\ a \notin (i + 2)..(End - 1) /\ a \in 1..Len(text)
      BY <1>1, TextFacts
    <3>3. p \in InText /\ p \notin InText'
      BY <1>4, <3>1, <3>2
    <3>4. \A c \in (i + 2)..(End - 1) : text[c] # text[a]
      <4> TAKE c \in (i + 2)..(End - 1)
      <4>a. c # a
        BY <3>2
      <4>b. i >= 1 /\ Len(text) \in Int
        BY TextFacts
      <4>1. c \in 1..Len(text) /\ c # a
        BY <1>1, <4>a, <4>b
      <4>2. Positions \in SUBSET Nat /\ text \in Seq(Positions) /\ Ascending(text)
        BY TextFacts DEF TypeOK, OrderInv
      <4>3. QED
        BY <3>2, <4>1, <4>2, AscendingFacts
    <3>5. p \notin Before[system]
      BY <1>6, <1>a, <3>3
    <3>6. p \notin (InNotes(system))'
      BY <1>6, <1>7, <3>1, <3>4, <3>5
    <3>7. \A s \in Systems : p \notin Before[s]
      BY <1>a, <3>3
    <3>8. p \notin After[system]
      BY <1>6, <3>6
    <3> HIDE DEF After, Before
    <3>9. QED
      BY <1>b, <3>3, <3>7, <3>8
  <2> HIDE DEF After, Before
  <2>5. QED
    BY <2>1, <2>2, <2>3, <2>4
<1>13. \A p : Nowhere(p) <=> p \notin InText /\ \A s \in Systems : p \notin Before[s]
  BY Zenon DEF Nowhere
<1>14. \A p : Nowhere(p)' <=> p \notin InText' /\ \A s \in Systems : p \notin After[s]
  BY Zenon DEF Nowhere
<1>15. \A p \in Positions : ~IsBlank(p) => (Nowhere(p)' <=> Nowhere(p) \/ p \in Taken)
  <2> HIDE DEF After, Before
  <2> QED BY <1>12, <1>13, <1>14, Zenon
<1>16. QED
  <2>1. \A s \in Systems : InNotes(s)' \cap InText' = {}
    BY <1>9, Zenon
  <2>2. \A s, t \in Systems : s # t => InNotes(s)' \cap InNotes(t)' = {}
    BY <1>10, Zenon
  <2>3. QED
    BY <1>11, <1>15, <2>1, <2>2, Zenon

------------------------------------------------------------------------------
\* The steps keep the inductive invariant, part by part.

\* The notes of a system are told by its results.
LEMMA NotesOfSystem ==
    ASSUME TypeOK, NEW s \in Systems,
           NEW n \in 1..Len(results[s]), NEW k \in 1..Len(results[s][n])
    PROVE  results[s][n][k] \in InNotes(s)
BY ResultFacts DEF InNotes

\* A note is in reading order, and behind the notes its system has already.
LEMMA NoteKeepsOrder ==
    ASSUME TypeOK, OrderInv, \A s \in Systems : NotesInOrder(s), TakeNote
    PROVE  OrderInv' /\ (\A s \in Systems : NotesInOrder(s))'
<1>1. /\ i' = End + 2
      /\ UNCHANGED <<rawText, system, text, builder, mainText, pc>>
  BY Zenon DEF TakeNote, End
<1>2. /\ End \in (i + 2)..(Len(text) - 1) /\ End \in Int /\ i \in Nat \ {0}
      /\ Len(text) \in Nat /\ DOMAIN text = 1..Len(text) /\ system \in Systems
      /\ Note \in Seq(Positions)
  BY NoteFacts, TextFacts DEF TakeNote
<1>3. PICK d \in (i + 1)..(End - 1) :
               /\ d + Len(Note) <= End - 1
               /\ \A l \in 1..Len(Note) : Note[l] = text[d + l]
  BY NoteFacts DEF TakeNote
<1>4. Len(Note) \in Nat /\ DOMAIN Note = 1..Len(Note)
  BY <1>2, LenProperties
<1>5. \A k \in 1..Len(Note) : d + k \in i..(End - 1) /\ d + k \in DOMAIN text
  BY <1>2, <1>3, <1>4
<1>6. Ascending(text) /\ Ascending(builder)
        /\ \A a \in i..Len(text) : /\ \A k \in DOMAIN builder : builder[k] < text[a]
                                   /\ \A p \in InNotes(system) : p < text[a]
  BY DEF OrderInv
<1>7. Ascending(Note)
  <2>1. \A j, k \in 1..Len(Note) : j < k => d + j < d + k
    BY <1>3, <1>4
  <2>2. \A j, k \in DOMAIN text : j < k => text[j] < text[k]
    BY <1>6 DEF Ascending
  <2>3. QED
    BY <1>3, <1>4, <1>5, <2>1, <2>2 DEF Ascending
<1>8. OrderInv'
  <2>1. ASSUME NEW a \in i'..Len(text')
        PROVE  /\ \A k \in DOMAIN builder' : builder'[k] < text'[a]
               /\ \A p \in (InNotes(system))' : p < text'[a]
    <3>1. a \in i..Len(text) /\ a \in DOMAIN text /\ a > End + 1
      BY <1>1, <1>2, <2>1
    <3>2. \A k \in 1..Len(Note) : Note[k] < text[a]
      <4> TAKE k \in 1..Len(Note)
      <4>1. d + k < a
        BY <1>2, <1>5, <3>1
      <4>2. QED
        BY <1>3, <1>5, <1>6, <3>1, <4>1 DEF Ascending
    <3>3. \A p \in (InNotes(system))' : p < text[a]
      <4>1. \A p \in (InNotes(system))' : p \in InNotes(system)
                                          \/ \E k \in 1..Len(Note) : p = Note[k]
        BY NoteEntersNotes
      <4>2. QED
        BY <1>6, <3>1, <3>2, <4>1
    <3>4. QED
      BY <1>1, <1>6, <3>1, <3>3
  <2>2. Ascending(text)' /\ Ascending(builder)'
    BY <1>1, <1>6 DEF Ascending
  <2>3. QED
    BY <1>1, <2>1, <2>2, Zenon DEF OrderInv
<1> DEFINE size == Len(results[system])
<1>9. /\ \A s \in Systems : s # system => results'[s] = results[s]
      /\ DOMAIN results'[system] = 1..(size + 1)
      /\ \A n \in 1..size : results'[system][n] = results[system][n]
      /\ results'[system][size + 1] = Note
  BY NoteEntersNotes
<1>10. size \in Nat /\ DOMAIN results[system] = 1..size
         /\ \A n \in 1..size : DOMAIN results[system][n] = 1..Len(results[system][n])
  BY <1>2, ResultFacts
<1>11. ASSUME NEW s \in Systems, s # system
       PROVE  NotesInOrder(s)'
  BY <1>9, <1>11, NotesInOrder(s) DEF NotesInOrder, Ascending
<1>12. /\ \A n \in 1..size : Ascending(results[system][n])
       /\ \A n, m \in 1..size : n < m =>
             \A j \in DOMAIN results[system][n], k \in DOMAIN results[system][m] :
                results[system][n][j] < results[system][m][k]
  BY <1>2, <1>10 DEF NotesInOrder
<1>13. \A n \in 1..(size + 1) : n \in 1..size \/ n = size + 1
  BY <1>10
<1>14. ASSUME NEW n \in 1..(size + 1)
       PROVE  Ascending(results'[system][n])
  BY <1>7, <1>9, <1>12, <1>13
<1>15. ASSUME NEW n \in 1..(size + 1), NEW m \in 1..(size + 1), n < m,
              NEW j \in DOMAIN results'[system][n], NEW k \in DOMAIN results'[system][m]
       PROVE  results'[system][n][j] < results'[system][m][k]
  <2>1. n \in 1..size
    BY <1>10, <1>15
  <2>2. CASE m \in 1..size
    BY <1>9, <1>12, <1>15, <2>1, <2>2
  <2>3. CASE m = size + 1
    <3>0. j \in 1..Len(results[system][n])
      BY <1>9, <1>10, <2>1
    <3>1. results[system][n][j] \in InNotes(system)
      BY <1>2, <2>1, <3>0, NotesOfSystem, Zenon
    <3>a. k \in 1..Len(Note)
      BY <1>4, <1>9, <2>3
    <3>2. k \in 1..Len(Note) /\ d + k \in i..Len(text)
      BY <1>2, <1>5, <3>a
    <3>3. results[system][n][j] < text[d + k]
      BY <1>6, <3>1, <3>2
    <3>4. QED
      BY <1>3, <1>9, <2>1, <2>3, <3>2, <3>3
  <2>4. QED
    BY <1>13, <2>2, <2>3
<1>16. ASSUME NEW s \in Systems, s = system
       PROVE  NotesInOrder(s)'
  <2>1. \A n \in DOMAIN results'[s] : Ascending(results'[s][n])
    BY <1>9, <1>14, <1>16
  <2>2. \A n, m \in DOMAIN results'[s] :
           n < m => \A j \in DOMAIN results'[s][n], k \in DOMAIN results'[s][m] :
                       results'[s][n][j] < results'[s][m][k]
    BY <1>9, <1>15, <1>16
  <2>3. QED
    BY <2>1, <2>2, Zenon DEF NotesInOrder
<1>17. QED
  <2>1. ASSUME NEW s \in Systems PROVE NotesInOrder(s)'
    BY <1>11, <1>16, Zenon
  <2>2. QED
    BY <1>8, <2>1, Zenon

\* The two tags of a note stand in the text, apart from each other.
LEMMA TagIndices ==
    ASSUME TypeOK, TakeNote
    PROVE  /\ \A a \in {i, i + 1, End, End + 1} : a \in 1..Len(text)
           /\ i < i + 1 /\ i + 1 < End /\ End < End + 1 /\ i \in Int /\ End \in Int
<1>1. i \in Nat \ {0} /\ Len(text) \in Nat
  BY TextFacts
<1>2. End \in (i + 2)..(Len(text) - 1)
  BY NoteFacts DEF TakeNote
<1>3. QED
  BY <1>1, <1>2

\* A note puts four tag characters of its system nowhere, and none of another's.
LEMMA NoteKeepsTags ==
    ASSUME TypeOK, OrderInv, ApartInv, TagsInv, TakeNote
    PROVE  ApartInv' /\ TagsInv'
<1>1. /\ \A s \in Systems : InNotes(s)' \cap InText' = {}
      /\ \A s, t \in Systems : s # t => InNotes(s)' \cap InNotes(t)' = {}
      /\ \A p \in Positions : ~IsBlank(p) => (Nowhere(p)' <=> Nowhere(p) \/ p \in Taken)
      /\ \A p \in Taken : ~Nowhere(p) /\ rawText[p] = TagChars[system]
  BY NoteTakesTags, Zenon
<1>2. rawText' = rawText /\ system' = system /\ system \in Systems
  BY TextFacts DEF TakeNote
<1>3. Positions' = Positions
  BY <1>2 DEF Positions
<1>4. \A p \in Positions : rawText[p] = Letter => ~Nowhere(p)'
  <2> TAKE p \in Positions
  <2> HAVE rawText[p] = Letter
  <2>1. ~IsBlank(p) /\ TagChars[system] # Letter
    BY <1>2, SystemFacts DEF IsBlank
  <2>2. ~Nowhere(p)
    BY DEF ApartInv
  <2>3. p \notin Taken
    BY <1>1, <2>1
  <2>4. QED
    BY <1>1, <2>1, <2>2, <2>3, Zenon
<1>5. ApartInv'
  <2>1. \A p \in Positions' : rawText'[p] = Letter => ~Nowhere(p)'
    BY <1>2, <1>3, <1>4, Zenon
  <2>2. QED
    BY <1>1, <2>1, Zenon DEF ApartInv
<1> DEFINE after == [s \in Systems |-> Gone(s)']
           before == [s \in Systems |-> Gone(s)]
<1>6. \A s \in Systems : \A p : p \in after[s] <=>
         p \in Positions /\ rawText[p] = TagChars[s] /\ Nowhere(p)'
  <2>1. \A s \in Systems : after[s] = {p \in Positions : rawText[p] = TagChars[s] /\ Nowhere(p)'}
    BY <1>2, <1>3, Zenon DEF Gone
  <2> HIDE DEF after
  <2>2. QED
    BY <2>1, Zenon
<1>7. \A s \in Systems : \A p : p \in before[s] <=>
         p \in Positions /\ rawText[p] = TagChars[s] /\ Nowhere(p)
  BY Zenon DEF Gone
<1>8. \A s \in Systems : \A p \in Positions : rawText[p] = TagChars[s] => ~IsBlank(p)
  BY SystemFacts DEF IsBlank
<1>9. Taken \subseteq Positions
  <2>1. \A a \in {i, i + 1, End, End + 1} : a \in 1..Len(text)
    BY TagIndices
  <2>2. QED
    BY <2>1, TextFacts DEF Taken
<1>10. \A s \in Systems : s # system => after[s] = before[s]
  <2> TAKE s \in Systems
  <2> HAVE s # system
  <2>1. TagChars[s] # TagChars[system]
    BY <1>2, ClassesAssumption DEF Systems
  <2>2. \A p \in Positions : rawText[p] = TagChars[s] => (Nowhere(p)' <=> Nowhere(p))
    BY <1>1, <1>8, <2>1, Zenon
  <2> HIDE DEF after, before
  <2>3. \A p : p \in after[s] <=> p \in before[s]
    BY <1>6, <1>7, <2>2, Zenon
  <2>4. QED
    BY <2>3
<1>11. after[system] = before[system] \cup Taken /\ before[system] \cap Taken = {}
  <2> HIDE DEF after, before
  <2>1. \A p : p \in after[system] <=> p \in before[system] \/ p \in Taken
    BY <1>1, <1>2, <1>6, <1>7, <1>8, <1>9, Zenon
  <2>2. \A p \in Taken : p \notin before[system]
    BY <1>1, <1>2, <1>7, Zenon
  <2>3. QED
    BY <2>1, <2>2
<1>12. IsFiniteSet(before[system]) /\ Cardinality(before[system]) = 4 * Len(results[system])
  <2>1. IsFiniteSet(Positions)
    BY FS_Interval, TextFacts DEF Positions
  <2>2. before[system] \in SUBSET Positions
    <3> HIDE DEF before
    <3> QED BY <1>2, <1>7
  <2>3. QED
    BY <1>2, <2>1, <2>2, FS_Subset DEF TagsInv
<1>13. /\ text[i] # text[i + 1] /\ text[i] # text[End] /\ text[i] # text[End + 1]
       /\ text[i + 1] # text[End] /\ text[i + 1] # text[End + 1]
       /\ text[End] # text[End + 1]
  <2>1. \A a \in {i, i + 1, End, End + 1} : a \in 1..Len(text)
    BY TagIndices
  <2>2. i < i + 1 /\ i + 1 < End /\ End < End + 1 /\ i \in Int /\ End \in Int
    BY TagIndices
  <2>3. Positions \in SUBSET Nat /\ text \in Seq(Positions) /\ Ascending(text)
    BY TextFacts DEF TypeOK, OrderInv
  <2>4. \A a, b \in 1..Len(text) : text[a] = text[b] => a = b
    BY <2>3, AscendingFacts
  <2>5. i # i + 1 /\ i # End /\ i # End + 1 /\ i + 1 # End /\ i + 1 # End + 1 /\ End # End + 1
    BY <2>2
  <2>6. QED
    BY <2>1, <2>4, <2>5
<1>14. Cardinality(after[system]) = Cardinality(before[system]) + 4
  <2> HIDE DEF after, before
  <2> DEFINE S0 == before[system]
             S1 == S0 \cup {text[i]}
             S2 == S1 \cup {text[i + 1]}
             S3 == S2 \cup {text[End]}
             S4 == S3 \cup {text[End + 1]}
  <2>1. /\ text[i] \notin S0 /\ text[i + 1] \notin S1
        /\ text[End] \notin S2 /\ text[End + 1] \notin S3 /\ after[system] = S4
    BY <1>11, <1>13 DEF Taken
  <2>2. IsFiniteSet(S0) /\ Cardinality(S0) \in Nat
    BY <1>12, FS_CardinalityType
  <2> HIDE DEF S0
  <2>3. IsFiniteSet(S1) /\ Cardinality(S1) = Cardinality(S0) + 1
    BY <2>1, <2>2, FS_AddElement
  <2> HIDE DEF S1
  <2>4. IsFiniteSet(S2) /\ Cardinality(S2) = Cardinality(S1) + 1
    BY <2>1, <2>3, FS_AddElement
  <2> HIDE DEF S2
  <2>5. IsFiniteSet(S3) /\ Cardinality(S3) = Cardinality(S2) + 1
    BY <2>1, <2>4, FS_AddElement
  <2> HIDE DEF S3
  <2>6. IsFiniteSet(S4) /\ Cardinality(S4) = Cardinality(S3) + 1
    BY <2>1, <2>5, FS_AddElement
  <2> HIDE DEF S4
  <2>7. Cardinality(after[system]) = Cardinality(S0) + 4
    BY <2>1, <2>2, <2>3, <2>4, <2>5, <2>6
  <2>8. QED
    BY <2>7 DEF S0
<1>15. \A s \in Systems : Cardinality(after[s]) = 4 * Len(results'[s])
  <2>1. /\ \A s \in Systems : s # system => results'[s] = results[s]
        /\ Len(results'[system]) = Len(results[system]) + 1
    BY NoteEntersNotes
  <2>2. \A s \in Systems : Cardinality(before[s]) = 4 * Len(results[s])
    BY DEF TagsInv
  <2>3. Len(results[system]) \in Nat
    BY <1>2, ResultFacts
  <2> HIDE DEF after, before
  <2>4. QED
    BY <1>2, <1>10, <1>12, <1>14, <2>1, <2>2, <2>3
<1>16. TagsInv'
  BY <1>15, Zenon DEF TagsInv
<1>17. QED
  BY <1>5, <1>16

\* What is copied after a note, or before it, did not open one.
LEMMA NoteKeepsCopied ==
    ASSUME TypeOK, CopiedInv, TakeNote
    PROVE  CopiedInv'
<1>1. i' = End + 2 /\ UNCHANGED <<rawText, system, text, builder, mainText, pc>>
  BY Zenon DEF TakeNote, End
<1>2. i \in Int /\ End \in Int /\ i + 1 < End /\ i' - 1 = End + 1 /\ i' - 2 = End
  BY <1>1, TagIndices
<1>3. \A a \in 1..(i - 1) : a \in 1..(End + 1) /\ a + 1 < End + 2
  BY <1>2
<1>4. \A a \in 1..(i - 2) : a \in 1..End
  BY <1>2
<1>5. \A a : NoteOpensAt(text, system, a)' <=> NoteOpensAt(text, system, a)
  BY <1>1 DEF NoteOpensAt, ClosingTags, IsTagAt
<1>6. \A k \in DOMAIN builder :
          \E a \in 1..(i' - 1) : text[a] = builder[k] /\ ~NoteOpensAt(text, system, a)
  BY <1>2, <1>3, Zenon DEF CopiedInv
<1>7. builder # <<>> =>
          \E a \in 1..(i' - 1) :
             /\ text[a] = builder[Len(builder)]
             /\ a = i' - 1 \/ (a + 1 < i' /\ NoteOpensAt(text, system, a + 1))
  <2> HAVE builder # <<>>
  <2>1. PICK a \in 1..(i - 1) :
             /\ text[a] = builder[Len(builder)]
             /\ a = i - 1 \/ (a + 1 < i /\ NoteOpensAt(text, system, a + 1))
    BY Zenon DEF CopiedInv
  <2>2. a = i - 1 => a + 1 = i
    BY <1>2
  <2>3. NoteOpensAt(text, system, a + 1)
    BY <2>1, <2>2, Zenon DEF TakeNote
  <2>4. QED
    BY <1>1, <1>2, <1>3, <2>1, <2>3, Zenon
<1>8. \A k \in 1..(Len(builder) - 1) :
          rawText[builder[k]] = TagChars[system]
            /\ rawText[builder[k + 1]] = TagChars[system] =>
               \E a \in 1..(i' - 2) :
                  text[a] = builder[k] /\ text[a + 1] = builder[k + 1]
  BY <1>2, <1>4, Zenon DEF CopiedInv
<1>9. QED
  BY <1>1, <1>5, <1>6, <1>7, <1>8, Zenon DEF CopiedInv

\* A tag character in front of a note opens a note too: so what is copied in front of
\* a note is no tag character.
LEMMA NoTagBeforeNote ==
    ASSUME TypeOK, NEW a \in Nat, NoteOpensAt(text, system, a + 1),
           rawText[text[a]] = TagChars[system]
    PROVE  NoteOpensAt(text, system, a)
<1>1. PICK e \in (a + 1 + 2)..Len(text) : IsTagAt(text, system, e)
  BY DEF NoteOpensAt, ClosingTags
<1>2. a + 1 + 1 <= Len(text) /\ rawText[text[a + 1]] = TagChars[system]
  BY DEF NoteOpensAt, IsTagAt
<1>3. Len(text) \in Nat
  BY TextFacts
<1>4. a + 1 <= Len(text) /\ e \in (a + 2)..Len(text)
  BY <1>1, <1>2, <1>3
<1>5. e \in ClosingTags(text, system, a)
  BY <1>1, <1>4 DEF ClosingTags
<1>6. IsTagAt(text, system, a)
  BY <1>2, <1>4 DEF IsTagAt
<1>7. QED
  BY <1>5, <1>6 DEF NoteOpensAt

\* A character is copied where no note opens; if it is the second of two tag
\* characters, the first one was copied just before, not on the other side of a note.
LEMMA CopyKeepsCopied ==
    ASSUME TypeOK, OrderInv, CopiedInv, CopyCharacter
    PROVE  CopiedInv'
<1>1. /\ builder' = Append(builder, text[i])
      /\ i' = i + 1 /\ i <= Len(text) /\ ~NoteOpensAt(text, system, i)
      /\ UNCHANGED <<rawText, system, text>>
  BY DEF CopyCharacter
<1> DEFINE size == Len(builder)
<1>2. /\ Len(builder') = size + 1 /\ DOMAIN builder' = 1..(size + 1)
      /\ \A k \in 1..size : builder'[k] = builder[k]
      /\ builder'[size + 1] = text[i]
      /\ builder' # <<>>
  <2>1. builder \in Seq(Positions) /\ text[i] \in Positions
    BY <1>1, TextFacts DEF TypeOK
  <2>2. builder' \in Seq(Positions)
    BY <1>1, <2>1, AppendProperties
  <2>3. QED
    BY <1>1, <2>1, <2>2, AppendProperties, LenProperties
<1>3. size \in Nat /\ i \in Nat \ {0} /\ DOMAIN builder = 1..size
  BY TextFacts
<1>4. \A a : NoteOpensAt(text, system, a)' <=> NoteOpensAt(text, system, a)
  BY <1>1 DEF NoteOpensAt, ClosingTags, IsTagAt
<1>5. i' - 1 = i /\ i' - 2 = i - 1 /\ i \in 1..i
  BY <1>1, <1>3
<1>6. \A a \in 1..(i - 1) : a \in 1..i
  BY <1>3
<1>7. \A k \in 1..size : \E a \in 1..(i - 1) : text[a] = builder[k]
                                              /\ ~NoteOpensAt(text, system, a)
  BY <1>3, Zenon DEF CopiedInv
<1>8. \A k \in 1..(size + 1) : k \in 1..size \/ k = size + 1
  BY <1>3
<1>9. ASSUME NEW k \in 1..(size + 1)
      PROVE  \E a \in 1..i : text[a] = builder'[k] /\ ~NoteOpensAt(text, system, a)
  <2>1. CASE k \in 1..size
    <3>1. builder'[k] = builder[k]
      BY <1>2, <2>1
    <3>2. QED
      BY <1>6, <1>7, <2>1, <3>1, Zenon
  <2>2. CASE k = size + 1
    BY <1>1, <1>2, <1>5, <2>2, Zenon
  <2>3. QED
    BY <1>8, <2>1, <2>2
<1>10. ASSUME NEW k \in 1..size, rawText[builder'[k]] = TagChars[system],
              rawText[builder'[k + 1]] = TagChars[system]
       PROVE  \E a \in 1..(i - 1) : text[a] = builder'[k] /\ text[a + 1] = builder'[k + 1]
  <2>1. CASE k # size
    <3> HIDE DEF size
    <3>a. k \in Int /\ 1 <= k /\ k < size /\ size \in Int
      BY <1>3, <2>1
    <3>1. k \in 1..(size - 1) /\ k + 1 \in 1..size
      BY <3>a
    <3> USE DEF size
    <3>2. builder'[k] = builder[k] /\ builder'[k + 1] = builder[k + 1]
      BY <1>2, <3>1
    <3>3. \E a \in 1..(i - 2) : text[a] = builder[k] /\ text[a + 1] = builder[k + 1]
      BY <1>10, <3>1, <3>2 DEF CopiedInv
    <3>4. \A a \in 1..(i - 2) : a \in 1..(i - 1)
      BY <1>3
    <3>5. QED
      BY <3>2, <3>3, <3>4
  <2>2. CASE k = size
    <3>1. builder # <<>> /\ builder'[k] = builder[size] /\ builder'[k + 1] = text[i]
      <4>1. 1 \in DOMAIN builder
        BY <1>3, <2>2
      <4>2. QED
        BY <1>2, <2>2, <4>1
    <3>2. PICK a \in 1..(i - 1) :
             /\ text[a] = builder[size]
             /\ a = i - 1 \/ (a + 1 < i /\ NoteOpensAt(text, system, a + 1))
      BY <3>1, Zenon DEF CopiedInv
    <3>3. ~NoteOpensAt(text, system, a)
      <4>1. PICK b \in 1..(i - 1) : text[b] = builder[size] /\ ~NoteOpensAt(text, system, b)
        BY <1>7, <2>2
      <4>2. a \in 1..Len(text) /\ b \in 1..Len(text)
        BY <1>1, <1>3, TextFacts
      <4>3. Positions \in SUBSET Nat /\ text \in Seq(Positions) /\ Ascending(text)
        BY TextFacts DEF TypeOK, OrderInv
      <4>4. text[a] = text[b]
        BY <3>2, <4>1
      <4>5. a = b
        BY <4>2, <4>3, <4>4, AscendingFacts
      <4>6. QED
        BY <4>1, <4>5
    <3>4. a = i - 1
      <4>1. rawText[text[a]] = TagChars[system] /\ a \in Nat
        BY <1>10, <3>1, <3>2
      <4>2. QED
        BY <3>2, <3>3, <4>1, NoTagBeforeNote
    <3>5. a + 1 = i
      BY <1>3, <3>4
    <3>6. QED
      BY <3>1, <3>2, <3>5
  <2>3. QED
    BY <2>1, <2>2
<1>11. size + 1 - 1 = size
  BY <1>3
<1>12. /\ \A k \in DOMAIN builder' :
             \E a \in 1..(i' - 1) : text[a] = builder'[k] /\ ~NoteOpensAt(text, system, a)
       /\ \E a \in 1..(i' - 1) : text[a] = builder'[Len(builder')] /\ a = i' - 1
       /\ \A k \in 1..(Len(builder') - 1) :
             rawText[builder'[k]] = TagChars[system]
               /\ rawText[builder'[k + 1]] = TagChars[system] =>
                  \E a \in 1..(i' - 2) :
                     text[a] = builder'[k] /\ text[a + 1] = builder'[k + 1]
  BY <1>2, <1>5, <1>9, <1>10, <1>11
<1>13. QED
  BY <1>1, <1>4, <1>12, Zenon DEF CopiedInv

\* Where the characters stay in their places, what is known of them stays true.
LEMMA PlacesKeepTags ==
    ASSUME ApartInv, TagsInv, rawText' = rawText, results' = results,
           InText' = InText, \A s : InNotes(s)' = InNotes(s)
    PROVE  ApartInv' /\ TagsInv'
<1>1. \A p : Nowhere(p)' <=> Nowhere(p)
  BY Zenon DEF Nowhere
<1>2. Positions' = Positions
  BY DEF Positions
<1>3. ApartInv'
  <2>1. /\ \A s \in Systems : InNotes(s)' \cap InText' = {}
        /\ \A s, t \in Systems : s # t => InNotes(s)' \cap InNotes(t)' = {}
    BY Zenon DEF ApartInv
  <2>2. \A p \in Positions' : rawText'[p] = Letter => ~Nowhere(p)'
    BY <1>1, <1>2, Zenon DEF ApartInv
  <2>3. QED
    BY <2>1, <2>2, Zenon DEF ApartInv
<1>4. ASSUME NEW s \in Systems
      PROVE  Cardinality(Gone(s))' = 4 * Len(results'[s])
  <2>1. {p \in Positions : rawText[p] = TagChars[s] /\ Nowhere(p)'}
          = {p \in Positions : rawText[p] = TagChars[s] /\ Nowhere(p)}
    BY <1>1, Zenon
  <2>2. (Gone(s))' = Gone(s)
    BY <1>2, <2>1, Zenon DEF Gone
  <2>3. Cardinality(Gone(s)) = 4 * Len(results[s])
    BY Zenon DEF TagsInv
  <2>4. QED
    BY <2>2, <2>3, Zenon
<1>5. TagsInv'
  BY <1>4, Zenon DEF TagsInv
<1>6. QED
  BY <1>3, <1>5

\* A character that is copied stands behind the ones copied before it.
LEMMA CopyKeepsOrder ==
    ASSUME TypeOK, OrderInv, CopyCharacter
    PROVE  OrderInv'
<1>1. /\ builder' = Append(builder, text[i])
      /\ i' = i + 1 /\ i <= Len(text) /\ text' = text
      /\ results' = results /\ system' = system
  BY DEF CopyCharacter
<1> DEFINE size == Len(builder)
<1>2. /\ DOMAIN builder' = 1..(size + 1)
      /\ \A k \in 1..size : builder'[k] = builder[k]
      /\ builder'[size + 1] = text[i]
  <2>1. builder \in Seq(Positions) /\ text[i] \in Positions
    BY <1>1, TextFacts DEF TypeOK
  <2>2. builder' \in Seq(Positions)
    BY <1>1, <2>1, AppendProperties
  <2>3. QED
    BY <1>1, <2>1, <2>2, AppendProperties, LenProperties
<1>3. size \in Nat /\ i \in Nat \ {0} /\ DOMAIN builder = 1..size /\ i \in i..Len(text)
        /\ DOMAIN text = 1..Len(text)
  BY <1>1, TextFacts
<1>4. Ascending(text) /\ Ascending(builder)
        /\ \A a \in i..Len(text) : /\ \A k \in DOMAIN builder : builder[k] < text[a]
                                   /\ \A p \in InNotes(system) : p < text[a]
  BY DEF OrderInv
<1>5. \A k \in 1..(size + 1) : k \in 1..size \/ k = size + 1
  BY <1>3
<1>6. ASSUME NEW j \in 1..(size + 1), NEW k \in 1..(size + 1), j < k
      PROVE  builder'[j] < builder'[k]
  <2>1. j \in 1..size
    BY <1>3, <1>6
  <2>2. CASE k \in 1..size
    BY <1>2, <1>3, <1>4, <1>6, <2>1, <2>2 DEF Ascending
  <2>3. CASE k = size + 1
    BY <1>2, <1>3, <1>4, <2>1, <2>3
  <2>4. QED
    BY <1>5, <2>2, <2>3
<1>7. Ascending(builder)'
  BY <1>2, <1>6 DEF Ascending
<1>8. ASSUME NEW a \in (i + 1)..Len(text)
      PROVE  /\ \A k \in 1..(size + 1) : builder'[k] < text[a]
             /\ \A p \in InNotes(system) : p < text[a]
  <2>1. a \in i..Len(text) /\ a \in DOMAIN text /\ i \in DOMAIN text /\ i < a
    BY <1>1, <1>3, TextFacts
  <2>2. text[i] < text[a]
    BY <1>4, <2>1 DEF Ascending
  <2>3. QED
    BY <1>2, <1>3, <1>4, <1>5, <2>1, <2>2
<1>9. \A s : InNotes(s)' = InNotes(s)
  BY <1>1 DEF InNotes
<1>10. (InNotes(system))' = InNotes(system)
  BY <1>1 DEF InNotes
<1>11. \A a \in i'..Len(text') : /\ \A k \in DOMAIN builder' : builder'[k] < text'[a]
                                 /\ \A p \in (InNotes(system))' : p < text'[a]
  BY <1>1, <1>2, <1>8, <1>10
<1>12. Ascending(text)'
  BY <1>1, <1>4 DEF Ascending
<1>13. QED
  BY <1>7, <1>11, <1>12, Zenon DEF OrderInv

\* The call for the next system begins with what was copied, which is in order, and
\* with no note of its own.
LEMMA NextKeepsOrder ==
    ASSUME TypeOK, OrderInv, LaterInv, NextSystem
    PROVE  OrderInv' /\ LaterInv' /\ CopiedInv'
<1>1. /\ system' = system + 1 /\ system < Len(TagChars)
      /\ text' = builder /\ i' = 1 /\ builder' = <<>>
      /\ results' = results /\ rawText' = rawText
  BY DEF NextSystem
<1>2. system + 1 \in Systems /\ system \in Nat /\ \A s \in Systems : s \in Nat
  BY <1>1, SystemFacts, TextFacts
<1>3. results[system + 1] = <<>>
  BY <1>2 DEF LaterInv
<1>4. (InNotes(system))' = {}
  <2>1. (InNotes(system))' = UNION {{results[system + 1][n][k] : k \in DOMAIN results[system + 1][n]}
                                    : n \in DOMAIN results[system + 1]}
    BY <1>1 DEF InNotes
  <2>2. DOMAIN results[system + 1] = {}
    BY <1>3
  <2>3. QED
    BY <2>1, <2>2
<1>5. DOMAIN builder' = {} /\ Len(builder') = 0
  BY <1>1
<1>6. OrderInv'
  <2>1. Ascending(text)' /\ Ascending(builder)'
    BY <1>1, <1>5 DEF OrderInv, Ascending
  <2>2. \A a \in i'..Len(text') : /\ \A k \in DOMAIN builder' : builder'[k] < text'[a]
                                  /\ \A p \in (InNotes(system))' : p < text'[a]
    BY <1>4, <1>5
  <2>3. QED
    BY <2>1, <2>2, Zenon DEF OrderInv
<1>7. LaterInv'
  <2>1. \A s \in Systems : s > system + 1 => s > system
    BY <1>2
  <2>2. QED
    BY <1>1, <2>1 DEF LaterInv
<1>8. CopiedInv'
  <2>1. /\ \A k \in DOMAIN builder' : FALSE
        /\ ~ (builder' # <<>>)
        /\ \A k \in 1..(Len(builder') - 1) : FALSE
    BY <1>1, <1>5
  <2>2. QED
    BY <2>1, Zenon DEF CopiedInv
<1>9. QED
  BY <1>6, <1>7, <1>8

\* The method returns a main text whose words are apart by single blanks.
LEMMA ReturnKeepsLine ==
    ASSUME TypeOK, Return
    PROVE  MainTextIsOneLine'
<1>1. mainText' = Normalize(builder)
  BY DEF Return
<1>2. /\ Normalize(builder) \in Seq(Positions \cup {JoinedBlank})
      /\ \A n \in 1..Len(Normalize(builder)) :
            Normalize(builder)[n] = JoinedBlank =>
                /\ n \notin {1, Len(Normalize(builder))}
                /\ Normalize(builder)[n + 1] # JoinedBlank
      /\ \E f : StandsFor(f, Normalize(builder), builder)
  BY NormalizeFacts, TextFacts DEF TypeOK
<1>3. DOMAIN mainText' = 1..Len(mainText') /\ rawText' = rawText
  BY <1>1, <1>2, LenProperties DEF Return
<1>4. \A n \in 1..Len(mainText') : mainText'[n] # JoinedBlank => ~IsBlank(mainText'[n])
  BY <1>1, <1>2 DEF StandsFor
<1>5. \A n \in 1..Len(mainText') :
          mainText'[n] # JoinedBlank => ~(rawText'[mainText'[n]] \in Blanks)
  BY <1>3, <1>4 DEF IsBlank
<1>6. QED
  BY <1>1, <1>2, <1>3, <1>5 DEF MainTextIsOneLine, IsBlank

------------------------------------------------------------------------------
\* The inductive invariant.

\* It holds when the method is called: every position is in the text, once.
LEMMA InvInit == Init => ExtractInv
<1> SUFFICES ASSUME Init PROVE ExtractInv
  OBVIOUS
<1>1. TypeOK
  BY TypeInit
<1>2. /\ rawText \in RawTexts /\ text = [p \in 1..Len(rawText) |-> p]
      /\ i = 1 /\ builder = <<>> /\ mainText = <<>>
      /\ \A s \in Systems : results[s] = <<>>
  BY DEF Init
<1>3. /\ Len(text) = Len(rawText) /\ DOMAIN text = 1..Len(rawText) /\ Len(rawText) \in Nat
      /\ \A k \in 1..Len(rawText) : text[k] = k
  BY <1>1, <1>2, TextFacts
<1>4. DOMAIN builder = {} /\ Len(builder) = 0 /\ DOMAIN mainText = {}
  BY <1>2
<1>5. \A s \in Systems : DOMAIN results[s] = {} /\ Len(results[s]) = 0
  BY <1>2
<1>6. \A s \in Systems : InNotes(s) = {}
  BY <1>5 DEF InNotes
<1>7. InText = Positions
  BY <1>2, <1>3, <1>4 DEF InText, Positions
<1>8. OrderInv
  <2>1. \A a, b \in 1..Len(rawText) : a < b => text[a] < text[b]
    BY <1>3
  <2>2. QED
    BY <1>1, <1>3, <1>4, <1>6, <2>1, TextFacts DEF OrderInv, Ascending
<1>9. LaterInv
  BY <1>2 DEF LaterInv
<1>10. ApartInv
  BY <1>6, <1>7 DEF ApartInv, Nowhere
<1>11. TagsInv
  <2>1. \A s \in Systems : Gone(s) = {}
    BY <1>7 DEF Gone, Nowhere
  <2>2. Cardinality({}) = 0
    BY FS_EmptySet
  <2>3. ASSUME NEW s \in Systems PROVE Cardinality(Gone(s)) = 4 * Len(results[s])
    <3>1. 4 * Len(results[s]) = 0
      BY <1>5
    <3>2. QED
      BY <2>1, <2>2, <3>1, Zenon
  <2>4. QED
    BY <2>3, Zenon DEF TagsInv
<1>12. CopiedInv
  <2>1. /\ \A k \in DOMAIN builder : FALSE
        /\ ~ (builder # <<>>)
        /\ \A k \in 1..(Len(builder) - 1) : FALSE
    BY <1>2, <1>4
  <2>2. QED
    BY <2>1, Zenon DEF CopiedInv
<1>13. MainTextIsOneLine
  BY <1>4 DEF MainTextIsOneLine
<1>14. \A s \in Systems : NotesInOrder(s)
  BY <1>5 DEF NotesInOrder
<1>15. QED
  BY <1>1, <1>8, <1>9, <1>10, <1>11, <1>12, <1>13, <1>14 DEF ExtractInv

\* Every step keeps it.
LEMMA InvStep == ExtractInv /\ [Next]_vars => ExtractInv'
<1> SUFFICES ASSUME ExtractInv, [Next]_vars PROVE ExtractInv'
  OBVIOUS
<1>1. /\ TypeOK /\ OrderInv /\ LaterInv /\ ApartInv /\ TagsInv /\ CopiedInv
      /\ MainTextIsOneLine /\ \A s \in Systems : NotesInOrder(s)
  BY DEF ExtractInv
<1>2. TypeOK'
  BY <1>1, TypeStep
<1>3. CASE TakeNote
  <2>1. OrderInv' /\ (\A s \in Systems : NotesInOrder(s))'
    BY <1>1, <1>3, NoteKeepsOrder
  <2>2. ApartInv' /\ TagsInv'
    BY <1>1, <1>3, NoteKeepsTags
  <2>3. CopiedInv'
    BY <1>1, <1>3, NoteKeepsCopied
  <2>4. LaterInv'
    <3>1. \A s \in Systems : s # system => results'[s] = results[s]
      BY <1>1, <1>3, NoteEntersNotes
    <3>2. system' = system /\ \A s \in Systems : s > system => s # system
      BY <1>1, <1>3, SystemFacts, TextFacts DEF TakeNote
    <3>3. QED
      BY <1>1, <3>1, <3>2 DEF LaterInv
  <2>5. MainTextIsOneLine'
    BY <1>1, <1>3 DEF TakeNote, MainTextIsOneLine, IsBlank
  <2>6. QED
    BY <1>2, <2>1, <2>2, <2>3, <2>4, <2>5, Zenon DEF ExtractInv
<1>4. CASE CopyCharacter
  <2>1. /\ rawText' = rawText /\ results' = results /\ system' = system
        /\ mainText' = mainText
    BY <1>4 DEF CopyCharacter
  <2>2. OrderInv' /\ CopiedInv'
    BY <1>1, <1>4, CopyKeepsOrder, CopyKeepsCopied
  <2>3. InText' = InText /\ \A s : InNotes(s)' = InNotes(s)
    BY <1>1, <1>4, CopyKeepsPlaces, Zenon
  <2>4. ApartInv' /\ TagsInv'
    BY <1>1, <2>1, <2>3, PlacesKeepTags, Zenon
  <2>5. LaterInv' /\ MainTextIsOneLine'
    BY <1>1, <2>1 DEF LaterInv, MainTextIsOneLine, IsBlank
  <2>6. (\A s \in Systems : NotesInOrder(s))'
    BY <1>1, <2>1 DEF NotesInOrder, Ascending
  <2>7. QED
    BY <1>2, <2>2, <2>4, <2>5, <2>6, Zenon DEF ExtractInv
<1>5. CASE NextSystem
  <2>1. rawText' = rawText /\ results' = results /\ mainText' = mainText
    BY <1>5 DEF NextSystem
  <2>2. OrderInv' /\ LaterInv' /\ CopiedInv'
    BY <1>1, <1>5, NextKeepsOrder
  <2>3. InText' = InText /\ \A s : InNotes(s)' = InNotes(s)
    BY <1>1, <1>5, NextKeepsPlaces, Zenon
  <2>4. ApartInv' /\ TagsInv'
    BY <1>1, <2>1, <2>3, PlacesKeepTags, Zenon
  <2>5. MainTextIsOneLine'
    BY <1>1, <2>1 DEF MainTextIsOneLine, IsBlank
  <2>6. (\A s \in Systems : NotesInOrder(s))'
    BY <1>1, <2>1 DEF NotesInOrder, Ascending
  <2>7. QED
    BY <1>2, <2>2, <2>4, <2>5, <2>6, Zenon DEF ExtractInv
<1>6. ASSUME UNCHANGED <<rawText, system, text, i, builder, results>>, MainTextIsOneLine'
      PROVE  ExtractInv'
  <2>1. OrderInv'
    BY <1>1, <1>6 DEF OrderInv, Ascending, InNotes
  <2>2. LaterInv' /\ (\A s \in Systems : NotesInOrder(s))'
    BY <1>1, <1>6 DEF LaterInv, NotesInOrder, Ascending
  <2>3. InText' = InText /\ \A s : InNotes(s)' = InNotes(s)
    BY <1>6 DEF InText, InNotes
  <2>4. ApartInv' /\ TagsInv'
    BY <1>1, <1>6, <2>3, PlacesKeepTags, Zenon
  <2>5. CopiedInv'
    BY <1>1, <1>6 DEF CopiedInv, NoteOpensAt, ClosingTags, IsTagAt
  <2>6. QED
    BY <1>2, <1>6, <2>1, <2>2, <2>4, <2>5, Zenon DEF ExtractInv
<1>7. CASE Return
  <2>1. MainTextIsOneLine'
    BY <1>1, <1>7, ReturnKeepsLine
  <2>2. UNCHANGED <<rawText, system, text, i, builder, results>>
    BY <1>7 DEF Return
  <2>3. QED
    BY <1>6, <2>1, <2>2
<1>8. CASE UNCHANGED vars
  <2>1. MainTextIsOneLine'
    BY <1>1, <1>8 DEF MainTextIsOneLine, IsBlank, vars
  <2>2. UNCHANGED <<rawText, system, text, i, builder, results>>
    BY <1>8 DEF vars
  <2>3. QED
    BY <1>6, <2>1, <2>2
<1>9. QED
  BY <1>3, <1>4, <1>5, <1>7, <1>8 DEF Next, Returned

\* What the passes have done so far is known in every state.
LEMMA ExtractInvariant == Spec => []ExtractInv
<1>1. Init => ExtractInv
  BY InvInit
<1>2. ExtractInv /\ [Next]_vars => ExtractInv'
  BY InvStep
<1>3. QED
  BY <1>1, <1>2, PTL DEF Spec

------------------------------------------------------------------------------
\* What the invariant says of the notes and of the text around them.

\* The text around the notes: what is copied, then what is still to be read.
LEMMA AroundFacts ==
    ASSUME TypeOK, OrderInv
    PROVE  /\ Around \in Seq(Positions) /\ DOMAIN Around = 1..Len(Around)
           /\ Ascending(Around)
           /\ \A p : p \in InText <=> \E k \in 1..Len(Around) : Around[k] = p
<1> DEFINE size == Len(builder)
           left == Len(text) - i + 1
<1>1. /\ size \in Nat /\ i \in Nat \ {0} /\ i <= Len(text) + 1 /\ Len(text) \in Nat
      /\ DOMAIN builder = 1..size /\ DOMAIN text = 1..Len(text)
      /\ \A k \in 1..Len(text) : text[k] \in Positions
      /\ builder \in Seq(Positions)
  BY TextFacts DEF TypeOK
<1>2. left \in Nat
  BY <1>1
<1>3. /\ Rest \in Seq(Positions) /\ Len(Rest) = left
      /\ \A k \in 1..left : Rest[k] = text[i + k - 1]
  <2>1. i \in Int /\ Len(text) \in Int /\ (i <= Len(text) \/ i = Len(text) + 1)
    BY <1>1
  <2>2. \A k \in i..Len(text) : text[k] \in Positions
    BY <1>1
  <2>3. QED
    BY <2>1, <2>2, SubSeqProperties DEF Rest
<1>4. /\ Around \in Seq(Positions) /\ Len(Around) = size + left
      /\ \A k \in 1..size : Around[k] = builder[k]
      /\ \A k \in 1..left : Around[size + k] = Rest[k]
  <2>1. Around = builder \o Rest
    BY DEF Around
  <2>a. /\ builder \o Rest \in Seq(Positions)
        /\ Len(builder \o Rest) = Len(builder) + Len(Rest)
        /\ \A k \in 1..(Len(builder) + Len(Rest)) :
              (builder \o Rest)[k] =
                  IF k <= Len(builder) THEN builder[k] ELSE Rest[k - Len(builder)]
    BY <1>1, <1>3, ConcatProperties, Zenon
  <2>2. /\ Around \in Seq(Positions) /\ Len(Around) = size + left
        /\ \A k \in 1..(size + left) :
              Around[k] = IF k <= size THEN builder[k] ELSE Rest[k - size]
    BY <1>3, <2>1, <2>a, Zenon
  <2>3. \A k \in 1..size : k \in 1..(size + left) /\ k <= size
    BY <1>1, <1>2
  <2>4. \A k \in 1..left : size + k \in 1..(size + left) /\ ~ (size + k <= size)
                             /\ (size + k) - size = k
    BY <1>1, <1>2
  <2> HIDE DEF size, left
  <2>5. QED
    BY <2>2, <2>3, <2>4
<1>5. DOMAIN Around = 1..(size + left)
  BY <1>4, LenProperties
<1>6. \A k \in 1..left : /\ i + k - 1 \in i..Len(text) /\ i + k - 1 \in 1..Len(text)
                         /\ Around[size + k] = text[i + k - 1]
  <2> TAKE k \in 1..left
  <2>1. k \in Int /\ 1 <= k /\ k <= left
    BY <1>2
  <2>2. i + k - 1 \in i..Len(text) /\ i + k - 1 \in 1..Len(text)
    BY <1>1, <2>1
  <2> HIDE DEF left, size
  <2>3. QED
    BY <1>3, <1>4, <2>2
<1>7. \A k \in 1..(size + left) :
         k \in 1..size \/ \E l \in 1..left : k = size + l
  <2> TAKE k \in 1..(size + left)
  <2>1. CASE k > size
    <3>1. k - size \in 1..left /\ k = size + (k - size)
      BY <1>1, <1>2, <2>1
    <3>2. QED
      BY <3>1
  <2>2. QED
    BY <1>1, <1>2, <2>1
<1>8. Ascending(text) /\ Ascending(builder)
        /\ \A a \in i..Len(text) : \A k \in DOMAIN builder : builder[k] < text[a]
  BY DEF OrderInv
<1> HIDE DEF size, left
<1>9. ASSUME NEW j \in 1..(size + left), NEW k \in 1..(size + left), j < k
      PROVE  Around[j] < Around[k]
  <2>1. CASE j \in 1..size /\ k \in 1..size
    BY <1>1, <1>4, <1>8, <1>9, <2>1 DEF Ascending
  <2>2. CASE j \in 1..size /\ \E l \in 1..left : k = size + l
    <3>1. PICK l \in 1..left : k = size + l
      BY <2>2
    <3>2. QED
      BY <1>1, <1>4, <1>6, <1>8, <2>2, <3>1
  <2>3. CASE \E l \in 1..left : j = size + l
    <3>1. PICK l \in 1..left : j = size + l
      BY <2>3
    <3>2. ~ (k \in 1..size)
      BY <1>1, <1>2, <1>9, <3>1
    <3>3. PICK m \in 1..left : k = size + m
      BY <1>7, <3>2
    <3>4. i + l - 1 < i + m - 1
      BY <1>1, <1>2, <1>9, <3>1, <3>3
    <3>5. text[i + l - 1] < text[i + m - 1]
      BY <1>1, <1>6, <1>8, <3>4 DEF Ascending
    <3>6. QED
      BY <1>6, <3>1, <3>3, <3>5
  <2>4. QED
    BY <1>7, <2>1, <2>2, <2>3
<1>10. Ascending(Around)
  BY <1>5, <1>9 DEF Ascending
<1>11. \A a \in i..Len(text) : \E k \in 1..(size + left) : Around[k] = text[a]
  <2> TAKE a \in i..Len(text)
  <2>1. a - i + 1 \in 1..left /\ i + (a - i + 1) - 1 = a
    BY <1>1 DEF left
  <2>2. size + (a - i + 1) \in 1..(size + left)
    BY <1>1, <1>2, <2>1
  <2>3. QED
    BY <1>6, <2>1, <2>2
<1>12. \A k \in 1..size : k \in 1..(size + left)
  BY <1>1, <1>2
<1>13. \A p : p \in InText <=> \E k \in 1..(size + left) : Around[k] = p
  <2> TAKE p
  <2>1. p \in InText <=> (\E k \in 1..size : builder[k] = p)
                           \/ (\E a \in i..Len(text) : text[a] = p)
    BY <1>1 DEF InText
  <2>2. (\E k \in 1..size : builder[k] = p) => \E k \in 1..(size + left) : Around[k] = p
    BY <1>4, <1>12
  <2>3. (\E k \in 1..(size + left) : Around[k] = p) => p \in InText
    BY <1>4, <1>6, <1>7, <2>1
  <2>4. QED
    BY <1>11, <2>1, <2>2, <2>3
<1>14. QED
  BY <1>4, <1>5, <1>10, <1>13

\* A character of the text or of a note stands at one place only.
LEMMA OnePlace ==
    ASSUME ExtractInv, NEW p \in Positions, ~Nowhere(p)
    PROVE  \E x : Places(p) = {x}
<1>1. TypeOK /\ OrderInv /\ ApartInv /\ \A s \in Systems : NotesInOrder(s)
  BY DEF ExtractInv
<1>2. /\ Around \in Seq(Positions) /\ DOMAIN Around = 1..Len(Around)
      /\ Ascending(Around) /\ Positions \in SUBSET Nat
      /\ p \in InText <=> \E k \in 1..Len(Around) : Around[k] = p
  BY <1>1, AroundFacts, TextFacts
<1> DEFINE inNotes == UNION {UNION {{<<s, n, k>> : k \in {j \in DOMAIN results[s][n] :
                                                            results[s][n][j] = p}}
                                    : n \in DOMAIN results[s]} : s \in Systems}
           inText == {<<0, 0, k>> : k \in {j \in DOMAIN Around : Around[j] = p}}
<1>3. Places(p) = inText \cup inNotes
  BY Zenon DEF Places
<1>4. \A s \in Systems : p \notin InNotes(s) =>
         \A n \in DOMAIN results[s] : \A j \in DOMAIN results[s][n] : results[s][n][j] # p
  BY DEF InNotes
<1>5. CASE p \in InText
  <2>1. \A s \in Systems : p \notin InNotes(s)
    BY <1>1, <1>5 DEF ApartInv
  <2>2. inNotes = {}
    BY <1>4, <2>1
  <2>3. PICK k \in 1..Len(Around) : Around[k] = p
    BY <1>2, <1>5
  <2>4. \A j \in 1..Len(Around) : Around[j] = p => j = k
    BY <1>2, <2>3, AscendingFacts
  <2>5. inText = {<<0, 0, k>>}
    <3>1. {j \in DOMAIN Around : Around[j] = p} = {k}
      BY <1>2, <2>3, <2>4
    <3>2. QED
      BY <3>1
  <2>6. QED
    BY <1>3, <2>2, <2>5
<1>6. CASE p \notin InText
  <2>1. inText = {}
    BY <1>2, <1>6
  <2>2. PICK s \in Systems : p \in InNotes(s)
    BY <1>6 DEF Nowhere
  <2>3. \A t \in Systems : t # s => p \notin InNotes(t)
    <3> TAKE t \in Systems
    <3> HAVE t # s
    <3>1. InNotes(s) \cap InNotes(t) = {}
      BY <1>1 DEF ApartInv
    <3>2. QED
      BY <2>2, <3>1
  <2>a. PICK n \in DOMAIN results[s] : \E k \in DOMAIN results[s][n] : results[s][n][k] = p
    BY <2>2 DEF InNotes
  <2>4. PICK k \in DOMAIN results[s][n] : results[s][n][k] = p
    BY <2>a
  <2>5. /\ n \in 1..Len(results[s]) /\ k \in 1..Len(results[s][n])
        /\ DOMAIN results[s] = 1..Len(results[s]) /\ Len(results[s]) \in Nat
        /\ \A m \in 1..Len(results[s]) :
              /\ results[s][m] \in Seq(Positions)
              /\ DOMAIN results[s][m] = 1..Len(results[s][m])
              /\ \A j \in 1..Len(results[s][m]) : results[s][m][j] \in Positions
    BY <1>1, <2>4, ResultFacts
  <2>6. /\ Ascending(results[s][n])
        /\ \A a, b \in DOMAIN results[s] :
              a < b => \A j \in DOMAIN results[s][a], l \in DOMAIN results[s][b] :
                          results[s][a][j] < results[s][b][l]
    BY <1>1, <2>4 DEF NotesInOrder
  <2>7. ASSUME NEW m \in DOMAIN results[s], NEW j \in DOMAIN results[s][m],
               results[s][m][j] = p
        PROVE  m = n /\ j = k
    <3>1. p \in Nat /\ ~ (p < p)
      BY <1>2
    <3>2. ~ (m < n) /\ ~ (n < m)
      BY <2>4, <2>6, <2>7, <3>1
    <3>3. m = n
      BY <2>5, <3>2
    <3>4. j \in 1..Len(results[s][n]) /\ results[s][n][j] = results[s][n][k]
      BY <2>4, <2>5, <2>7, <3>3
    <3>5. j = k
      BY <1>2, <2>5, <2>6, <3>4, AscendingFacts
    <3>6. QED
      BY <3>3, <3>5
  <2>8. inNotes = {<<s, n, k>>}
    <3>1. ASSUME NEW x \in inNotes
          PROVE  x = <<s, n, k>>
      <4>1. PICK t \in Systems : \E m \in DOMAIN results[t] : \E j \in DOMAIN results[t][m] :
                   results[t][m][j] = p /\ x = <<t, m, j>>
        BY <3>1
      <4>2. t = s
        BY <1>4, <2>3, <4>1
      <4>3. QED
        BY <2>7, <4>1, <4>2
    <3>2. <<s, n, k>> \in inNotes
      BY <2>4
    <3> HIDE DEF inNotes
    <3>3. QED
      BY <3>1, <3>2
  <2>9. QED
    BY <1>3, <2>1, <2>8
<1>7. QED
  BY <1>5, <1>6

\* A character that is nowhere has no place.
LEMMA NoPlace ==
    ASSUME ExtractInv, NEW p \in Positions, Nowhere(p)
    PROVE  Places(p) = {}
<1>1. TypeOK /\ OrderInv
  BY DEF ExtractInv
<1>2. {j \in DOMAIN Around : Around[j] = p} = {}
  BY <1>1, AroundFacts DEF Nowhere
<1>3. \A s \in Systems : \A n \in DOMAIN results[s] :
         {j \in DOMAIN results[s][n] : results[s][n][j] = p} = {}
  BY DEF Nowhere, InNotes
<1>4. QED
  BY <1>2, <1>3 DEF Places

------------------------------------------------------------------------------
\* No letter is lost or duplicated by the passes, however many systems there are and
\* however the tags of the text are nested, crossed or left open.
THEOREM ExtractionKeepsLetters == Spec => []LettersKept
<1>1. ExtractInv => LettersKept
  <2> SUFFICES ASSUME ExtractInv, NEW p \in Positions, rawText[p] = Letter
               PROVE  Cardinality(Places(p)) = 1
    BY DEF LettersKept
  <2>1. ~Nowhere(p)
    BY DEF ExtractInv, ApartInv
  <2>2. PICK x : Places(p) = {x}
    BY <2>1, OnePlace
  <2>3. QED
    BY <2>2, FS_Singleton
<1>2. QED
  BY <1>1, ExtractInvariant, PTL

\* Every note takes the four characters of its two tags with it, and nothing else of
\* any tag is lost.
THEOREM ExtractionTakesTagsInPairs == Spec => []TagsGoInPairs
<1>1. ExtractInv => TagsGoInPairs
  <2> SUFFICES ASSUME ExtractInv, NEW s \in Systems
               PROVE  Cardinality({p \in Positions : rawText[p] = TagChars[s] /\ Places(p) = {}})
                        = 4 * Len(results[s])
    BY DEF TagsGoInPairs
  <2>1. \A p \in Positions : Places(p) = {} <=> Nowhere(p)
    <3> TAKE p \in Positions
    <3>1. CASE Nowhere(p)
      BY <3>1, NoPlace
    <3>2. CASE ~Nowhere(p)
      <4>1. PICK x : Places(p) = {x}
        BY <3>2, OnePlace
      <4>2. QED
        BY <3>2, <4>1
    <3>3. QED
      BY <3>1, <3>2
  <2>2. {p \in Positions : rawText[p] = TagChars[s] /\ Places(p) = {}} = Gone(s)
    BY <2>1 DEF Gone
  <2>3. QED
    BY <2>2 DEF ExtractInv, TagsInv
<1>2. QED
  BY <1>1, ExtractInvariant, PTL

\* The text around the notes and the notes of each system stay in reading order.
THEOREM ExtractionKeepsOrder == Spec => []ReadingOrder
<1>1. ExtractInv => ReadingOrder
  BY AroundFacts DEF ExtractInv, ReadingOrder
<1>2. QED
  BY <1>1, ExtractInvariant, PTL

\* A pass leaves no note of its own system behind, and the main text is one line of
\* words apart by single blanks.
THEOREM ExtractionCleansText == Spec => []CleanText
<1>1. ExtractInv => PassLeavesNoNote
  <2> SUFFICES ASSUME ExtractInv, i > Len(text), NEW k \in DOMAIN builder,
                      NoteOpensAt(builder, system, k)
               PROVE  FALSE
    BY Zenon DEF PassLeavesNoNote
  <2>1. TypeOK /\ OrderInv /\ CopiedInv
    BY DEF ExtractInv
  <2>2. /\ Len(builder) \in Nat /\ DOMAIN builder = 1..Len(builder) /\ k \in Nat \ {0}
        /\ Len(text) \in Nat /\ i \in Nat \ {0} /\ i <= Len(text) + 1
        /\ Positions \in SUBSET Nat
        /\ text \in Seq(Positions) /\ builder \in Seq(Positions)
        /\ Ascending(text) /\ Ascending(builder)
    BY <2>1, TextFacts DEF TypeOK, OrderInv
  <2> DEFINE e == EndOfNote(builder, system, k)
  <2>3. /\ e \in (k + 2)..(Len(builder) - 1)
        /\ IsTagAt(builder, system, k) /\ IsTagAt(builder, system, e)
    BY <2>2, EndFacts
  <2> HIDE DEF e
  <2>4. /\ k \in 1..(Len(builder) - 1) /\ e \in 1..(Len(builder) - 1)
        /\ k + 1 \in 1..Len(builder) /\ e \in 1..Len(builder) /\ k + 1 < e
    BY <2>2, <2>3
  <2>5. PICK a \in 1..(i - 2) : text[a] = builder[k] /\ text[a + 1] = builder[k + 1]
    BY <2>1, <2>3, <2>4, Zenon DEF CopiedInv, IsTagAt
  <2>6. PICK b \in 1..(i - 2) : text[b] = builder[e] /\ text[b + 1] = builder[e + 1]
    BY <2>1, <2>3, <2>4, Zenon DEF CopiedInv, IsTagAt
  <2>7. /\ a \in 1..Len(text) /\ a + 1 \in 1..Len(text) /\ b \in 1..Len(text)
        /\ a + 1 <= Len(text) /\ b + 1 <= Len(text)
    BY <2>2
  <2>8. builder[k + 1] < builder[e]
    BY <2>2, <2>4, AscendingFacts
  <2>9. text[a + 1] < text[b]
    BY <2>5, <2>6, <2>8
  <2>10. a + 1 < b
    BY <2>2, <2>7, <2>9, AscendingFacts
  <2>11. IsTagAt(text, system, a) /\ IsTagAt(text, system, b)
    BY <2>3, <2>5, <2>6, <2>7 DEF IsTagAt
  <2>12. b \in (a + 2)..Len(text)
    BY <2>7, <2>10
  <2>13. NoteOpensAt(text, system, a)
    BY <2>11, <2>12 DEF NoteOpensAt, ClosingTags
  <2>14. PICK c \in 1..(i - 1) : text[c] = builder[k] /\ ~NoteOpensAt(text, system, c)
    BY <2>1, Zenon DEF CopiedInv
  <2>15. c \in 1..Len(text) /\ text[c] = text[a]
    BY <2>2, <2>5, <2>14
  <2>16. c = a
    BY <2>2, <2>7, <2>15, AscendingFacts
  <2>17. QED
    BY <2>13, <2>14, <2>16
<1>2. ExtractInv => CleanText
  BY <1>1 DEF ExtractInv, CleanText
<1>3. QED
  BY <1>2, ExtractInvariant, PTL

------------------------------------------------------------------------------
\* The passes end.

\* The rounds still to come, at most: one for every character of the text of this pass
\* from the index on, one for every character of the raw text in every later pass and one
\* to begin it, and the return.
RoundsLeft ==
    (Len(TagChars) - system) * (Len(rawText) + 1)
      + (Len(text) + 1 - i) + (IF pc = "loop" THEN 1 ELSE 0)

\* A text in reading order has no more characters than the raw text.
LEMMA TextIsNoLonger ==
    ASSUME NEW R \in Nat, NEW t \in Seq(1..R), Ascending(t)
    PROVE  Len(t) \in Nat /\ Len(t) <= R
<1>1. /\ Len(t) \in Nat /\ DOMAIN t = 1..Len(t)
      /\ \A k \in 1..Len(t) : t[k] \in 1..R
  BY LenProperties, ElementOfSeq
<1> DEFINE S == {k \in Nat : k \in 1..Len(t) => t[k] >= k}
<1>2. 0 \in S
  BY <1>1
<1>3. ASSUME NEW k \in Nat, k \in S
      PROVE  k + 1 \in S
  <2>1. CASE k = 0
    BY <1>1, <2>1
  <2>2. CASE k # 0 /\ k + 1 \in 1..Len(t)
    <3>1. k \in 1..Len(t) /\ t[k] >= k
      BY <1>1, <1>3, <2>2
    <3>2. t[k] < t[k + 1]
      <4>1. k \in DOMAIN t /\ k + 1 \in DOMAIN t /\ k < k + 1
        BY <1>1, <2>2, <3>1
      <4>2. QED
        BY <4>1 DEF Ascending
    <3>3. t[k] \in Nat /\ t[k + 1] \in Nat
      BY <1>1, <2>2, <3>1
    <3>4. QED
      BY <3>1, <3>2, <3>3
  <2>3. QED
    BY <2>1, <2>2
<1>4. Nat \subseteq S
  <2> HIDE DEF S
  <2>1. QED
    BY <1>2, <1>3, Induction
<1>5. CASE Len(t) = 0
  BY <1>5
<1>6. CASE Len(t) # 0
  <2>1. Len(t) \in 1..Len(t) /\ Len(t) \in S
    BY <1>1, <1>4, <1>6
  <2>2. t[Len(t)] >= Len(t) /\ t[Len(t)] \in 1..R
    BY <1>1, <2>1
  <2>3. QED
    BY <1>1, <2>2
<1>7. QED
  BY <1>1, <1>5, <1>6

\* The numbers the rounds are counted with.
LEMMA RoundsType ==
    ASSUME TypeOK
    PROVE  RoundsLeft \in Nat
<1> DEFINE later == Len(TagChars) - system
           each  == Len(rawText) + 1
           here  == Len(text) + 1 - i
           loop  == IF pc = "loop" THEN 1 ELSE 0
<1>1. later \in Nat /\ each \in Nat /\ here \in Nat /\ loop \in Nat
  BY TextFacts, SystemFacts
<1>2. RoundsLeft = later * each + here + loop
  BY DEF RoundsLeft
<1> HIDE DEF later, each, here, loop
<1>3. later * each \in Nat
  BY <1>1
<1>4. QED
  BY <1>1, <1>2, <1>3

\* A note taken or a character copied moves the index; the next pass reads what this
\* one has copied, which is no longer than the raw text.
LEMMA RoundIsSpent ==
    ASSUME ExtractInv, Next, ~UNCHANGED vars
    PROVE  RoundsLeft' < RoundsLeft
<1>1. TypeOK /\ OrderInv
  BY DEF ExtractInv
<1> DEFINE later == Len(TagChars) - system
           each  == Len(rawText) + 1
           long  == Len(text)
<1>2. later \in Nat /\ each \in Nat /\ long \in Nat /\ i \in Nat /\ later * each \in Nat
  <2>1. later \in Nat /\ each \in Nat /\ long \in Nat /\ i \in Nat
    BY <1>1, TextFacts, SystemFacts
  <2> HIDE DEF later, each
  <2>2. QED
    BY <2>1
<1>3. ASSUME NEW next \in Nat, i' = next, next > i, pc = "loop",
             UNCHANGED <<rawText, system, text, pc>>
      PROVE  RoundsLeft' < RoundsLeft
  <2>1. /\ RoundsLeft = later * each + (long + 1 - i) + 1
        /\ RoundsLeft' = later * each + (long + 1 - next) + 1
    BY <1>3 DEF RoundsLeft
  <2> HIDE DEF later, each, long
  <2> DEFINE rest == later * each
  <2>2. rest \in Nat
    BY <1>2
  <2> HIDE DEF rest
  <2>3. RoundsLeft = rest + (long + 1 - i) + 1 /\ RoundsLeft' = rest + (long + 1 - next) + 1
    BY <2>1 DEF rest
  <2>4. QED
    BY <1>2, <1>3, <2>2, <2>3
<1>4. CASE TakeNote
  <2>1. /\ i' = End + 2 /\ pc = "loop"
        /\ UNCHANGED <<rawText, system, text, pc>>
    BY <1>4, Zenon DEF TakeNote, End
  <2>2. End \in (i + 2)..(Len(text) - 1)
    BY <1>1, <1>4, NoteFacts DEF TakeNote
  <2>3. End + 2 \in Nat /\ End + 2 > i
    BY <1>1, <2>2, TextFacts
  <2>4. QED
    BY <1>3, <2>1, <2>3
<1>5. CASE CopyCharacter
  <2>1. /\ i' = i + 1 /\ pc = "loop"
        /\ UNCHANGED <<rawText, system, text, pc>>
    BY <1>5 DEF CopyCharacter
  <2>2. i + 1 \in Nat /\ i + 1 > i
    BY <1>2
  <2>3. QED
    BY <1>3, <2>1, <2>2
<1>6. CASE NextSystem
  <2>1. /\ pc = "loop" /\ pc' = "loop" /\ i > Len(text) /\ system < Len(TagChars)
        /\ system' = system + 1 /\ text' = builder /\ i' = 1 /\ rawText' = rawText
    BY <1>6 DEF NextSystem
  <2>2. Len(builder) \in Nat /\ Len(builder) <= Len(rawText) /\ Len(rawText) \in Nat
    <3>1. /\ Len(rawText) \in Nat /\ builder \in Seq(1..Len(rawText))
          /\ Ascending(builder)
      BY <1>1, TextFacts DEF TypeOK, Positions, OrderInv
    <3>2. QED
      BY <3>1, TextIsNoLonger
  <2>3. i = long + 1
    BY <1>1, <2>1, TextFacts
  <2>4. /\ RoundsLeft = later * each + (long + 1 - i) + 1
        /\ RoundsLeft' = (Len(TagChars) - (system + 1)) * each + (Len(builder) + 1 - 1) + 1
    BY <2>1 DEF RoundsLeft
  <2>5. Len(TagChars) - (system + 1) = later - 1
    BY <1>1, TextFacts, SystemFacts
  <2>6. (later - 1) * each = later * each - each
    <3> HIDE DEF later, each
    <3>1. QED
      BY <1>2
  <2> DEFINE rest == later * each
             copied == Len(builder)
  <2>7. /\ RoundsLeft = rest + 0 + 1
        /\ RoundsLeft' = (rest - each) + copied + 1
    <3>1. long + 1 - i = 0
      BY <1>2, <2>3
    <3>2. copied + 1 - 1 = copied
      BY <2>2
    <3>3. QED
      BY <2>4, <2>5, <2>6, <3>1, <3>2
  <2>8. rest \in Nat /\ each \in Nat /\ copied \in Nat /\ copied < each
    BY <1>2, <2>2
  <2> HIDE DEF rest, each, copied
  <2>9. QED
    BY <2>7, <2>8
<1>7. CASE Return
  <2>1. pc = "loop" /\ pc' = "returned" /\ UNCHANGED <<rawText, system, text, i>>
    BY <1>7 DEF Return
  <2>2. /\ RoundsLeft = later * each + (long + 1 - i) + 1
        /\ RoundsLeft' = later * each + (long + 1 - i) + 0
    BY <2>1 DEF RoundsLeft
  <2> DEFINE rest == later * each + (long + 1 - i)
  <2>3. rest \in Int
    <3> HIDE DEF later, each, long
    <3>1. QED
      BY <1>2
  <2> HIDE DEF rest
  <2>4. RoundsLeft = rest + 1 /\ RoundsLeft' = rest + 0
    BY <2>2 DEF rest
  <2>5. QED
    BY <2>3, <2>4
<1>8. QED
  BY <1>4, <1>5, <1>6, <1>7 DEF Next, Returned

\* The loops of ExtractByTag end: whatever tags a text has, nested, crossed or not closed,
\* every step leaves fewer rounds to come.
THEOREM ExtractionEnds ==
    Spec => [](RoundsLeft \in Nat) /\ [][RoundsLeft' < RoundsLeft]_vars
<1>1. ExtractInv => RoundsLeft \in Nat
  BY RoundsType DEF ExtractInv
<1>2. ExtractInv /\ [Next]_vars => [RoundsLeft' < RoundsLeft]_vars
  BY RoundIsSpent
<1>3. QED
  BY ExtractInvariant, <1>1, <1>2, PTL DEF Spec

=============================================================================
