------------------------- MODULE TextToPagesProofs -------------------------
(***************************************************************************)
(* Paginate prints every letter of every raw text once and in order, and   *)
(* ends, from what is proved of its two parts.                             *)
(*                                                                         *)
(* The extraction's invariant is kept until the main text is split, and    *)
(* the engine starts in one of its initial states.  The main text is one   *)
(* line, so the engine returns one page with this line and all notes, or   *)
(* no page if there is no main text; and the extraction has each letter in *)
(* one place of the one or of the others.                                  *)
(***************************************************************************)
EXTENDS TextToPages, FiniteSetTheorems, TLAPS

------------------------------------------------------------------------------
\* The parts, with what is proved of them.

TE == INSTANCE TextExtractionProofs WITH text <- passText, pc <- extracting

\* The height of a note matters to nothing that Paginate does.
PG == INSTANCE PaginationProofs WITH
          Texts <- Extracted, pc <- paginating, FootnoteHeight <- 0

\* The composition's constants are as the extraction assumes.
LEMMA ExtractionAssumed ==
    /\ TagChars \in Seq(TE!Classes) /\ TagChars # <<>>
    /\ \A s, t \in DOMAIN TagChars : TagChars[s] = TagChars[t] => s = t
    /\ Letter \notin TE!Blanks /\ Space # LineBreak
    /\ \A s \in DOMAIN TagChars : TagChars[s] \notin {Letter} \cup TE!Blanks
    /\ RawTexts \subseteq Seq(TE!Classes)
BY RawAssumption DEF TE!Classes, TE!Blanks, TextHelper!Classes, TextHelper!Blanks

\* They are as the engine assumes, whatever the extraction returns.
LEMMA PaginationAssumed ==
    /\ \A t \in Extracted : /\ t.lines \in Seq(Nat \ {0})
                            /\ t.notes \in [Systems -> Nat]
    /\ PageHeight \in Nat /\ HeaderHeight \in Nat /\ MarginOuter \in Nat
    /\ LineHeight \in Nat \ {0} /\ LineHeight % 2 = 0
    /\ LongLine \in Nat /\ 0 \in Nat
BY PageAssumption DEF Extracted

\* An instance has its own name for the size of a set.
LEMMA SameCardinality ==
    \A S : TextHelper!Cardinality(S) = Cardinality(S) /\ TE!Cardinality(S) = Cardinality(S)
BY DEF TextHelper!Cardinality, TE!Cardinality, Cardinality

\* The composition and the theorems speak of the same extraction: its helpers,
LEMMA SameHelpers ==
    /\ TextHelper!Systems = TE!Systems /\ Systems = TE!Systems
    /\ TextHelper!JoinedBlank = 0 /\ TE!JoinedBlank = 0
    /\ TextHelper!Positions = TE!Positions /\ DOMAIN TagChars = Systems
    /\ \A p : TextHelper!IsBlank(p) = TE!IsBlank(p)
    /\ \A x : TextHelper!Trim(x) = TE!Trim(x)
    /\ \A t, s, k : TextHelper!NoteOpensAt(t, s, k) = TE!NoteOpensAt(t, s, k)
    /\ \A t, s, k : TextHelper!EndOfNote(t, s, k) = TE!EndOfNote(t, s, k)
<1>1. /\ TextHelper!Systems = TE!Systems /\ Systems = TE!Systems
      /\ TextHelper!JoinedBlank = 0 /\ TE!JoinedBlank = 0
      /\ TextHelper!Positions = TE!Positions /\ DOMAIN TagChars = Systems
  BY DEF Systems, TextHelper!Systems, TE!Systems, TextHelper!JoinedBlank, TE!JoinedBlank,
         TextHelper!Positions, TE!Positions
<1>2. \A p : TextHelper!IsBlank(p) = TE!IsBlank(p)
  BY DEF TextHelper!IsBlank, TE!IsBlank, TextHelper!Blanks, TE!Blanks
<1>3. \A x : TextHelper!Trim(x) = TE!Trim(x)
  BY DEF TextHelper!Trim, TE!Trim, TextHelper!IsBlank, TE!IsBlank, TextHelper!Blanks, TE!Blanks
<1>4. \A t, s, k : TextHelper!NoteOpensAt(t, s, k) = TE!NoteOpensAt(t, s, k)
  BY DEF TextHelper!NoteOpensAt, TE!NoteOpensAt, TextHelper!IsTagAt, TE!IsTagAt,
         TextHelper!ClosingTags, TE!ClosingTags
<1>5. \A t, s, k : TextHelper!EndOfNote(t, s, k) = TE!EndOfNote(t, s, k)
  BY DEF TextHelper!EndOfNote, TE!EndOfNote, TextHelper!IsTagAt, TE!IsTagAt,
         TextHelper!ClosingTags, TE!ClosingTags
<1>6. QED
  BY <1>1, <1>2, <1>3, <1>4, <1>5

\* what joins the blanks,
LEMMA SameNormalize == \A x : TextHelper!Normalize(x) = TE!Normalize(x)
<1> DEFINE Joined(t) ==
      LET kept == {k \in DOMAIN t : rawText[t[k]] \in {Space, LineBreak} =>
                                       ~(rawText[t[k - 1]] \in {Space, LineBreak})}
          place(n) == CHOOSE k \in kept : Cardinality({j \in kept : j <= k}) = n
      IN  [n \in 1..Cardinality(kept) |->
              IF rawText[t[place(n)]] \in {Space, LineBreak} THEN 0 ELSE t[place(n)]]
<1> TAKE x
<1>1. TextHelper!Normalize(x) = Joined(TextHelper!Trim(x))
  BY Zenon DEF TextHelper!Normalize, TextHelper!IsBlank, TextHelper!Blanks, TextHelper!JoinedBlank,
         TextHelper!Cardinality, Cardinality
<1>2. TE!Normalize(x) = Joined(TE!Trim(x))
  BY Zenon DEF TE!Normalize, TE!IsBlank, TE!Blanks, TE!JoinedBlank,
         TE!Cardinality, Cardinality
<1> HIDE DEF Joined
<1>3. QED
  BY <1>1, <1>2, SameHelpers

\* its steps,
LEMMA SameExtraction ==
    /\ TextHelper!Init <=> TE!Init
    /\ TextHelper!Next <=> TE!Next
    /\ TextHelper!vars = TE!vars
<1>1. TextHelper!Init <=> TE!Init
  BY DEF TextHelper!Init, TE!Init, TextHelper!Systems, TE!Systems
<1>2. TextHelper!TakeNote <=> TE!TakeNote
  BY SameHelpers DEF TextHelper!TakeNote, TE!TakeNote
<1>3. TextHelper!CopyCharacter <=> TE!CopyCharacter
  BY SameHelpers DEF TextHelper!CopyCharacter, TE!CopyCharacter
<1>4. TextHelper!NextSystem <=> TE!NextSystem
  BY DEF TextHelper!NextSystem, TE!NextSystem
<1>5. TextHelper!Return <=> TE!Return
  BY SameNormalize DEF TextHelper!Return, TE!Return
<1>6. TextHelper!vars = TE!vars
  BY DEF TextHelper!vars, TE!vars
<1>7. TextHelper!Next <=> TE!Next
  BY <1>2, <1>3, <1>4, <1>5 DEF TextHelper!Next, TE!Next, TextHelper!Returned, TE!Returned,
     TextHelper!vars, TE!vars
<1>8. QED
  BY <1>1, <1>6, <1>7

\* its invariant,
LEMMA SameExtractInv == TextHelper!ExtractInv <=> TE!ExtractInv
<1>1. TextHelper!TypeOK <=> TE!TypeOK
  BY DEF TextHelper!TypeOK, TE!TypeOK, TextHelper!Systems, TE!Systems,
         TextHelper!Positions, TE!Positions, TextHelper!Classes, TE!Classes,
         TextHelper!Blanks, TE!Blanks, TextHelper!JoinedBlank, TE!JoinedBlank
<1>2. /\ TextHelper!InText = TE!InText
      /\ \A s : TextHelper!InNotes(s) = TE!InNotes(s)
  BY DEF TextHelper!InText, TE!InText, TextHelper!InNotes, TE!InNotes
<1>3. \A p : TextHelper!Nowhere(p) <=> TE!Nowhere(p)
  BY <1>2, SameHelpers DEF TextHelper!Nowhere, TE!Nowhere
<1>4. TextHelper!ApartInv <=> TE!ApartInv
  BY <1>2, <1>3, SameHelpers DEF TextHelper!ApartInv, TE!ApartInv
<1>5. \A s : TextHelper!Gone(s) = TE!Gone(s)
  BY <1>3, SameHelpers DEF TextHelper!Gone, TE!Gone
<1>6. TextHelper!TagsInv <=> TE!TagsInv
  BY <1>5, SameHelpers, SameCardinality DEF TextHelper!TagsInv, TE!TagsInv
<1>7. TextHelper!OrderInv <=> TE!OrderInv
  BY <1>2 DEF TextHelper!OrderInv, TE!OrderInv, TextHelper!Ascending, TE!Ascending
<1>8. \A s : TextHelper!NotesInOrder(s) <=> TE!NotesInOrder(s)
  BY DEF TextHelper!NotesInOrder, TE!NotesInOrder, TextHelper!Ascending, TE!Ascending
<1>9. TextHelper!LaterInv <=> TE!LaterInv
  BY SameHelpers DEF TextHelper!LaterInv, TE!LaterInv
<1>10. TextHelper!CopiedInv <=> TE!CopiedInv
  BY SameHelpers DEF TextHelper!CopiedInv, TE!CopiedInv
<1>11. TextHelper!MainTextIsOneLine <=> TE!MainTextIsOneLine
  BY SameHelpers DEF TextHelper!MainTextIsOneLine, TE!MainTextIsOneLine,
         TextHelper!JoinedBlank, TE!JoinedBlank
<1>12. QED
  BY <1>1, <1>4, <1>6, <1>7, <1>8, <1>9, <1>10, <1>11, SameHelpers
     DEF TextHelper!ExtractInv, TE!ExtractInv

\* and of the same pages.
LEMMA SamePagination ==
    /\ Engine!Init <=> PG!Init
    /\ Engine!Next <=> PG!Next
    /\ Engine!SafetyInv <=> PG!SafetyInv
<1> USE DEF Engine!AvailableHeight, PG!AvailableHeight,
            Engine!RemainingHeight, PG!RemainingHeight,
            Engine!CreateNewPage, PG!CreateNewPage,
            Engine!CalculateLineHeight, PG!CalculateLineHeight
<1>1. Engine!Init <=> PG!Init
  BY DEF Engine!Init, PG!Init
<1>2. Engine!Next <=> PG!Next
  BY DEF Engine!Next, PG!Next, Engine!PlaceLine, PG!PlaceLine, Engine!TurnPage, PG!TurnPage,
         Engine!Return, PG!Return, Engine!Returned, PG!Returned, Engine!vars, PG!vars,
         Engine!RemainingNotes, PG!RemainingNotes,
         Engine!AddFootnotesForLine, PG!AddFootnotesForLine,
         Engine!ReserveHeight, PG!ReserveHeight, Engine!AddMainLine, PG!AddMainLine,
         Engine!FitsNext, PG!FitsNext
<1>3. Engine!SafetyInv <=> PG!SafetyInv
  BY DEF Engine!SafetyInv, PG!SafetyInv, Engine!TypeOK, PG!TypeOK,
         Engine!PageType, PG!PageType, Engine!Layout, PG!Layout,
         Engine!LinesOf, PG!LinesOf, Engine!LastOf, PG!LastOf,
         Engine!NotesOnPage, PG!NotesOnPage, Engine!MainTextFits, PG!MainTextFits,
         Engine!LinesInOrder, PG!LinesInOrder, Engine!NumberedInOrder, PG!NumberedInOrder,
         Engine!NotesExactlyOnce, PG!NotesExactlyOnce, Engine!GreedyFit, PG!GreedyFit,
         Engine!PositionsInv, PG!PositionsInv, Engine!NextTooHighFor, PG!NextTooHighFor,
         Engine!OpenPageInv, PG!OpenPageInv, Engine!EmptyPagesInv, PG!EmptyPagesInv,
         Engine!NoteIndexInv, PG!NoteIndexInv, Engine!ReturnedInv, PG!ReturnedInv
<1>4. QED
  BY <1>1, <1>2, <1>3

------------------------------------------------------------------------------
\* What each part keeps, with the composition's names.

\* The extraction's invariant.
LEMMA ExtractionKeeps ==
    /\ TextHelper!Init => TextHelper!ExtractInv
    /\ TextHelper!ExtractInv /\ [TextHelper!Next]_(TextHelper!vars) => TextHelper!ExtractInv'
<1>1. TE!Init => TE!ExtractInv
  BY TE!InvInit, ExtractionAssumed
<1>2. TE!ExtractInv /\ [TE!Next]_(TE!vars) => TE!ExtractInv'
  BY TE!InvStep, ExtractionAssumed
<1>3. (TextHelper!ExtractInv <=> TE!ExtractInv)'
  BY SameExtractInv, PTL
<1>4. (UNCHANGED TextHelper!vars) <=> (UNCHANGED TE!vars)
  BY DEF TextHelper!vars, TE!vars
<1>5. QED
  BY <1>1, <1>2, <1>3, <1>4, SameExtraction, SameExtractInv

\* The engine's.
LEMMA PaginationKeeps ==
    /\ (Engine!Init => Engine!SafetyInv)'
    /\ Engine!SafetyInv /\ (Engine!Next \/ UNCHANGED Engine!vars) => Engine!SafetyInv'
<1>1. PG!Init => PG!SafetyInv
  BY PG!SafetyInit, PaginationAssumed
<1>2. Engine!Init => Engine!SafetyInv
  BY <1>1, SamePagination
<1>3. (Engine!Init => Engine!SafetyInv)'
  BY <1>2, PTL
<1>4. PG!SafetyInv /\ PG!Next => PG!SafetyInv'
  BY PG!SafetyPlace, PG!SafetyTurn, PG!SafetyReturn, PG!SafetyStutter, PaginationAssumed
     DEF PG!Next, PG!Returned
<1>5. PG!SafetyInv /\ UNCHANGED PG!vars => PG!SafetyInv'
  BY PG!SafetyStutter, PaginationAssumed
<1>6. Engine!SafetyInv <=> PG!SafetyInv
  BY SamePagination
<1>7. (Engine!SafetyInv <=> PG!SafetyInv)'
  BY <1>6, PTL
<1>8. (UNCHANGED Engine!vars) <=> (UNCHANGED PG!vars)
  BY DEF Engine!vars, PG!vars
<1>9. QED
  BY <1>3, <1>4, <1>5, <1>6, <1>7, <1>8, SamePagination

------------------------------------------------------------------------------
\* The main text is one line.

\* A text without line breaks is one line, and an empty text none.
LEMMA OneLine ==
    ASSUME NEW L \in Nat
    PROVE  /\ LineLengths(1..L, {}) = IF L = 0 THEN <<>> ELSE <<L>>
           /\ L # 0 => StartOfLine(1..L, {}, 1) = 1
<1>1. (1..L) \ {} = 1..L
  OBVIOUS
<1>2. CASE L = 0
  <2>1. LineStarts(1..L, {}) = {}
    BY <1>1, <1>2 DEF LineStarts
  <2>2. Cardinality(LineStarts(1..L, {})) = 0
    BY <2>1, FS_EmptySet
  <2>3. DOMAIN LineLengths(1..L, {}) = {}
    BY <2>2 DEF LineLengths
  <2>4. LineLengths(1..L, {}) = <<>>
    <3>1. LineLengths(1..L, {}) =
             [n \in 1..0 |-> LineLengths(1..L, {})[n]]
      BY <2>2 DEF LineLengths
    <3>2. QED
      BY <3>1
  <2>5. QED
    BY <1>2, <2>4
<1>3. CASE L # 0
  <2>1. LineStarts(1..L, {}) = {1}
    BY <1>1, <1>3 DEF LineStarts
  <2>2. Cardinality(LineStarts(1..L, {})) = 1
    BY <2>1, FS_Singleton
  <2>3. StartOfLine(1..L, {}, 1) = 1
    <3>1. {j \in {1} : j <= 1} = {1}
      OBVIOUS
    <3>2. Cardinality({j \in {1} : j <= 1}) = 1
      BY <3>1, FS_Singleton
    <3>3. QED
      BY <2>1, <3>2 DEF StartOfLine
  <2> DEFINE ends(n) == 1..(1 + n - 1) \subseteq 1..L /\ 1 + n \notin 1..L
  <2>4. \A n \in 1..L : ends(n) <=> n = L
    BY <1>3
  <2>5. Cardinality(1..L) = L
    BY FS_Interval
  <2>6. (CHOOSE n \in 1..L : ends(n)) = L
    <3>1. L \in 1..L
      BY <1>3
    <3> HIDE DEF ends
    <3>2. QED
      BY <2>4, <3>1
  <2>7. LineLengths(1..L, {}) = [n \in 1..1 |-> LineLengths(1..L, {})[n]]
    BY <2>2 DEF LineLengths
  <2>8. LineLengths(1..L, {})[1] = L
    <3>1. LineLengths(1..L, {})[1] = CHOOSE n \in 1..L : ends(n)
      BY <1>1, <2>2, <2>3, <2>5 DEF LineLengths
    <3>2. QED
      BY <2>6, <3>1
  <2>9. LineLengths(1..L, {}) = <<L>>
    BY <2>7, <2>8
  <2>10. QED
    BY <1>3, <2>3, <2>9
<1>4. QED
  BY <1>2, <1>3

\* Once returned, the main text has the characters that are left of the raw text, in
\* order and but for blanks.
LEMMA MainText ==
    ASSUME ExtractionInv, extracting = "returned"
    PROVE  /\ Len(mainText) \in Nat /\ DOMAIN mainText = 1..Len(mainText)
           /\ mainText # <<>> <=> Len(mainText) # 0
           /\ \E f : TE!StandsFor(f, mainText, builder)
<1>1. mainText = TE!Normalize(builder)
  BY SameNormalize DEF ExtractionInv
<1>2. TE!TypeOK
  BY SameExtractInv DEF ExtractionInv, TE!ExtractInv
<1>3. builder \in Seq(TE!Positions) /\ TE!JoinedBlank \notin TE!Positions
  BY <1>2, TE!TextFacts, ExtractionAssumed DEF TE!TypeOK
<1>4. \E f : TE!StandsFor(f, TE!Normalize(builder), builder)
  BY <1>3, ExtractionAssumed, TE!NormalizeFacts
<1>5. mainText \in Seq(TE!Positions \cup {TE!JoinedBlank})
  BY <1>2 DEF TE!TypeOK
<1>6. /\ Len(mainText) \in Nat /\ DOMAIN mainText = 1..Len(mainText)
      /\ mainText # <<>> <=> Len(mainText) # 0
  BY <1>5
<1>7. QED
  BY <1>1, <1>4, <1>6

\* It is one line, or none, and Split finds the characters where they stand.
LEMMA MainTextIsLine ==
    ASSUME ExtractionInv, extracting = "returned"
    PROVE  /\ LinesOfMain = IF mainText = <<>> THEN <<>> ELSE <<Len(mainText)>>
           /\ mainText # <<>> =>
                 \A c \in 1..Len(mainText) : CharacterOfLine(1, c) = mainText[c]
<1>1. PICK f : TE!StandsFor(f, mainText, builder)
  BY MainText
<1>2. /\ Len(mainText) \in Nat /\ DOMAIN mainText = 1..Len(mainText)
      /\ mainText # <<>> <=> Len(mainText) # 0
  BY MainText
<1>3. MainBreaks = {}
  <2> SUFFICES ASSUME NEW k \in 1..Len(mainText), mainText[k] # 0,
                      rawText[mainText[k]] = LineBreak
               PROVE  FALSE
    BY <1>2, SameHelpers DEF MainBreaks
  <2>1. ~TE!IsBlank(builder[f[k]]) /\ mainText[k] = builder[f[k]]
    BY <1>1, SameHelpers DEF TE!StandsFor
  <2>2. QED
    BY <2>1 DEF TE!IsBlank, TE!Blanks
<1>5. LinesOfMain = IF mainText = <<>> THEN <<>> ELSE <<Len(mainText)>>
  BY <1>2, <1>3, OneLine DEF LinesOfMain
<1>6. ASSUME mainText # <<>>, NEW c \in 1..Len(mainText)
      PROVE  CharacterOfLine(1, c) = mainText[c]
  <2>1. StartOfLine(DOMAIN mainText, MainBreaks, 1) = 1
    BY <1>2, <1>3, <1>6, OneLine
  <2>2. 1 + c - 1 = c
    BY <1>2
  <2>3. QED
    BY <2>1, <2>2 DEF CharacterOfLine
<1>7. QED
  BY <1>5, <1>6

\* What Split hands on is a text the engine may be given.
LEMMA SplitExtracted ==
    ASSUME ExtractionInv, extracting = "returned"
    PROVE  [lines |-> LinesOfMain, notes |-> [s \in Systems |-> Len(results[s])]] \in Extracted
<1>1. LinesOfMain \in Seq(Nat \ {0})
  <2>1. Len(mainText) \in Nat
    BY MainText
  <2>2. \A L \in Nat : L # 0 => <<L>> \in Seq(Nat \ {0})
    OBVIOUS
  <2>3. CASE mainText = <<>>
    BY <2>3, MainTextIsLine
  <2>4. CASE mainText # <<>>
    BY <2>1, <2>2, <2>4, MainText, MainTextIsLine
  <2>5. QED
    BY <2>3, <2>4
<1>2. \A s \in Systems : Len(results[s]) \in Nat
  <2>1. results \in [TE!Systems -> Seq(Seq(TE!Positions))]
    BY SameExtractInv DEF ExtractionInv, TE!ExtractInv, TE!TypeOK
  <2>2. QED
    BY <2>1, SameHelpers
<1>3. QED
  BY <1>1, <1>2 DEF Extracted

------------------------------------------------------------------------------
\* The inductive invariant.

\* Nothing has been extracted or laid out before the first step.
LEMMA InvInit == Init => PaginateInv
<1> SUFFICES ASSUME Init PROVE PaginateInv
  OBVIOUS
<1>1. TextHelper!ExtractInv
  BY ExtractionKeeps DEF Init
<1>2. extracting = "loop" /\ mainText = <<>>
  BY DEF Init, TextHelper!Init
<1>3. ExtractionInv
  BY <1>1, <1>2 DEF ExtractionInv
<1>4. PagesInv
  BY DEF Init, PagesInv
<1>5. QED
  BY <1>3, <1>4 DEF PaginateInv

\* A step of the extraction leaves the raw text alone; the last one, and no other,
\* makes the main text.
LEMMA ExtractionStep ==
    ASSUME ExtractionInv, extracting = "loop", TextHelper!Next
    PROVE  /\ rawText' = rawText
           /\ IF extracting' = "returned"
                THEN /\ i' = i /\ passText' = passText /\ builder' = builder
                     /\ i > Len(passText) /\ mainText' = TextHelper!Normalize(builder)
                ELSE mainText' = <<>>
<1>1. mainText = <<>>
  BY DEF ExtractionInv
<1>2. CASE TextHelper!TakeNote
  BY <1>1, <1>2 DEF TextHelper!TakeNote
<1>3. CASE TextHelper!CopyCharacter
  BY <1>1, <1>3 DEF TextHelper!CopyCharacter
<1>4. CASE TextHelper!NextSystem
  BY <1>1, <1>4 DEF TextHelper!NextSystem
<1>5. CASE TextHelper!Return
  BY <1>5 DEF TextHelper!Return
<1>6. CASE TextHelper!Returned
  BY <1>6 DEF TextHelper!Returned
<1>7. QED
  BY <1>2, <1>3, <1>4, <1>5, <1>6 DEF TextHelper!Next

\* What Normalize makes depends on its argument and on the raw text only.
LEMMA SameMainText ==
    ASSUME rawText' = rawText, builder' = builder
    PROVE  TextHelper!Normalize(builder)' = TextHelper!Normalize(builder)
BY DEF TextHelper!Normalize, TextHelper!Trim, TextHelper!IsBlank

\* A text stays blank or does not become so.
LEMMA SameBlank ==
    ASSUME rawText' = rawText
    PROVE  AllBlank' <=> AllBlank
BY DEF AllBlank, TextHelper!IsBlank

\* Every step keeps the invariant of the extraction.
LEMMA ExtractionInvStep ==
    ASSUME ExtractionInv, [Next]_vars
    PROVE  ExtractionInv'
<1>1. CASE Extract
  <2>1. TextHelper!Next /\ extracting = "loop" /\ ~AllBlank
    BY <1>1 DEF Extract
  <2>2. TextHelper!ExtractInv'
    BY <2>1, ExtractionKeeps DEF ExtractionInv
  <2>3. /\ rawText' = rawText
        /\ IF extracting' = "returned"
             THEN /\ i' = i /\ passText' = passText /\ builder' = builder
                  /\ i > Len(passText) /\ mainText' = TextHelper!Normalize(builder)
             ELSE mainText' = <<>>
    BY <2>1, ExtractionStep
  <2>4. ~AllBlank'
    BY <2>1, <2>3, SameBlank
  <2>5. extracting' = "returned" =>
           i' > Len(passText') /\ mainText' = TextHelper!Normalize(builder)'
    BY <2>3, SameMainText
  <2>6. QED
    BY <2>2, <2>3, <2>4, <2>5 DEF ExtractionInv
<1>2. CASE UNCHANGED extractVars
  <2>1. UNCHANGED TextHelper!vars
    BY <1>2 DEF extractVars, TextHelper!vars
  <2>2. TextHelper!ExtractInv'
    BY <2>1, ExtractionKeeps DEF ExtractionInv
  <2>3. UNCHANGED <<rawText, passText, i, builder, mainText, extracting>>
    BY <1>2 DEF extractVars
  <2>4. /\ TextHelper!Normalize(builder)' = TextHelper!Normalize(builder)
        /\ AllBlank' <=> AllBlank
    BY <2>3, SameMainText, SameBlank
  <2>5. QED
    BY <2>2, <2>3, <2>4 DEF ExtractionInv
<1>3. QED
  BY <1>1, <1>2 DEF Next, ReturnNoPages, Split, LayOut, Returned, vars

\* The lines Split has made stay what they are.
LEMMA SameLines ==
    ASSUME rawText' = rawText, mainText' = mainText
    PROVE  LinesOfMain' = LinesOfMain
<1>1. MainBreaks' = MainBreaks
  BY DEF MainBreaks, TextHelper!JoinedBlank
<1>2. QED
  BY <1>1 DEF LinesOfMain, LineLengths, LineStarts, StartOfLine

\* A step of the engine leaves the text it was given alone, and the engine running or
\* returned.
LEMMA EngineStep ==
    ASSUME Engine!Next
    PROVE  text' = text /\ paginating' \in {"loop", "returned"}
BY DEF Engine!Next, Engine!PlaceLine, Engine!TurnPage, Engine!Return, Engine!Returned,
       Engine!vars

\* Every step keeps the engine either unreached or safe.
LEMMA PagesInvStep ==
    ASSUME PaginateInv, [Next]_vars
    PROVE  PagesInv'
<1>1. ExtractionInv /\ PagesInv
  BY DEF PaginateInv
<1>2. CASE ReturnNoPages
  <2>1. /\ paginating = "not begun" /\ AllBlank /\ paginating' = "returned"
        /\ pages' = pages /\ rawText' = rawText
    BY <1>2 DEF ReturnNoPages, extractVars
  <2>2. pages = <<>>
    BY <1>1, <2>1 DEF PagesInv
  <2>3. AllBlank'
    BY <2>1, SameBlank
  <2>4. QED
    BY <2>1, <2>2, <2>3 DEF PagesInv
<1>3. CASE Extract
  <2>1. /\ paginating = "not begun" /\ paginating' = paginating
        /\ UNCHANGED <<lineIndex, noteIndex, currentPage, pages>>
    BY <1>3 DEF Extract, engineVars
  <2>2. Engine!CreateNewPage(1)' = Engine!CreateNewPage(1)
    BY DEF Engine!CreateNewPage
  <2>3. QED
    BY <1>1, <2>1, <2>2 DEF PagesInv
<1>4. CASE Split
  <2> DEFINE split == [lines |-> LinesOfMain, notes |-> [s \in Systems |-> Len(results[s])]]
  <2>1. /\ paginating = "not begun" /\ extracting = "returned"
        /\ text' = split /\ paginating' = "loop"
        /\ UNCHANGED <<lineIndex, noteIndex, currentPage, pages>>
        /\ UNCHANGED <<rawText, mainText, results, extracting>>
    BY <1>4 DEF Split, extractVars
  <2>2. split \in Extracted
    BY <1>1, <2>1, SplitExtracted
  <2>3. /\ lineIndex = 0 /\ noteIndex = [s \in Systems |-> 0]
        /\ currentPage = Engine!CreateNewPage(1) /\ pages = <<>>
    BY <1>1, <2>1 DEF PagesInv
  <2>4. Engine!CreateNewPage(1)' = Engine!CreateNewPage(1)
    BY DEF Engine!CreateNewPage
  <2>5. Engine!Init'
    <3> HIDE DEF split
    <3>1. QED
      BY <2>1, <2>2, <2>3, <2>4 DEF Engine!Init
  <2>6. Engine!SafetyInv'
    BY <2>5, PaginationKeeps
  <2>7. LinesOfMain' = LinesOfMain
    BY <2>1, SameLines
  <2>8. QED
    BY <2>1, <2>6, <2>7 DEF PagesInv
<1>5. CASE LayOut
  <2>1. paginating = "loop" /\ Engine!Next
    BY <1>5 DEF LayOut
  <2>2. UNCHANGED <<rawText, mainText, results, extracting>>
    BY <1>5 DEF LayOut, extractVars
  <2>3. /\ extracting = "returned" /\ Engine!SafetyInv
        /\ text = [lines |-> LinesOfMain, notes |-> [s \in Systems |-> Len(results[s])]]
    BY <1>1, <2>1 DEF PagesInv
  <2>4. Engine!SafetyInv'
    BY <2>1, <2>3, PaginationKeeps
  <2>5. text' = text /\ paginating' # "not begun"
    BY <2>1, EngineStep
  <2>6. LinesOfMain' = LinesOfMain
    BY <2>2, SameLines
  <2>7. QED
    BY <2>2, <2>3, <2>4, <2>5, <2>6 DEF PagesInv
<1>6. CASE UNCHANGED vars
  <2>1. UNCHANGED engineVars /\ UNCHANGED extractVars
    BY <1>6 DEF vars
  <2>2. UNCHANGED <<rawText, mainText, results, extracting>>
    BY <2>1 DEF extractVars
  <2>3. UNCHANGED <<text, lineIndex, noteIndex, currentPage, pages, paginating>>
    BY <2>1 DEF engineVars
  <2>4. /\ LinesOfMain' = LinesOfMain /\ (AllBlank' <=> AllBlank)
        /\ Engine!CreateNewPage(1)' = Engine!CreateNewPage(1)
    BY <2>2, SameLines, SameBlank DEF Engine!CreateNewPage
  <2>5. Engine!SafetyInv => Engine!SafetyInv'
    BY <2>3, PaginationKeeps DEF Engine!vars
  <2>6. QED
    BY <1>1, <2>2, <2>3, <2>4, <2>5 DEF PagesInv
<1>7. QED
  BY <1>2, <1>3, <1>4, <1>5, <1>6 DEF Next, Returned

\* What each part promises it promises here too: the extraction's inductive invariant
\* holds throughout, and the engine's from the moment Paginate has split the main text.
THEOREM PaginateIsSafe == Spec => []PaginateInv
<1>1. PaginateInv /\ [Next]_vars => PaginateInv'
  BY ExtractionInvStep, PagesInvStep DEF PaginateInv
<1>2. QED
  BY <1>1, InvInit, PTL DEF Spec

\* Paginate runs the extraction as it is: its steps on TextHelper's variables are steps
\* of the extraction, or leave them alone.
THEOREM PaginateRunsExtraction ==
    Spec => TextHelper!Init /\ [][TextHelper!Next]_(TextHelper!vars)
<1>1. Init => TextHelper!Init
  BY DEF Init
<1>2. [Next]_vars => [TextHelper!Next]_(TextHelper!vars)
  <2>1. UNCHANGED extractVars => UNCHANGED TextHelper!vars
    BY DEF extractVars, TextHelper!vars
  <2>2. QED
    BY <2>1 DEF Next, ReturnNoPages, Extract, Split, LayOut, Returned, vars
<1>3. QED
  BY <1>1, <1>2, PTL DEF Spec

------------------------------------------------------------------------------
\* Paginate ends.

\* A page has room for the highest line there is.
LongLineFitsAPage == LineHeight + LineHeight \div 2 <= Engine!AvailableHeight

\* The rounds still to come, at most, of both loops: the main text is one line, so the
\* engine takes no more than three.
RoundsLeft ==
    CASE paginating = "not begun" -> TE!RoundsLeft + 4
      [] paginating = "loop"      -> PG!RoundsLeft
      [] OTHER                    -> 0

\* The extraction's rounds are counted from a number, before a step and after it.
LEMMA ExtractionRounds ==
    (TE!TypeOK => TE!RoundsLeft \in Nat) /\ (TE!TypeOK => TE!RoundsLeft \in Nat)'
<1>1. TE!TypeOK => TE!RoundsLeft \in Nat
  BY TE!RoundsType, ExtractionAssumed
<1>2. QED
  BY <1>1, PTL

\* What the rounds are counted from.
LEMMA RoundsType ==
    ASSUME PaginateInv
    PROVE  /\ TE!RoundsLeft \in Nat
           /\ paginating = "loop" => PG!SafetyInv /\ PG!RoundsLeft \in Nat
           /\ RoundsLeft \in Nat
<1>1. TE!TypeOK
  BY SameExtractInv DEF PaginateInv, ExtractionInv, TE!ExtractInv
<1>2. TE!RoundsLeft \in Nat
  BY <1>1, TE!RoundsType, ExtractionAssumed
<1>3. ASSUME paginating = "loop"
      PROVE  PG!SafetyInv /\ PG!RoundsLeft \in Nat
  <2>1. PG!SafetyInv
    BY <1>3, SamePagination DEF PaginateInv, PagesInv
  <2>2. PG!TypeOK
    BY <2>1 DEF PG!SafetyInv
  <2>3. QED
    BY <2>1, <2>2, PG!RoundsType, PaginationAssumed
<1>4. RoundsLeft \in Nat
  <2>1. TE!RoundsLeft + 4 \in Nat
    BY <1>2
  <2>2. CASE paginating = "not begun"
    BY <2>1, <2>2 DEF RoundsLeft
  <2>3. CASE paginating = "loop"
    BY <1>3, <2>3 DEF RoundsLeft
  <2>4. CASE paginating # "not begun" /\ paginating # "loop"
    BY <2>4 DEF RoundsLeft
  <2>5. QED
    BY <2>2, <2>3, <2>4
<1>5. QED
  BY <1>2, <1>3, <1>4

\* No line is higher than a long one.
LEMMA EveryLineFits ==
    ASSUME PG!TypeOK, LongLineFitsAPage
    PROVE  PG!EveryLineFitsAPage
<1>1. LineHeight \in Nat /\ PG!AvailableHeight \in Int
      /\ Engine!AvailableHeight = PG!AvailableHeight
  BY PageAssumption DEF PG!AvailableHeight, Engine!AvailableHeight
<1>2. \A length : PG!CalculateLineHeight(length) <= PG!AvailableHeight
  BY <1>1, PageAssumption DEF PG!CalculateLineHeight, LongLineFitsAPage
<1>3. QED
  BY <1>2 DEF PG!EveryLineFitsAPage

\* Each step of a part spends a round of that part.
LEMMA RoundIsSpent ==
    ASSUME PaginateInv, LongLineFitsAPage, Next, ~UNCHANGED vars
    PROVE  RoundsLeft' < RoundsLeft
<1>1. /\ TE!RoundsLeft \in Nat
      /\ paginating = "loop" => PG!SafetyInv /\ PG!RoundsLeft \in Nat
  BY RoundsType
<1>2. CASE ReturnNoPages
  <2>1. paginating = "not begun" /\ paginating' = "returned"
    BY <1>2 DEF ReturnNoPages
  <2>2. RoundsLeft = TE!RoundsLeft + 4 /\ RoundsLeft' = 0
    BY <2>1 DEF RoundsLeft
  <2>3. QED
    BY <1>1, <2>2
<1>3. CASE Extract
  <2>1. /\ paginating = "not begun" /\ paginating' = paginating
        /\ TextHelper!Next /\ UNCHANGED engineVars
    BY <1>3 DEF Extract, engineVars
  <2>2. ~UNCHANGED TE!vars
    BY <2>1 DEF TE!vars, vars, extractVars
  <2>3. TE!ExtractInv /\ TE!Next
    BY <2>1, SameExtraction, SameExtractInv DEF PaginateInv, ExtractionInv
  <2>4. TE!RoundsLeft' < TE!RoundsLeft
    BY <2>2, <2>3, TE!RoundIsSpent, ExtractionAssumed
  <2>5. (TE!RoundsLeft)' \in Nat
    <3>1. TE!ExtractInv'
      BY <2>3, TE!InvStep, ExtractionAssumed
    <3>2. TE!TypeOK'
      BY <3>1 DEF TE!ExtractInv
    <3>3. QED
      BY <3>2, ExtractionRounds
  <2>6. RoundsLeft = TE!RoundsLeft + 4 /\ RoundsLeft' = TE!RoundsLeft' + 4
    BY <2>1 DEF RoundsLeft
  <2>7. PICK m : m = TE!RoundsLeft
    OBVIOUS
  <2>8. PICK n : n = TE!RoundsLeft'
    OBVIOUS
  <2>9. m \in Nat /\ n \in Nat /\ n < m
    BY <1>1, <2>4, <2>5, <2>7, <2>8
  <2>10. n + 4 < m + 4
    BY <2>9
  <2>11. QED
    BY <2>6, <2>7, <2>8, <2>10
<1>4. CASE Split
  <2>1. /\ paginating = "not begun" /\ paginating' = "loop" /\ extracting = "returned"
        /\ text'.lines = LinesOfMain
        /\ lineIndex' = lineIndex /\ currentPage' = currentPage
    BY <1>4 DEF Split
  <2>2. lineIndex = 0 /\ currentPage.AllMainLines = <<>>
    <3>1. lineIndex = 0 /\ currentPage = Engine!CreateNewPage(1)
      BY <2>1 DEF PaginateInv, PagesInv
    <3>2. QED
      BY <3>1 DEF Engine!CreateNewPage
  <2>3. Len(text'.lines) \in {0, 1}
    <3>1. LinesOfMain = IF mainText = <<>> THEN <<>> ELSE <<Len(mainText)>>
      BY <2>1, MainTextIsLine DEF PaginateInv
    <3>2. \A L : Len(<<>>) = 0 /\ Len(<<L>>) = 1
      OBVIOUS
    <3>3. QED
      BY <2>1, <3>1, <3>2
  <2>4. PG!RoundsLeft' = 2 * (Len(text'.lines) - 0) + 0 + 1
    BY <2>1, <2>2 DEF PG!RoundsLeft
  <2>5. RoundsLeft = TE!RoundsLeft + 4 /\ RoundsLeft' = PG!RoundsLeft'
    BY <2>1 DEF RoundsLeft
  <2>6. PG!RoundsLeft' = 1 \/ PG!RoundsLeft' = 3
    <3>1. 2 * (0 - 0) + 0 + 1 = 1 /\ 2 * (1 - 0) + 0 + 1 = 3
      OBVIOUS
    <3>2. QED
      BY <2>3, <2>4, <3>1
  <2>7. PICK m : m = TE!RoundsLeft
    OBVIOUS
  <2>8. m \in Nat /\ 3 < m + 4 /\ 1 < m + 4
    BY <1>1, <2>7
  <2>9. QED
    BY <2>5, <2>6, <2>7, <2>8
<1>5. CASE LayOut
  <2>1. paginating = "loop" /\ Engine!Next /\ UNCHANGED extractVars
    BY <1>5 DEF LayOut
  <2>2. ~UNCHANGED PG!vars
    BY <2>1 DEF PG!vars, vars, engineVars
  <2>3. PG!SafetyInv /\ PG!Next /\ PG!RoundsLeft \in Nat
    BY <1>1, <2>1, SamePagination
  <2>4. PG!EveryLineFitsAPage
    BY <2>3, EveryLineFits DEF PG!SafetyInv
  <2>5. PG!RoundsLeft' < PG!RoundsLeft
    BY <2>2, <2>3, <2>4, PG!RoundIsSpent, PaginationAssumed
  <2>6. RoundsLeft = PG!RoundsLeft
    BY <2>1 DEF RoundsLeft
  <2>7. CASE paginating' = "loop"
    BY <2>5, <2>6, <2>7 DEF RoundsLeft
  <2>8. CASE paginating' # "loop"
    <3>1. paginating' = "returned"
      BY <2>1, <2>8, EngineStep
    <3>2. RoundsLeft' = 0
      BY <3>1 DEF RoundsLeft
    <3>3. RoundsLeft # 0
      <4>1. lineIndex <= Len(text.lines) /\ lineIndex \in Nat /\ Len(text.lines) \in Nat
        BY <2>3, PG!RoundsType, PaginationAssumed DEF PG!SafetyInv
      <4>2. PG!RoundsLeft = 2 * (Len(text.lines) - lineIndex)
                              + (IF currentPage.AllMainLines # <<>> THEN 1 ELSE 0) + 1
        BY <2>1 DEF PG!RoundsLeft
      <4>3. \A m, n \in Nat : m <= n => 2 * (n - m) + 1 + 1 # 0 /\ 2 * (n - m) + 0 + 1 # 0
        OBVIOUS
      <4>4. QED
        BY <2>6, <4>1, <4>2, <4>3
    <3>4. QED
      BY <2>3, <2>6, <3>2, <3>3
  <2>9. QED
    BY <2>7, <2>8
<1>6. QED
  BY <1>2, <1>3, <1>4, <1>5 DEF Next, Returned

\* Paginate ends, whatever it is called with, if a page has room for a line: a step that
\* changes something, of either part, leaves fewer rounds to come.
THEOREM PaginateEnds ==
    Spec => /\ [](RoundsLeft \in Nat)
            /\ [][LongLineFitsAPage => RoundsLeft' < RoundsLeft]_vars
<1>1. PaginateInv => RoundsLeft \in Nat
  BY RoundsType
<1>2. PaginateInv /\ [Next]_vars => [LongLineFitsAPage => RoundsLeft' < RoundsLeft]_vars
  BY RoundIsSpent
<1>3. QED
  BY PaginateIsSafe, <1>1, <1>2, PTL DEF Spec

------------------------------------------------------------------------------
\* What has been printed.

\* What Paginate returns for one line is one page, with this line and all notes in
\* order; for none it is no page.
LEMMA OnePage ==
    ASSUME Engine!SafetyInv, paginating = "returned"
    PROVE  /\ text.lines = <<>> => pages = <<>>
           /\ \A L : text.lines = <<L>> =>
                 /\ Len(pages) = 1 /\ DOMAIN pages = {1}
                 /\ pages[1].AllMainLines = <<1>>
                 /\ \A s \in Systems :
                       pages[1].AllFootnotes[s] = [n \in 1..text.notes[s] |-> n]
<1> USE DEF Engine!LinesOf, Engine!LastOf, Engine!NotesOnPage
<1>1. /\ Engine!TypeOK /\ Engine!PositionsInv /\ Engine!LinesInOrder
      /\ Engine!NotesExactlyOnce /\ Engine!EmptyPagesInv /\ Engine!ReturnedInv
  BY DEF Engine!SafetyInv
<1>2. Engine!Layout = pages
  BY DEF Engine!Layout
<1>3. /\ Len(pages) \in Nat /\ DOMAIN pages = 1..Len(pages)
      /\ pages = <<>> <=> Len(pages) = 0
      /\ \A k \in 1..Len(pages) : /\ pages[k].AllMainLines \in Seq(Nat \ {0})
                                  /\ pages[k].AllFootnotes \in [Systems -> Seq(Nat \ {0})]
  <2>1. pages \in Seq(Engine!PageType)
    BY <1>1 DEF Engine!TypeOK
  <2>2. /\ Len(pages) \in Nat /\ DOMAIN pages = 1..Len(pages)
        /\ pages = <<>> <=> Len(pages) = 0
        /\ \A k \in 1..Len(pages) : pages[k] \in Engine!PageType
    BY <2>1
  <2>3. \A page \in Engine!PageType : /\ page.AllMainLines \in Seq(Nat \ {0})
                                     /\ page.AllFootnotes \in [Systems -> Seq(Nat \ {0})]
    BY DEF Engine!PageType
  <2>4. QED
    BY <2>2, <2>3
<1>4. /\ lineIndex = Len(text.lines)
      /\ IF pages = <<>> THEN lineIndex = 0
         ELSE /\ pages[Len(pages)].AllMainLines # <<>>
              /\ pages[Len(pages)].AllMainLines[Len(pages[Len(pages)].AllMainLines)]
                   = lineIndex
  BY <1>1, <1>2 DEF Engine!ReturnedInv
<1>5. \A k \in 1..Len(pages) : pages[k].AllMainLines # <<>>
  BY <1>1, <1>2, <1>3, <1>4 DEF Engine!EmptyPagesInv
<1>6. \A k \in 1..Len(pages) : \A j \in 1..Len(pages[k].AllMainLines) :
         pages[k].AllMainLines[j] \in 1..lineIndex
  BY <1>1, <1>2, <1>3 DEF Engine!PositionsInv
<1>7. ASSUME text.lines = <<>>
      PROVE  pages = <<>>
  <2>1. lineIndex = 0
    BY <1>4, <1>7
  <2>2. \A k \in 1..Len(pages) : FALSE
    BY <1>3, <1>5, <1>6, <2>1
  <2>3. QED
    BY <1>3, <2>2
<1>8. ASSUME NEW L, text.lines = <<L>>
      PROVE  /\ Len(pages) = 1 /\ DOMAIN pages = {1}
             /\ pages[1].AllMainLines = <<1>>
             /\ \A s \in Systems :
                   pages[1].AllFootnotes[s] = [n \in 1..text.notes[s] |-> n]
  <2>1. lineIndex = 1
    BY <1>4, <1>8
  <2>2. \A k \in 1..Len(pages) : \A j \in 1..Len(pages[k].AllMainLines) :
           pages[k].AllMainLines[j] = 1
    BY <1>6, <2>1
  <2>3. ASSUME NEW k \in 1..Len(pages)
        PROVE  pages[k].AllMainLines = <<1>>
    <3>1. PICK q : q = pages[k].AllMainLines
      OBVIOUS
    <3>2. /\ q \in Seq(Nat \ {0}) /\ q # <<>>
          /\ \A j \in 1..Len(q) : q[j] = 1
          /\ \A j \in 1..(Len(q) - 1) : q[j + 1] = q[j] + 1
      <4>1. q \in Seq(Nat \ {0}) /\ q # <<>> /\ \A j \in 1..Len(q) : q[j] = 1
        BY <1>3, <1>5, <2>2, <3>1
      <4>2. \A j \in 1..(Len(q) - 1) : q[j + 1] = q[j] + 1
        <5>1. \A l \in DOMAIN Engine!Layout : \A j \in 1..(Len(Engine!LinesOf(l)) - 1) :
                 Engine!LinesOf(l)[j + 1] = Engine!LinesOf(l)[j] + 1
          BY <1>1 DEF Engine!LinesInOrder
        <5>2. k \in DOMAIN Engine!Layout /\ Engine!LinesOf(k) = q
          BY <1>2, <1>3, <3>1 DEF Engine!LinesOf
        <5>3. QED
          BY <5>1, <5>2
      <4>3. QED
        BY <4>1, <4>2
    <3>3. Len(q) = 1
      <4>1. Len(q) \in Nat /\ Len(q) # 0
        BY <3>2
      <4>2. ASSUME Len(q) > 1
            PROVE  FALSE
        <5>1. 1 \in 1..(Len(q) - 1) /\ 1 \in 1..Len(q) /\ 1 + 1 \in 1..Len(q)
          BY <4>1, <4>2
        <5>2. q[1 + 1] = q[1] + 1 /\ q[1] = 1 /\ q[1 + 1] = 1
          BY <3>2, <5>1
        <5>3. QED
          BY <5>2
      <4>3. QED
        BY <4>1, <4>2
    <3>4. QED
      BY <3>1, <3>2, <3>3
  <2>4. Len(pages) = 1
    <3>1. Len(pages) # 0
      BY <1>3, <1>4, <2>1
    <3>2. ASSUME Len(pages) > 1
          PROVE  FALSE
      <4>1. 1 \in 1..(Len(pages) - 1) /\ 1 \in 1..Len(pages) /\ 1 + 1 \in 1..Len(pages)
        BY <1>3, <3>2
      <4>2. pages[1].AllMainLines = <<1>> /\ pages[1 + 1].AllMainLines = <<1>>
        BY <2>3, <4>1
      <4>3. pages[1 + 1].AllMainLines[1] =
               pages[1].AllMainLines[Len(pages[1].AllMainLines)] + 1
        BY <1>1, <1>2, <1>5, <4>1 DEF Engine!LinesInOrder
      <4>4. QED
        BY <4>2, <4>3
    <3>3. QED
      BY <1>3, <3>1, <3>2
  <2>5. ASSUME NEW s \in Systems
        PROVE  pages[1].AllFootnotes[s] = [n \in 1..text.notes[s] |-> n]
    <3> DEFINE holders == {k \in DOMAIN pages : pages[k].AllFootnotes[s] # <<>>}
    <3>1. IF text.notes[s] = 0 THEN holders = {}
          ELSE \E k \in DOMAIN pages :
                  pages[k].AllFootnotes[s] = [n \in 1..text.notes[s] |-> n]
      BY <1>1, <1>2, <2>1 DEF Engine!NotesExactlyOnce
    <3>2. 1 \in DOMAIN pages /\ DOMAIN pages = {1}
      BY <1>3, <2>4
    <3>3. CASE text.notes[s] = 0
      <4>1. pages[1].AllFootnotes[s] = <<>>
        BY <3>1, <3>2, <3>3
      <4>2. [n \in 1..text.notes[s] |-> n] = <<>>
        BY <3>3
      <4>3. QED
        BY <4>1, <4>2
    <3>4. CASE text.notes[s] # 0
      BY <3>1, <3>2, <3>4
    <3>5. QED
      BY <3>3, <3>4
  <2>6. QED
    BY <1>3, <2>3, <2>4, <2>5
<1>9. QED
  BY <1>7, <1>8

\* Where a letter stands in what the extraction returns: in the main text, or in a note.
InMain(p, c) == c \in 1..Len(mainText) /\ mainText[c] = p

InNote(p, s, m, c) ==
    /\ s \in Systems /\ m \in DOMAIN results[s] /\ c \in DOMAIN results[s][m]
    /\ results[s][m][c] = p

\* The places a letter is printed at are those the extraction left it in.
LEMMA PrintedWhereExtracted ==
    ASSUME PaginateInv, paginating = "returned", extracting = "returned", mainText # <<>>,
           NEW p \in Nat \ {0}
    PROVE  \A x : x \in Printed(p) <=>
                 \/ \E c : InMain(p, c) /\ x = <<1, 0, 1, c>>
                 \/ \E s, m, c : InNote(p, s, m, c) /\ x = <<1, s, m, c>>
<1>1. ExtractionInv /\ Engine!SafetyInv
  <2>1. ExtractionInv /\ PagesInv /\ ~AllBlank
    BY DEF PaginateInv, ExtractionInv
  <2>2. QED
    BY <2>1 DEF PagesInv
<1>2. text = [lines |-> LinesOfMain, notes |-> [s \in Systems |-> Len(results[s])]]
  BY DEF PaginateInv, PagesInv, ExtractionInv
<1>3. text.lines = <<Len(mainText)>>
  BY <1>1, <1>2, MainTextIsLine
<1>4. /\ DOMAIN pages = {1} /\ pages[1].AllMainLines = <<1>>
      /\ \A s \in Systems : pages[1].AllFootnotes[s] = [n \in 1..text.notes[s] |-> n]
  BY <1>1, <1>3, OnePage
<1>5. \A x : x \in PrintedInLines(p) <=> \E c : InMain(p, c) /\ x = <<1, 0, 1, c>>
  <2>1. \A d \in 1..Len(mainText) : CharacterOfLine(1, d) = mainText[d]
    BY <1>1, MainTextIsLine
  <2>2. DOMAIN pages[1].AllMainLines = {1} /\ pages[1].AllMainLines[1] = 1
    BY <1>4
  <2>3. text.lines[1] = Len(mainText)
    BY <1>3
  <2>4. PrintedInLines(p) =
           {<<1, 0, 1, c>> : c \in {d \in 1..text.lines[1] : CharacterOfLine(1, d) = p}}
    BY <1>4, <2>2 DEF PrintedInLines
  <2>5. {d \in 1..text.lines[1] : CharacterOfLine(1, d) = p}
          = {d \in 1..Len(mainText) : mainText[d] = p}
    BY <2>1, <2>3
  <2>6. QED
    BY <2>4, <2>5 DEF InMain
<1>6. ASSUME NEW s \in Systems
      PROVE  /\ DOMAIN pages[1].AllFootnotes[s] = DOMAIN results[s]
             /\ \A m \in DOMAIN results[s] : pages[1].AllFootnotes[s][m] = m
  <2>1. text.notes[s] = Len(results[s])
    BY <1>2
  <2>2. results[s] \in Seq(Seq(TE!Positions))
    BY <1>1, SameExtractInv, SameHelpers DEF ExtractionInv, TE!ExtractInv, TE!TypeOK
  <2>3. DOMAIN results[s] = 1..Len(results[s])
    BY <2>2
  <2>4. QED
    BY <1>4, <2>1, <2>3
<1>7. \A x : x \in PrintedInNotes(p) <=>
               \E s, m, c : InNote(p, s, m, c) /\ x = <<1, s, m, c>>
  <2>1. \A x : x \in PrintedInNotes(p) <=>
                 \E k \in DOMAIN pages : \E s \in Systems :
                    \E m \in DOMAIN pages[k].AllFootnotes[s] :
                       \E c \in DOMAIN results[s][pages[k].AllFootnotes[s][m]] :
                          /\ results[s][pages[k].AllFootnotes[s][m]][c] = p
                          /\ x = <<k, s, m, c>>
    BY DEF PrintedInNotes
  <2>2. ASSUME NEW x, x \in PrintedInNotes(p)
        PROVE  \E s, m, c : InNote(p, s, m, c) /\ x = <<1, s, m, c>>
    <3>1. PICK k \in DOMAIN pages, s \in Systems : \E m \in DOMAIN pages[k].AllFootnotes[s] :
             \E c \in DOMAIN results[s][pages[k].AllFootnotes[s][m]] :
                /\ results[s][pages[k].AllFootnotes[s][m]][c] = p
                /\ x = <<k, s, m, c>>
      BY <2>1, <2>2
    <3>2. k = 1
      BY <1>4
    <3>3. PICK m \in DOMAIN results[s] : \E c \in DOMAIN results[s][m] :
             results[s][m][c] = p /\ x = <<1, s, m, c>>
      BY <1>6, <3>1, <3>2
    <3>4. QED
      BY <3>3 DEF InNote
  <2>3. ASSUME NEW x, NEW s, NEW m, NEW c, InNote(p, s, m, c), x = <<1, s, m, c>>
        PROVE  x \in PrintedInNotes(p)
    <3>1. s \in Systems /\ m \in DOMAIN results[s] /\ c \in DOMAIN results[s][m]
            /\ results[s][m][c] = p
      BY <2>3 DEF InNote
    <3>2. m \in DOMAIN pages[1].AllFootnotes[s] /\ pages[1].AllFootnotes[s][m] = m
      BY <1>6, <3>1
    <3>3. 1 \in DOMAIN pages
      BY <1>4
    <3>4. QED
      BY <2>1, <2>3, <3>1, <3>2, <3>3
  <2>4. QED
    BY <2>2, <2>3
<1>8. QED
  BY <1>5, <1>7 DEF Printed

\* A letter is in one place of what the extraction returns: it is a place of the text
\* around the notes or of one note, and joining the blanks keeps it.
LEMMA ExtractedOnce ==
    ASSUME ExtractionInv, extracting = "returned",
           NEW p \in DOMAIN rawText, rawText[p] = Letter
    PROVE  \/ \E c : /\ InMain(p, c) /\ \A d : InMain(p, d) => d = c
                     /\ \A s, m, d : ~InNote(p, s, m, d)
           \/ \E s, m, c : /\ InNote(p, s, m, c)
                           /\ \A t, n, d : InNote(p, t, n, d) => t = s /\ n = m /\ d = c
                           /\ \A d : ~InMain(p, d)
<1>1. TE!ExtractInv /\ TE!TypeOK /\ TE!ApartInv /\ i > Len(passText)
  BY SameExtractInv DEF ExtractionInv, TE!ExtractInv
<1>2. p \in TE!Positions /\ p \in Nat /\ p # 0
  <2>1. rawText \in Seq(TE!Classes)
    BY <1>1 DEF TE!TypeOK
  <2>2. DOMAIN rawText = 1..Len(rawText) /\ Len(rawText) \in Nat
    BY <2>1
  <2>3. QED
    BY <2>2 DEF TE!Positions
<1>3. PICK x : TE!Places(p) = {x}
  <2>1. ~TE!Nowhere(p)
    BY <1>1, <1>2 DEF TE!ApartInv
  <2>2. QED
    BY <1>1, <1>2, <2>1, TE!OnePlace, ExtractionAssumed
<1>4. ~TE!IsBlank(p)
  BY ExtractionAssumed DEF TE!IsBlank
<1>5. TE!Around = builder /\ Len(builder) \in Nat /\ DOMAIN builder = 1..Len(builder)
  <2>1. /\ Len(builder) \in Nat /\ DOMAIN builder = 1..Len(builder)
        /\ i \in Nat /\ Len(passText) \in Nat
    BY <1>1, TE!TextFacts, ExtractionAssumed
  <2>2. passText \in Seq(TE!Positions) /\ builder \in Seq(TE!Positions)
    BY <1>1 DEF TE!TypeOK
  <2>3. SubSeq(passText, i, Len(passText)) = <<>>
    BY <1>1, <2>1, <2>2
  <2>4. QED
    BY <2>1, <2>2, <2>3 DEF TE!Around, TE!Rest
<1>6. \A y : y \in TE!Places(p) <=> \/ \E k \in 1..Len(builder) :
                                          builder[k] = p /\ y = <<0, 0, k>>
                                   \/ \E s, m, c : InNote(p, s, m, c) /\ y = <<s, m, c>>
  <2>1. \A y : y \in TE!Places(p) <=>
                 \/ \E k \in {j \in 1..Len(builder) : builder[j] = p} : y = <<0, 0, k>>
                 \/ \E s \in Systems : \E m \in DOMAIN results[s] :
                       \E c \in {j \in DOMAIN results[s][m] : results[s][m][j] = p} :
                          y = <<s, m, c>>
    BY <1>5, SameHelpers DEF TE!Places
  <2>2. QED
    BY <2>1 DEF InNote
<1>7. PICK f : TE!StandsFor(f, mainText, builder)
  BY MainText
<1>8. Len(mainText) \in Nat
  BY MainText
<1>9. \A c : InMain(p, c) => f[c] \in 1..Len(builder) /\ builder[f[c]] = p
  BY <1>2, <1>7, SameHelpers DEF InMain, TE!StandsFor
<1>10. \A k \in 1..Len(builder) : builder[k] = p => \E c : InMain(p, c)
  <2> TAKE k \in 1..Len(builder)
  <2> HAVE builder[k] = p
  <2>1. PICK c \in 1..Len(mainText) : f[c] = k
    BY <1>4, <1>7 DEF TE!StandsFor
  <2>2. mainText[c] = p
    BY <1>4, <1>7, <2>1 DEF TE!StandsFor
  <2>3. QED
    BY <2>2 DEF InMain
<1>11. \A s, m, c : InNote(p, s, m, c) => s # 0
  BY RawAssumption, SameHelpers DEF InNote
<1>12. CASE \E k \in 1..Len(builder) : builder[k] = p /\ x = <<0, 0, k>>
  <2>1. PICK k \in 1..Len(builder) : builder[k] = p /\ x = <<0, 0, k>>
    BY <1>12
  <2>2. PICK c : InMain(p, c)
    BY <1>10, <2>1
  <2>3. \A s, m, d : ~InNote(p, s, m, d)
    <3> SUFFICES ASSUME NEW s, NEW m, NEW d, InNote(p, s, m, d) PROVE FALSE
      OBVIOUS
    <3>1. <<s, m, d>> = <<0, 0, k>>
      BY <1>3, <1>6, <2>1
    <3>2. QED
      BY <1>11, <3>1
  <2>4. \A d : InMain(p, d) => f[d] = k
    <3> SUFFICES ASSUME NEW d, InMain(p, d) PROVE f[d] = k
      OBVIOUS
    <3>1. <<0, 0, f[d]>> = <<0, 0, k>>
      BY <1>3, <1>6, <1>9, <2>1
    <3>2. QED
      BY <3>1
  <2>5. \A d : InMain(p, d) => d = c
    <3> SUFFICES ASSUME NEW d, InMain(p, d), d # c PROVE FALSE
      OBVIOUS
    <3>1. c \in 1..Len(mainText) /\ d \in 1..Len(mainText) /\ f[c] = f[d] /\ f[c] \in Nat
      BY <1>9, <2>2, <2>4 DEF InMain
    <3>2. c < d \/ d < c
      BY <1>8, <3>1
    <3>3. \A m, n \in 1..Len(mainText) : m < n => f[m] < f[n]
      BY <1>7 DEF TE!StandsFor
    <3>4. QED
      BY <3>1, <3>2, <3>3
  <2>6. QED
    BY <2>2, <2>3, <2>5
<1>13. CASE \E s, m, c : InNote(p, s, m, c) /\ x = <<s, m, c>>
  <2>1. PICK s, m, c : InNote(p, s, m, c) /\ x = <<s, m, c>>
    BY <1>13
  <2>2. \A t, n, d : InNote(p, t, n, d) => t = s /\ n = m /\ d = c
    <3> SUFFICES ASSUME NEW t, NEW n, NEW d, InNote(p, t, n, d)
                 PROVE  t = s /\ n = m /\ d = c
      OBVIOUS
    <3>1. <<t, n, d>> = <<s, m, c>>
      BY <1>3, <1>6, <2>1
    <3>2. QED
      BY <3>1
  <2>3. \A d : ~InMain(p, d)
    <3> SUFFICES ASSUME NEW d, InMain(p, d) PROVE FALSE
      OBVIOUS
    <3>1. <<0, 0, f[d]>> = <<s, m, c>>
      BY <1>3, <1>6, <1>9, <2>1
    <3>2. QED
      BY <1>11, <2>1, <3>1
  <2>4. QED
    BY <2>1, <2>2, <2>3
<1>14. QED
  BY <1>3, <1>6, <1>12, <1>13

\* Two letters of the main text, or of the notes of one system, stand in the order they
\* were typed in.
LEMMA ExtractedInOrder ==
    ASSUME ExtractionInv, extracting = "returned",
           NEW p \in Nat \ {0}, NEW q \in Nat \ {0}, p < q
    PROVE  /\ \A c, d : InMain(p, c) /\ InMain(q, d) => c < d
           /\ \A s, m, c, n, d :
                 InNote(p, s, m, c) /\ InNote(q, s, n, d) => m < n \/ (m = n /\ c < d)
<1>1. /\ TE!ExtractInv /\ TE!TypeOK
      /\ \A s \in TE!Systems : TE!NotesInOrder(s)
      /\ TE!OrderInv
  BY SameExtractInv DEF ExtractionInv, TE!ExtractInv
<1>2. ASSUME NEW c, NEW d, InMain(p, c), InMain(q, d)
      PROVE  c < d
  <2>1. PICK f : TE!StandsFor(f, mainText, builder)
    BY MainText
  <2>2. Len(mainText) \in Nat /\ c \in 1..Len(mainText) /\ d \in 1..Len(mainText)
    BY <1>2, MainText DEF InMain
  <2>3. /\ f[c] \in 1..Len(builder) /\ builder[f[c]] = p
        /\ f[d] \in 1..Len(builder) /\ builder[f[d]] = q
    BY <1>2, <2>1, SameHelpers DEF InMain, TE!StandsFor
  <2>4. Len(builder) \in Nat /\ DOMAIN builder = 1..Len(builder)
    BY <1>1, TE!TextFacts, ExtractionAssumed
  <2>5. \A j, k \in DOMAIN builder : j < k => builder[j] < builder[k]
    BY <1>1 DEF TE!OrderInv, TE!Ascending
  <2>6. f[c] < f[d]
    <3>1. ~(f[d] < f[c]) /\ f[c] # f[d]
      BY <2>3, <2>4, <2>5
    <3>2. QED
      BY <2>3, <2>4, <3>1
  <2>7. \A m, n \in 1..Len(mainText) : m < n => f[m] < f[n]
    BY <2>1 DEF TE!StandsFor
  <2>8. ~(d < c) /\ c # d
    BY <2>2, <2>3, <2>4, <2>6, <2>7
  <2>9. QED
    BY <2>2, <2>8
<1>3. ASSUME NEW s, NEW m, NEW c, NEW n, NEW d, InNote(p, s, m, c), InNote(q, s, n, d)
      PROVE  m < n \/ (m = n /\ c < d)
  <2>1. /\ s \in TE!Systems
        /\ m \in DOMAIN results[s] /\ c \in DOMAIN results[s][m] /\ results[s][m][c] = p
        /\ n \in DOMAIN results[s] /\ d \in DOMAIN results[s][n] /\ results[s][n][d] = q
    BY <1>3, SameHelpers DEF InNote
  <2>2. /\ results[s] \in Seq(Seq(TE!Positions))
    BY <1>1, <2>1 DEF TE!TypeOK
  <2>3. /\ m \in Nat /\ n \in Nat /\ results[s][m] \in Seq(TE!Positions)
        /\ results[s][n] \in Seq(TE!Positions)
    <3>1. PICK notes : notes = results[s]
      OBVIOUS
    <3>2. /\ notes \in Seq(Seq(TE!Positions)) /\ m \in DOMAIN notes /\ n \in DOMAIN notes
      BY <2>1, <2>2, <3>1
    <3>3. /\ m \in Nat /\ n \in Nat
          /\ notes[m] \in Seq(TE!Positions) /\ notes[n] \in Seq(TE!Positions)
      BY <3>2
    <3>4. QED
      BY <3>1, <3>3
  <2>4. c \in Nat /\ d \in Nat
    BY <2>1, <2>3
  <2>5. /\ \A k \in DOMAIN results[s] : \A a, b \in DOMAIN results[s][k] :
              a < b => results[s][k][a] < results[s][k][b]
        /\ \A k, l \in DOMAIN results[s] : k < l =>
              \A a \in DOMAIN results[s][k], b \in DOMAIN results[s][l] :
                 results[s][k][a] < results[s][l][b]
    BY <1>1, <2>1 DEF TE!NotesInOrder, TE!Ascending
  <2>6. ~(n < m)
    BY <2>1, <2>5
  <2>7. m = n => ~(d < c) /\ c # d
    BY <2>1, <2>5
  <2>8. QED
    BY <2>3, <2>4, <2>6, <2>7
<1>4. QED
  BY <1>2, <1>3

\* From the raw text to the result no letter is lost, printed twice or moved: whatever the
\* text, the number of systems and the size of the pages, each letter is in one place of
\* the pages Paginate returns, in the order typed; except that all are lost if all are
\* in notes.
THEOREM LettersArePrinted == Spec => []LettersPrinted
<1>1. ASSUME PaginateInv, paginating = "returned"
      PROVE  LettersPrinted
  <2>1. ExtractionInv /\ PagesInv
    BY <1>1 DEF PaginateInv
  <2>2. rawText \in Seq(TE!Classes)
    BY <2>1, SameExtractInv DEF ExtractionInv, TE!ExtractInv, TE!TypeOK
  <2>3. DOMAIN rawText \in SUBSET (Nat \ {0})
    BY <2>2
  <2> DEFINE letters == {p \in DOMAIN rawText : rawText[p] = Letter}
  <2>4. CASE AllBlank
    <3>1. letters = {}
      BY <2>4, RawAssumption DEF AllBlank, TextHelper!IsBlank
    <3>2. QED
      BY <3>1 DEF LettersPrinted
  <2>5. CASE ~AllBlank /\ mainText = <<>>
    <3>1. extracting = "returned" /\ Engine!SafetyInv /\ text.lines = LinesOfMain
      BY <1>1, <2>1, <2>5 DEF PagesInv
    <3>2. pages = <<>>
      BY <1>1, <2>1, <2>5, <3>1, MainTextIsLine, OnePage
    <3>3. \A p : Printed(p) = {}
      BY <3>2 DEF Printed, PrintedInLines, PrintedInNotes
    <3>4. QED
      BY <2>5, <3>3, FS_EmptySet DEF LettersPrinted
  <2>6. CASE ~AllBlank /\ mainText # <<>>
    <3>1. extracting = "returned"
      BY <1>1, <2>1, <2>6 DEF PagesInv
    <3>2. \A p \in DOMAIN rawText : \A x :
             x \in Printed(p) <=> \/ \E c : InMain(p, c) /\ x = <<1, 0, 1, c>>
                                  \/ \E s, m, c : InNote(p, s, m, c) /\ x = <<1, s, m, c>>
      BY <1>1, <2>3, <2>6, <3>1, PrintedWhereExtracted
    <3>3. ASSUME NEW p \in letters
          PROVE  Cardinality(Printed(p)) = 1
      <4>1. \/ \E c : /\ InMain(p, c) /\ \A d : InMain(p, d) => d = c
                      /\ \A s, m, d : ~InNote(p, s, m, d)
            \/ \E s, m, c : /\ InNote(p, s, m, c)
                            /\ \A t, n, d : InNote(p, t, n, d) => t = s /\ n = m /\ d = c
                            /\ \A d : ~InMain(p, d)
        BY <2>1, <3>1, ExtractedOnce
      <4>2. \E x : Printed(p) = {x}
        <5>1. CASE \E c : /\ InMain(p, c) /\ \A d : InMain(p, d) => d = c
                          /\ \A s, m, d : ~InNote(p, s, m, d)
          <6>1. PICK c : /\ InMain(p, c) /\ \A d : InMain(p, d) => d = c
                         /\ \A s, m, d : ~InNote(p, s, m, d)
            BY <5>1
          <6>2. Printed(p) = {<<1, 0, 1, c>>}
            BY <3>2, <6>1
          <6>3. QED
            BY <6>2
        <5>2. CASE \E s, m, c : /\ InNote(p, s, m, c)
                                /\ \A t, n, d : InNote(p, t, n, d) => t = s /\ n = m /\ d = c
                                /\ \A d : ~InMain(p, d)
          <6>1. PICK s, m, c : /\ InNote(p, s, m, c)
                               /\ \A t, n, d : InNote(p, t, n, d) => t = s /\ n = m /\ d = c
                               /\ \A d : ~InMain(p, d)
            BY <5>2
          <6>2. Printed(p) = {<<1, s, m, c>>}
            BY <3>2, <6>1
          <6>3. QED
            BY <6>2
        <5>3. QED
          BY <4>1, <5>1, <5>2
      <4>3. QED
        BY <4>2, FS_Singleton
    <3>4. ASSUME NEW p \in letters, NEW q \in letters, p < q,
                 NEW a \in Printed(p), NEW b \in Printed(q), a[2] = b[2]
          PROVE  ReadBefore(a, b)
      <4>1. /\ \A c, d : InMain(p, c) /\ InMain(q, d) => c < d
            /\ \A s, m, c, n, d :
                  InNote(p, s, m, c) /\ InNote(q, s, n, d) => m < n \/ (m = n /\ c < d)
        BY <2>1, <2>3, <3>1, <3>4, ExtractedInOrder
      <4>2. \A r, s, m, c : InNote(r, s, m, c) => s # 0
        BY RawAssumption DEF InNote, Systems, TextHelper!Systems
      <4>3. CASE \E c : InMain(p, c) /\ a = <<1, 0, 1, c>>
        <5>1. PICK c : InMain(p, c) /\ a = <<1, 0, 1, c>>
          BY <4>3
        <5>2. PICK d : InMain(q, d) /\ b = <<1, 0, 1, d>>
          BY <3>2, <3>4, <4>2, <5>1
        <5>3. QED
          BY <4>1, <5>1, <5>2 DEF ReadBefore
      <4>4. CASE \E s, m, c : InNote(p, s, m, c) /\ a = <<1, s, m, c>>
        <5>1. PICK s, m, c : InNote(p, s, m, c) /\ a = <<1, s, m, c>>
          BY <4>4
        <5>2. PICK n, d : InNote(q, s, n, d) /\ b = <<1, s, n, d>>
          BY <3>2, <3>4, <4>2, <5>1
        <5>3. m < n \/ (m = n /\ c < d)
          BY <4>1, <5>1, <5>2
        <5>4. QED
          BY <5>1, <5>2, <5>3 DEF ReadBefore
      <4>5. QED
        BY <3>2, <4>3, <4>4
    <3>5. QED
      BY <2>6, <3>3, <3>4 DEF LettersPrinted
  <2>7. QED
    BY <2>4, <2>5, <2>6
<1>2. PaginateInv => LettersPrinted
  BY <1>1 DEF LettersPrinted
<1>3. QED
  BY <1>2, PaginateIsSafe, PTL

=============================================================================
