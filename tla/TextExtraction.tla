--------------------------- MODULE TextExtraction ---------------------------
(***************************************************************************)
(* TextHelper.ExtractContentAndFootnotes: the notes between $$, %% and &&  *)
(* are taken out of a raw text, one system after the other, each from what *)
(* the previous system left; then the blanks of the rest are joined.       *)
(*                                                                         *)
(* A character is known by its position in the raw text, and its class is  *)
(* rawText[position].  One step is one round of the loop of ExtractByTag.  *)
(* Indices are those of the code plus one.                                 *)
(*                                                                         *)
(* A definition introduced by "Slip" is not part of the model: it is the   *)
(* next definition with a plausible mistake in it, kept to show that the   *)
(* properties below notice the mistake.                                    *)
(***************************************************************************)
EXTENDS Naturals, Sequences, FiniteSets

CONSTANTS
    Letter,         \* any character that is neither a blank nor a tag's
    Space,          \* white space within a line
    LineBreak,      \* \r, \n
    TagChars,       \* the character of each system's tag: $, %, &
    RawTexts        \* the texts the user may type, as sequences of classes

Blanks == {Space, LineBreak}

Classes == {Letter} \cup Blanks \cup {TagChars[s] : s \in DOMAIN TagChars}

ASSUME ClassesAssumption ==
    /\ TagChars \in Seq(Classes) /\ TagChars # <<>>
    /\ \A s, t \in DOMAIN TagChars : TagChars[s] = TagChars[t] => s = t
    /\ Letter \notin Blanks /\ Space # LineBreak
    /\ \A s \in DOMAIN TagChars : TagChars[s] \notin {Letter} \cup Blanks

ASSUME RawTextsAssumption == RawTexts \subseteq Seq(Classes)

Systems == DOMAIN TagChars

\* The single space the blanks between two words are replaced by.
JoinedBlank == 0

VARIABLES
    rawText,        \* rawText
    system,         \* the system whose tag is being looked for
    text,           \* the parameter of this call of ExtractByTag
    i,              \* its loop index
    builder,        \* what it has copied so far
    results,        \* footnotesA, footnotesB, footnotesC
    mainText,       \* the main text returned
    pc              \* "loop" while the method runs, "returned" after it

vars == <<rawText, system, text, i, builder, results, mainText, pc>>

------------------------------------------------------------------------------
IsBlank(p) == rawText[p] \in Blanks

\* Trim takes the blanks off both ends.
Trim(s) ==
    LET solid == {k \in DOMAIN s : ~IsBlank(s[k])}
        first == CHOOSE k \in solid : \A j \in solid : k <= j
        last  == CHOOSE k \in solid : \A j \in solid : k >= j
    IN  IF solid = {} THEN <<>> ELSE SubSeq(s, first, last)

\* Is the tag of system s at index k of a text?
IsTagAt(t, s, k) ==
    /\ k + 1 <= Len(t)
    /\ rawText[t[k]] = TagChars[s]
    /\ rawText[t[k + 1]] = TagChars[s]

\* Where the tag occurs again, after the one that opens at k.
ClosingTags(t, s, k) == {e \in (k + 2)..Len(t) : IsTagAt(t, s, e)}

\* A note opens at k: its tag is there, and there is one that closes it.
NoteOpensAt(t, s, k) == IsTagAt(t, s, k) /\ ClosingTags(t, s, k) # {}

\* IndexOf returns the first closing tag.
EndOfNote(t, s, k) ==
    CHOOSE e \in ClosingTags(t, s, k) : \A f \in ClosingTags(t, s, k) : e <= f

\* Slip: a line break is not taken for white space.
NormalizeSpacesOnly(s) ==
    LET trimmed == Trim(s)
        isSpace(k) == rawText[trimmed[k]] = Space
        kept == {k \in DOMAIN trimmed : isSpace(k) => ~isSpace(k - 1)}
        place(n) == CHOOSE k \in kept : Cardinality({j \in kept : j <= k}) = n
    IN  [n \in 1..Cardinality(kept) |->
            IF isSpace(place(n)) THEN JoinedBlank ELSE trimmed[place(n)]]

\* Every run of blanks, line breaks included, becomes one space; Trim.
Normalize(s) ==
    LET trimmed == Trim(s)
        kept == {k \in DOMAIN trimmed :
                    IsBlank(trimmed[k]) => ~IsBlank(trimmed[k - 1])}
        place(n) == CHOOSE k \in kept : Cardinality({j \in kept : j <= k}) = n
    IN  [n \in 1..Cardinality(kept) |->
            IF IsBlank(trimmed[place(n)]) THEN JoinedBlank ELSE trimmed[place(n)]]

------------------------------------------------------------------------------
\* ExtractByTag is called for the first system.
Init ==
    /\ rawText \in RawTexts
    /\ system = 1
    /\ text = [p \in 1..Len(rawText) |-> p]
    /\ i = 1
    /\ builder = <<>>
    /\ results = [s \in Systems |-> <<>>]
    /\ mainText = <<>>
    /\ pc = "loop"

\* Slip: the loop goes on inside the closing tag.
TakeNoteHalfTag ==
    /\ pc = "loop" /\ i <= Len(text)
    /\ NoteOpensAt(text, system, i)
    /\ LET end == EndOfNote(text, system, i)
       IN  /\ results' = [results EXCEPT ![system] =
                            Append(@, Trim(SubSeq(text, i + 2, end - 1)))]
           /\ i' = end + 1
    /\ UNCHANGED <<rawText, system, text, builder, mainText, pc>>

\* Slip: the closing tag is looked for by the caller's next round.
TakeNoteStandingStill ==
    /\ pc = "loop" /\ i <= Len(text)
    /\ NoteOpensAt(text, system, i)
    /\ UNCHANGED vars

\* Slip: the newest note comes first.
TakeNoteInFront ==
    /\ pc = "loop" /\ i <= Len(text)
    /\ NoteOpensAt(text, system, i)
    /\ LET end == EndOfNote(text, system, i)
       IN  /\ results' = [results EXCEPT ![system] =
                            <<Trim(SubSeq(text, i + 2, end - 1))>> \o @]
           /\ i' = end + 2
    /\ UNCHANGED <<rawText, system, text, builder, mainText, pc>>

\* A note opens here: it is added to the results and left out of the text.
TakeNote ==
    /\ pc = "loop" /\ i <= Len(text)
    /\ NoteOpensAt(text, system, i)
    /\ LET end == EndOfNote(text, system, i)
       IN  /\ results' = [results EXCEPT ![system] =
                            Append(@, Trim(SubSeq(text, i + 2, end - 1)))]
           /\ i' = end + 2
    /\ UNCHANGED <<rawText, system, text, builder, mainText, pc>>

\* Any other character is copied, the ones of a tag that nothing closes too.
CopyCharacter ==
    /\ pc = "loop" /\ i <= Len(text)
    /\ ~NoteOpensAt(text, system, i)
    /\ builder' = Append(builder, text[i])
    /\ i' = i + 1
    /\ UNCHANGED <<rawText, system, text, results, mainText, pc>>

\* Slip: the next system is looked for in the raw text again.
NextSystemFromRaw ==
    /\ pc = "loop" /\ i > Len(text) /\ system < Len(TagChars)
    /\ system' = system + 1
    /\ text' = [p \in 1..Len(rawText) |-> p]
    /\ i' = 1
    /\ builder' = <<>>
    /\ UNCHANGED <<rawText, results, mainText, pc>>

\* Slip: one system too many is looked for.
NextSystemTooOften ==
    /\ pc = "loop" /\ i > Len(text) /\ system <= Len(TagChars)
    /\ system' = system + 1
    /\ text' = builder
    /\ i' = 1
    /\ builder' = <<>>
    /\ UNCHANGED <<rawText, results, mainText, pc>>

\* ExtractByTag returns and is called for the next system with what it left.
NextSystem ==
    /\ pc = "loop" /\ i > Len(text) /\ system < Len(TagChars)
    /\ system' = system + 1
    /\ text' = builder
    /\ i' = 1
    /\ builder' = <<>>
    /\ UNCHANGED <<rawText, results, mainText, pc>>

\* ExtractByTag returns for the last system and the blanks are joined.
Return ==
    /\ pc = "loop" /\ i > Len(text) /\ system = Len(TagChars)
    /\ mainText' = Normalize(builder)
    /\ pc' = "returned"
    /\ UNCHANGED <<rawText, system, text, i, builder, results>>

\* The caller has the result: nothing more happens.
Returned == pc = "returned" /\ UNCHANGED vars

Next == TakeNote \/ CopyCharacter \/ NextSystem \/ Return \/ Returned

\* The loops run on the caller's thread and are never abandoned.
Spec == Init /\ [][Next]_vars /\ WF_vars(Next)

------------------------------------------------------------------------------
\* Type invariant.

Positions == 1..Len(rawText)

\* Every variable has its type, and the index stays inside its text, one past
\* the end included.
TypeOK ==
    /\ rawText \in Seq(Classes)
    /\ system \in Systems
    /\ text \in Seq(Positions)
    /\ i \in 1..(Len(text) + 1)
    /\ builder \in Seq(Positions)
    /\ results \in [Systems -> Seq(Seq(Positions))]
    /\ mainText \in Seq(Positions \cup {JoinedBlank})
    /\ pc \in {"loop", "returned"}

------------------------------------------------------------------------------
\* Safety.

\* What is still to be read in this call.
Rest == SubSeq(text, i, Len(text))

\* Where a character may be found, as <<system, note, index>> for the notes and
\* <<0, 0, index>> for the text around them.
Around == builder \o Rest

Places(p) ==
    LET around == Around
    IN  {<<0, 0, k>> : k \in {j \in DOMAIN around : around[j] = p}}
          \cup UNION {UNION {{<<s, n, k>> : k \in {j \in DOMAIN results[s][n] :
                                                      results[s][n][j] = p}}
                             : n \in DOMAIN results[s]} : s \in Systems}

\* No letter is lost or duplicated by the three passes: each is in one note or
\* in the text around the notes, once.
LettersKept ==
    \A p \in Positions :
        rawText[p] = Letter => Cardinality(Places(p)) = 1

\* Tags are consumed two at a time, one pair of each per note: every other tag
\* character stays somewhere, those of unclosed tags and of other systems
\* inside a note included.
TagsGoInPairs ==
    \A s \in Systems :
        Cardinality({p \in Positions : rawText[p] = TagChars[s] /\ Places(p) = {}})
            = 4 * Len(results[s])

\* A sequence of positions in reading order.
Ascending(s) == \A j, k \in DOMAIN s : j < k => s[j] < s[k]

\* The notes of a system are in reading order, each in itself and one after the
\* other.
NotesInOrder(s) ==
    /\ \A n \in DOMAIN results[s] : Ascending(results[s][n])
    /\ \A n, m \in DOMAIN results[s] :
          n < m => \A j \in DOMAIN results[s][n], k \in DOMAIN results[s][m] :
                      results[s][n][j] < results[s][m][k]

\* Nothing changes places: neither the text around the notes nor the notes of a
\* system.
ReadingOrder == Ascending(Around) /\ \A s \in Systems : NotesInOrder(s)

\* A pass leaves no note of its own system behind: taking a note out never
\* joins the characters around it to a tag that the same pass has gone past.
PassLeavesNoNote ==
    i > Len(text) =>
        \A k \in DOMAIN builder : ~NoteOpensAt(builder, system, k)

\* The main text has its words apart by single spaces: there is no other white
\* space in it, a line break neither, no two spaces are side by side, and none is
\* at an end.  Every text comes back as one line.
MainTextIsOneLine ==
    \A k \in DOMAIN mainText :
        IF mainText[k] = JoinedBlank
          THEN k \notin {1, Len(mainText)} /\ mainText[k + 1] # JoinedBlank
          ELSE ~IsBlank(mainText[k])

\* Each pass leaves a text clean of the notes it looked for, and the last one a main
\* text clean of line breaks and of the doubled blanks that notes cut out of it leave.
CleanText == PassLeavesNoNote /\ MainTextIsOneLine

\* The method's comment: raw text is separated into main content and notes.
\* No note of any system is left in the main content.
MainContentHasNoNotes ==
    pc = "returned" =>
        \A s \in Systems, k \in DOMAIN builder : ~NoteOpensAt(builder, s, k)

------------------------------------------------------------------------------
\* What has to be known of a state for the next step to keep the above.

\* The positions in the text around the notes, and in the notes of system s.
InText == {builder[k] : k \in DOMAIN builder} \cup {text[k] : k \in i..Len(text)}

InNotes(s) ==
    UNION {{results[s][n][k] : k \in DOMAIN results[s][n]} : n \in DOMAIN results[s]}

\* A position that stands nowhere any more.
Nowhere(p) == p \notin InText /\ \A s \in Systems : p \notin InNotes(s)

\* The text of a call is in reading order, and what has been copied stands before
\* what is still to be read, and so do the notes of this call.
OrderInv ==
    /\ Ascending(text) /\ Ascending(builder)
    /\ \A a \in i..Len(text) :
          /\ \A k \in DOMAIN builder : builder[k] < text[a]
          /\ \A p \in InNotes(system) : p < text[a]

\* The passes to come have not taken anything.
LaterInv == \A s \in Systems : s > system => results[s] = <<>>

\* A position is in the text or in the notes of one system, and a letter somewhere.
ApartInv ==
    /\ \A s \in Systems : InNotes(s) \cap InText = {}
    /\ \A s, t \in Systems : s # t => InNotes(s) \cap InNotes(t) = {}
    /\ \A p \in Positions : rawText[p] = Letter => ~Nowhere(p)

\* The tag characters of system s that have been taken out.
Gone(s) == {p \in Positions : rawText[p] = TagChars[s] /\ Nowhere(p)}

TagsInv == \A s \in Systems : Cardinality(Gone(s)) = 4 * Len(results[s])

\* What is copied did not open a note.  It comes from just before the index, or
\* from just before a note; and two characters of the tag that have been copied one
\* after the other stood so in the text as well.
CopiedInv ==
    /\ \A k \in DOMAIN builder :
          \E a \in 1..(i - 1) : text[a] = builder[k] /\ ~NoteOpensAt(text, system, a)
    /\ builder # <<>> =>
          \E a \in 1..(i - 1) :
             /\ text[a] = builder[Len(builder)]
             /\ a = i - 1 \/ (a + 1 < i /\ NoteOpensAt(text, system, a + 1))
    /\ \A k \in 1..(Len(builder) - 1) :
          rawText[builder[k]] = TagChars[system]
            /\ rawText[builder[k + 1]] = TagChars[system] =>
               \E a \in 1..(i - 2) :
                  text[a] = builder[k] /\ text[a + 1] = builder[k + 1]

\* The inductive invariant.
ExtractInv ==
    /\ TypeOK
    /\ OrderInv
    /\ LaterInv
    /\ ApartInv
    /\ TagsInv
    /\ CopiedInv
    /\ MainTextIsOneLine
    /\ \A s \in Systems : NotesInOrder(s)

=============================================================================
