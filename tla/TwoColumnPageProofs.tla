------------------------- MODULE TwoColumnPageProofs --------------------------
(***************************************************************************)
(* That DrawTwoColumnPage draws the page, for every page, any width of a   *)
(* column of notes and any height of its rows.  What is drawn in one go is *)
(* a piece of the canvas; for each piece it is shown which lines and notes *)
(* it has, and that it is below the height at which it begins.             *)
(***************************************************************************)
EXTENDS TwoColumnPage, DataLemmas

------------------------------------------------------------------------------
\* Types.

\* The columns of the page and its notes are sequences of numbers.
LEMMA PageTypes ==
    ASSUME TypeOK
    PROVE  /\ \A column \in Columns :
                 /\ page.main[column] \in Seq(Nat)
                 /\ Len(page.main[column]) \in Nat
                 /\ DOMAIN page.main[column] = 1..Len(page.main[column])
           /\ \A system \in SystemNames :
                 /\ page.notes[system] \in Seq(Nat \ {0})
                 /\ NoteCount(system) \in Nat
                 /\ DOMAIN page.notes[system] = 1..NoteCount(system)
<1>1. page \in PageModel
  BY PageModelsAssumption DEF TypeOK
<1>2. page.main \in [Columns -> Seq(Nat)] /\ page.notes \in [SystemNames -> Seq(Nat \ {0})]
  BY <1>1 DEF PageModel
<1>3. ASSUME NEW column \in Columns
      PROVE  /\ page.main[column] \in Seq(Nat)
             /\ Len(page.main[column]) \in Nat
             /\ DOMAIN page.main[column] = 1..Len(page.main[column])
  <2>1. page.main[column] \in Seq(Nat)
    BY <1>2
  <2>2. QED
    BY <2>1
<1>4. ASSUME NEW system \in SystemNames
      PROVE  /\ page.notes[system] \in Seq(Nat \ {0})
             /\ NoteCount(system) \in Nat
             /\ DOMAIN page.notes[system] = 1..NoteCount(system)
  <2>1. page.notes[system] \in Seq(Nat \ {0})
    BY <1>2
  <2>2. QED
    BY <2>1 DEF NoteCount
<1>5. QED
  BY <1>3, <1>4

\* What an element is, by what it shows.
LEMMA ElementFacts ==
    ASSUME NEW e \in ElementType
    PROVE  /\ e.top \in Nat /\ e.bottom \in Nat
           /\ e.what = "line" => e.item.line \in Nat
           /\ e.what = "run on" => e.item.entries \in Seq(EntryType)
<1> DEFINE R == [what : {"run on"}, column : Columns,
                 item : [system : SystemNames, entries : Seq(EntryType)],
                 top : Nat, bottom : Nat]
           L == [what : {"line"}, column : Columns, item : [line : Nat],
                 top : Nat, bottom : Nat]
           P == [what : {"number", "header"}, column : {"whole"}, item : [part : Nat],
                 top : Nat, bottom : Nat]
           Q == [what : {"separator", "title"}, column : {"whole"},
                 item : [system : SystemNames], top : Nat, bottom : Nat]
<1>1. e \in P \/ e \in L \/ e \in Q \/ e \in R
  BY DEF ElementType
<1>2. CASE e \in P
  BY <1>2
<1>3. CASE e \in L
  BY <1>3
<1>4. CASE e \in Q
  BY <1>4
<1>5. CASE e \in R
  BY <1>5
<1> HIDE DEF P, L, Q, R
<1>6. QED
  BY <1>1, <1>2, <1>3, <1>4, <1>5

\* The elements the method makes are elements.
LEMMA ElementsMade ==
    ASSUME NEW top \in Nat, NEW height \in Nat
    PROVE  /\ \A part \in Nat :
                 /\ Element("number", "whole", [part |-> part], top, height) \in ElementType
                 /\ Element("header", "whole", [part |-> part], top, height) \in ElementType
           /\ \A column \in Columns, k \in Nat :
                 Element("line", column, [line |-> k], top, height) \in ElementType
           /\ \A system \in SystemNames :
                 /\ Element("separator", "whole", [system |-> system], top, height)
                       \in ElementType
                 /\ Element("title", "whole", [system |-> system], top, height)
                       \in ElementType
           /\ \A column \in Columns, system \in SystemNames, run \in Seq(EntryType) :
                 Element("run on", column, [system |-> system, entries |-> run], top, height)
                       \in ElementType
<1>1. top + height \in Nat
  OBVIOUS
<1>2. \A part \in Nat :
         /\ Element("number", "whole", [part |-> part], top, height) \in ElementType
         /\ Element("header", "whole", [part |-> part], top, height) \in ElementType
  BY <1>1 DEF Element, ElementType
<1>3. \A column \in Columns, k \in Nat :
         Element("line", column, [line |-> k], top, height) \in ElementType
  BY <1>1 DEF Element, ElementType
<1>4. \A system \in SystemNames :
         /\ Element("separator", "whole", [system |-> system], top, height) \in ElementType
         /\ Element("title", "whole", [system |-> system], top, height) \in ElementType
  BY <1>1 DEF Element, ElementType
<1>5. \A column \in Columns, system \in SystemNames, run \in Seq(EntryType) :
         Element("run on", column, [system |-> system, entries |-> run], top, height)
             \in ElementType
  BY <1>1 DEF Element, ElementType
<1>6. QED
  BY <1>2, <1>3, <1>4, <1>5

\* A marker is one of those there are.
LEMMA MarkerTypes ==
    ASSUME NEW system \in SystemNames, NEW index \in Nat
    PROVE  Marker(system, index) \in MarkerType
<1>1. CASE system = "A"
  <2>1. index < 20 => index \in 0..19
    OBVIOUS
  <2>2. index + 1 \in Nat
    OBVIOUS
  <2>3. GetHebrewLetter(index) \in MarkerType
    BY <2>1, <2>2 DEF GetHebrewLetter, MarkerType
  <2>4. QED
    BY <1>1, <2>3 DEF Marker
<1>2. CASE system = "B"
  <2>1. <<"number", index + 1>> \in MarkerType
    BY DEF MarkerType
  <2>2. QED
    BY <1>2, <2>1 DEF Marker
<1>3. CASE system = "C"
  <2>1. index % 7 \in 0..6
    OBVIOUS
  <2>2. GetSymbolMarker(index) \in MarkerType
    BY <2>1 DEF GetSymbolMarker, MarkerType
  <2>3. QED
    BY <1>3, <2>2 DEF Marker
<1>4. QED
  BY <1>1, <1>2, <1>3 DEF SystemNames

\* A column of notes is a sequence of entries.
LEMMA RunOnTypes ==
    ASSUME NEW system \in SystemNames, NEW start \in Nat, NEW count \in Nat
    PROVE  /\ RunOn(system, start, count) \in Seq(EntryType)
           /\ Len(RunOn(system, start, count)) = count
           /\ DOMAIN RunOn(system, start, count) = 1..count
           /\ \A i \in 1..count :
                 RunOn(system, start, count)[i]
                    = [note |-> start + i, marker |-> Marker(system, start + i - 1)]
<1>1. \A i \in 1..count : start + i \in Nat /\ start + i - 1 \in Nat
  OBVIOUS
<1>2. \A i \in 1..count : Marker(system, start + i - 1) \in MarkerType
  BY <1>1, MarkerTypes
<1>3. \A i \in 1..count :
         [note |-> start + i, marker |-> Marker(system, start + i - 1)] \in EntryType
  BY <1>1, <1>2 DEF EntryType
<1>4. QED
  BY <1>3 DEF RunOn

\* The two columns of a system have half of its notes each.
LEMMA ColumnTypes ==
    ASSUME TypeOK, NEW system \in SystemNames
    PROVE  \E half \in 0..NoteCount(system) :
              /\ RunOnColumns(system)["right"] = RunOn(system, 0, half)
              /\ RunOnColumns(system)["left"]
                    = RunOn(system, half, NoteCount(system) - half)
              /\ NoteCount(system) - half \in Nat
<1>1. PICK n : n = NoteCount(system)
  OBVIOUS
<1>2. n \in Nat
  BY <1>1, PageTypes
<1>3. PICK half : half = (n + 1) \div 2
  OBVIOUS
<1>4. half \in 0..n /\ n - half \in Nat
  BY <1>2, <1>3
<1>5. /\ RunOnColumns(system)["right"] = RunOn(system, 0, half)
      /\ RunOnColumns(system)["left"] = RunOn(system, half, n - half)
  BY <1>1, <1>3 DEF RunOnColumns
<1>6. QED
  BY <1>1, <1>4, <1>5

\* The rows that notes fill have a height.
LEMMA HeightTypes ==
    ASSUME TypeOK, NEW system \in SystemNames, NEW start \in Nat, NEW count \in Nat,
           start + count <= NoteCount(system)
    PROVE  MeasureRunOnHeight(system, RunOn(system, start, count)) \in Nat
<1>1. PICK run : run = RunOn(system, start, count)
  OBVIOUS
<1>2. /\ DOMAIN run = 1..count /\ Len(run) = count
      /\ \A i \in 1..count : run[i].note = start + i
  <2>1. DOMAIN run = 1..count /\ Len(run) = count
    BY <1>1, RunOnTypes
  <2>2. \A i \in 1..count :
           run[i] = [note |-> start + i, marker |-> Marker(system, start + i - 1)]
    BY <1>1, RunOnTypes
  <2>3. QED
    BY <2>1, <2>2
<1>3. PICK widths : widths = [i \in DOMAIN run |-> 1 + page.notes[system][run[i].note]]
  OBVIOUS
<1>4. widths \in Seq(Nat) /\ Len(widths) = count
  <2>1. PICK notes : notes = page.notes[system]
    OBVIOUS
  <2>2. \A n \in 1..NoteCount(system) : notes[n] \in Nat
    BY <2>1, PageTypes
  <2>3. \A i \in 1..count : start + i \in 1..NoteCount(system)
    BY PageTypes
  <2>4. widths = [i \in 1..count |-> 1 + notes[start + i]]
    BY <1>2, <1>3, <2>1
  <2>5. \A i \in 1..count : 1 + notes[start + i] \in Nat
    BY <2>2, <2>3
  <2>6. QED
    BY <2>4, <2>5
<1>5. RunningSum(widths)[count] \in Nat
  <2>1. RunningSum(widths) \in [0..Len(widths) -> Nat]
    BY <1>4, RunningSumFacts
  <2>2. count \in 0..count
    OBVIOUS
  <2>3. QED
    BY <1>4, <2>1, <2>2
<1>6. PICK w : w = RunningSum(widths)[count] + RowWidth - 1
  OBVIOUS
<1>7. w \in Nat
  BY <1>5, <1>6, RowAssumption
<1>8. w \div RowWidth \in Nat
  BY <1>7, RowAssumption
<1>9. MeasureRunOnHeight(system, run) = RowHeight * (w \div RowWidth)
  BY <1>2, <1>3, <1>6 DEF MeasureRunOnHeight
<1>10. \A a, b \in Nat : a * b \in Nat
  OBVIOUS
<1>11. QED
  BY <1>1, <1>8, <1>9, <1>10, RowAssumption

------------------------------------------------------------------------------
\* What is read on a canvas.

\* What one element gives to read of the lines of a column.
LinePart(e, column) ==
    IF e.what = "line" /\ e.column = column THEN <<e.item.line>> ELSE <<>>

\* What one element gives to read of the notes of a system in a column.
NotesPart(e, system, column) ==
    IF e.what = "run on" /\ e.column = column /\ e.item.system = system
    THEN e.item.entries ELSE <<>>

AreLineParts(parts, a, column) == parts = [k \in DOMAIN a |-> LinePart(a[k], column)]

AreNotesParts(parts, a, system, column) ==
    parts = [k \in DOMAIN a |-> NotesPart(a[k], system, column)]

\* The lines of a column on a canvas are the parts of its elements.
LEMMA LineParts ==
    ASSUME NEW column, NEW a \in Seq(ElementType), NEW parts,
           AreLineParts(parts, a, column)
    PROVE  parts \in Seq(Seq(Nat)) /\ Len(parts) = Len(a) /\ LinesOn(a, column) = FlattenSeq(parts)
<1>1. PICK L : L = Len(a)
  OBVIOUS
<1>2. L \in Nat /\ DOMAIN a = 1..L /\ \A k \in 1..L : a[k] \in ElementType
  BY <1>1
<1> DEFINE T == Seq(Nat)
<1>3. \A k \in 1..L : LinePart(a[k], column) \in T
  <2>1. ASSUME NEW k \in 1..L PROVE LinePart(a[k], column) \in T
    <3>1. a[k].what = "line" => a[k].item.line \in Nat
      BY <1>2, ElementFacts
    <3>2. QED
      BY <3>1 DEF LinePart
  <2>2. QED
    BY <2>1
<1>4. parts = [k \in 1..L |-> LinePart(a[k], column)]
  BY <1>2 DEF AreLineParts
<1>5. LinesOn(a, column) = FlattenSeq(parts)
  BY DEF LinesOn, LinePart, AreLineParts
<1> HIDE DEF T
<1>6. parts \in Seq(T) /\ Len(parts) = L
  BY <1>2, <1>3, <1>4
<1>7. QED
  BY <1>1, <1>5, <1>6 DEF T

\* The notes of a system in a column of a canvas are the parts of its elements.
LEMMA NotesParts ==
    ASSUME NEW system, NEW column, NEW a \in Seq(ElementType), NEW parts,
           AreNotesParts(parts, a, system, column)
    PROVE  /\ parts \in Seq(Seq(EntryType)) /\ Len(parts) = Len(a)
           /\ NotesOn(a, system, column) = FlattenSeq(parts)
<1>1. PICK L : L = Len(a)
  OBVIOUS
<1>2. L \in Nat /\ DOMAIN a = 1..L /\ \A k \in 1..L : a[k] \in ElementType
  BY <1>1
<1> DEFINE T == Seq(EntryType)
<1>3. \A k \in 1..L : NotesPart(a[k], system, column) \in T
  <2>1. ASSUME NEW k \in 1..L PROVE NotesPart(a[k], system, column) \in T
    <3>1. a[k].what = "run on" => a[k].item.entries \in Seq(EntryType)
      BY <1>2, ElementFacts
    <3>2. <<>> \in T
      OBVIOUS
    <3> HIDE DEF T
    <3>3. a[k].what = "run on" => a[k].item.entries \in T
      BY <3>1 DEF T
    <3>4. QED
      BY <3>2, <3>3 DEF NotesPart
  <2>2. QED
    BY <2>1
<1>4. parts = [k \in 1..L |-> NotesPart(a[k], system, column)]
  BY <1>2 DEF AreNotesParts
<1>5. NotesOn(a, system, column) = FlattenSeq(parts)
  BY DEF NotesOn, NotesPart, AreNotesParts
<1> HIDE DEF T
<1>6. parts \in Seq(T) /\ Len(parts) = L
  BY <1>2, <1>3, <1>4
<1>7. QED
  BY <1>1, <1>5, <1>6 DEF T

\* One canvas drawn on after another.
AllOn(a, b, c, column) == LinesOn(c, column) = LinesOn(a, column) \o LinesOn(b, column)

AllNotesOn(a, b, c, system, column) ==
    NotesOn(c, system, column) = NotesOn(a, system, column) \o NotesOn(b, system, column)

\* What is drawn later is read later.
LEMMA DrawnAfter ==
    ASSUME NEW a \in Seq(ElementType), NEW b \in Seq(ElementType), NEW c, c = a \o b
    PROVE  /\ \A column : /\ AllOn(a, b, c, column)
                          /\ LinesOn(a, column) \in Seq(Nat)
                          /\ LinesOn(b, column) \in Seq(Nat)
           /\ \A system, column : /\ AllNotesOn(a, b, c, system, column)
                                  /\ NotesOn(a, system, column) \in Seq(EntryType)
                                  /\ NotesOn(b, system, column) \in Seq(EntryType)
<1>1. PICK L, M : L = Len(a) /\ M = Len(b)
  OBVIOUS
<1>2. /\ c \in Seq(ElementType) /\ L \in Nat /\ M \in Nat
      /\ DOMAIN a = 1..L /\ DOMAIN b = 1..M /\ DOMAIN c = 1..(L + M)
      /\ \A k \in 1..L : c[k] = a[k]
      /\ \A k \in 1..M : c[L + k] = b[k]
  BY <1>1, ConcatFacts
<1>3. \A k \in 1..(L + M) : /\ k <= L => k \in 1..L
                            /\ ~(k <= L) => k - L \in 1..M /\ k = L + (k - L)
  BY <1>2
<1>4. \A k \in 1..(L + M) : c[k] = IF k <= L THEN a[k] ELSE b[k - L]
  BY <1>2, <1>3
<1>5. ASSUME NEW column
      PROVE  /\ AllOn(a, b, c, column)
             /\ LinesOn(a, column) \in Seq(Nat)
             /\ LinesOn(b, column) \in Seq(Nat)
  <2>1. PICK p, q, r : /\ AreLineParts(p, a, column) /\ AreLineParts(q, b, column)
                       /\ AreLineParts(r, c, column)
    BY DEF AreLineParts
  <2>2. /\ p \in Seq(Seq(Nat)) /\ Len(p) = L /\ LinesOn(a, column) = FlattenSeq(p)
        /\ q \in Seq(Seq(Nat)) /\ Len(q) = M /\ LinesOn(b, column) = FlattenSeq(q)
        /\ r \in Seq(Seq(Nat)) /\ Len(r) = L + M /\ LinesOn(c, column) = FlattenSeq(r)
    <3>1. c \in Seq(ElementType) /\ Len(c) = L + M
      BY <1>1, ConcatFacts
    <3>2. /\ p \in Seq(Seq(Nat)) /\ Len(p) = L /\ LinesOn(a, column) = FlattenSeq(p)
      BY <1>1, <2>1, LineParts
    <3>3. /\ q \in Seq(Seq(Nat)) /\ Len(q) = M /\ LinesOn(b, column) = FlattenSeq(q)
      BY <1>1, <2>1, LineParts
    <3>4. /\ r \in Seq(Seq(Nat)) /\ Len(r) = Len(c) /\ LinesOn(c, column) = FlattenSeq(r)
      <4>1. AreLineParts(r, c, column) /\ c \in Seq(ElementType)
        BY <2>1, <3>1
      <4>2. QED
        BY <4>1, LineParts
    <3>5. QED
      BY <3>1, <3>2, <3>3, <3>4
  <2>3. \A k \in 1..(L + M) : r[k] = IF k <= L THEN p[k] ELSE q[k - L]
    BY <1>2, <1>3, <1>4, <2>1 DEF AreLineParts
  <2>4. r = p \o q
    BY <2>2, <2>3, <1>2, SameAsConcat
  <2>5. FlattenSeq(p) \in Seq(Nat) /\ FlattenSeq(q) \in Seq(Nat) /\ JoinsBoth(p, q, r)
    BY <2>2, <2>4, FlattenConcat
  <2>6. QED
    BY <2>2, <2>5 DEF AllOn, JoinsBoth
<1>6. ASSUME NEW system, NEW column
      PROVE  /\ AllNotesOn(a, b, c, system, column)
             /\ NotesOn(a, system, column) \in Seq(EntryType)
             /\ NotesOn(b, system, column) \in Seq(EntryType)
  <2>1. PICK p, q, r : /\ AreNotesParts(p, a, system, column)
                       /\ AreNotesParts(q, b, system, column)
                       /\ AreNotesParts(r, c, system, column)
    BY DEF AreNotesParts
  <2>2. /\ p \in Seq(Seq(EntryType)) /\ Len(p) = L
        /\ NotesOn(a, system, column) = FlattenSeq(p)
        /\ q \in Seq(Seq(EntryType)) /\ Len(q) = M
        /\ NotesOn(b, system, column) = FlattenSeq(q)
        /\ r \in Seq(Seq(EntryType)) /\ Len(r) = L + M
        /\ NotesOn(c, system, column) = FlattenSeq(r)
    <3>1. c \in Seq(ElementType) /\ Len(c) = L + M
      BY <1>1, ConcatFacts
    <3>2. /\ p \in Seq(Seq(EntryType)) /\ Len(p) = L /\ NotesOn(a, system, column) = FlattenSeq(p)
      BY <1>1, <2>1, NotesParts
    <3>3. /\ q \in Seq(Seq(EntryType)) /\ Len(q) = M /\ NotesOn(b, system, column) = FlattenSeq(q)
      BY <1>1, <2>1, NotesParts
    <3>4. /\ r \in Seq(Seq(EntryType)) /\ Len(r) = Len(c) /\ NotesOn(c, system, column) = FlattenSeq(r)
      <4>1. PICK d : d = c
        OBVIOUS
      <4>2. AreNotesParts(r, d, system, column) /\ d \in Seq(ElementType)
        BY <2>1, <3>1, <4>1
      <4>3. r \in Seq(Seq(EntryType)) /\ Len(r) = Len(d) /\ NotesOn(d, system, column) = FlattenSeq(r)
        BY <4>2, NotesParts
      <4>4. QED
        BY <4>1, <4>3
    <3>5. QED
      BY <3>1, <3>2, <3>3, <3>4
  <2>3. \A k \in 1..(L + M) : r[k] = IF k <= L THEN p[k] ELSE q[k - L]
    BY <1>2, <1>3, <1>4, <2>1 DEF AreNotesParts
  <2>4. r = p \o q
    BY <2>2, <2>3, <1>2, SameAsConcat
  <2>5. FlattenSeq(p) \in Seq(EntryType) /\ FlattenSeq(q) \in Seq(EntryType) /\ JoinsBoth(p, q, r)
    BY <2>2, <2>4, FlattenConcat
  <2>6. QED
    BY <2>2, <2>5 DEF AllNotesOn, JoinsBoth
<1>7. QED
  BY <1>5, <1>6

\* A canvas without a line of the column has none to read, and one without notes
\* of the system in the column has none of these.
LEMMA NothingOn ==
    ASSUME NEW a \in Seq(ElementType)
    PROVE  /\ \A column :
                 (\A k \in DOMAIN a : a[k].what # "line" \/ a[k].column # column)
                    => LinesOn(a, column) = <<>>
           /\ \A system, column :
                 (\A k \in DOMAIN a : \/ a[k].what # "run on" \/ a[k].column # column
                                      \/ a[k].item.system # system)
                    => NotesOn(a, system, column) = <<>>
<1>1. DOMAIN a = 1..Len(a)
  OBVIOUS
<1>2. ASSUME NEW column, \A k \in DOMAIN a : a[k].what # "line" \/ a[k].column # column
      PROVE  LinesOn(a, column) = <<>>
  <2>1. PICK p : AreLineParts(p, a, column)
    BY DEF AreLineParts
  <2>2. p \in Seq(Seq(Nat)) /\ Len(p) = Len(a) /\ LinesOn(a, column) = FlattenSeq(p)
    BY <2>1, LineParts
  <2>3. \A k \in 1..Len(p) : p[k] = <<>>
    BY <1>1, <1>2, <2>1, <2>2 DEF AreLineParts, LinePart
  <2>4. QED
    BY <2>2, <2>3, FlattenNothing
<1>3. ASSUME NEW system, NEW column,
             \A k \in DOMAIN a : \/ a[k].what # "run on" \/ a[k].column # column
                                 \/ a[k].item.system # system
      PROVE  NotesOn(a, system, column) = <<>>
  <2>1. PICK p : AreNotesParts(p, a, system, column)
    BY DEF AreNotesParts
  <2>2. /\ p \in Seq(Seq(EntryType)) /\ Len(p) = Len(a)
        /\ NotesOn(a, system, column) = FlattenSeq(p)
    BY <2>1, NotesParts
  <2>3. \A k \in 1..Len(p) : p[k] = <<>>
    BY <1>1, <1>3, <2>1, <2>2 DEF AreNotesParts, NotesPart
  <2>4. QED
    BY <2>2, <2>3, FlattenNothing
<1>4. QED
  BY <1>2, <1>3

------------------------------------------------------------------------------
\* Pieces of the canvas.

\* Everything of a piece is between two heights.
Between(a, top, bottom) ==
    \A k \in DOMAIN a : top <= a[k].top /\ a[k].bottom <= bottom

InColumn(a, column) == \A k \in DOMAIN a : a[k].column = column

\* All of b is beside what a has, or below it.
Follows(a, b) ==
    \A i \in DOMAIN a, j \in DOMAIN b : Beside(a[i], b[j]) \/ a[i].bottom <= b[j].top

\* Two pieces one after the other.
LEMMA PiecesTogether ==
    ASSUME NEW a \in Seq(ElementType), NEW b \in Seq(ElementType), NEW c, c = a \o b
    PROVE  /\ c \in Seq(ElementType)
           /\ Stacked(a) /\ Stacked(b) /\ Follows(a, b) => Stacked(c)
           /\ \A top, bottom \in Nat :
                 Between(a, top, bottom) /\ Between(b, top, bottom) => Between(c, top, bottom)
           /\ \A d : Follows(a, d) /\ Follows(b, d) => Follows(c, d)
<1>1. PICK L, M : L = Len(a) /\ M = Len(b)
  OBVIOUS
<1>2. /\ L \in Nat /\ M \in Nat /\ c \in Seq(ElementType)
      /\ DOMAIN a = 1..L /\ DOMAIN b = 1..M /\ DOMAIN c = 1..(L + M)
      /\ \A k \in 1..L : c[k] = a[k]
      /\ \A k \in 1..(L + M) : k \in 1..L \/ (k - L \in 1..M /\ c[k] = b[k - L])
  BY <1>1, ConcatFacts
<1>3. ASSUME Stacked(a), Stacked(b), Follows(a, b), NEW i \in 1..(L + M), NEW j \in 1..(L + M),
             i < j
      PROVE  Beside(c[i], c[j]) \/ c[i].bottom <= c[j].top
  <2>1. CASE j \in 1..L
    <3>1. i \in 1..L
      BY <1>2, <1>3, <2>1
    <3>2. Beside(a[i], a[j]) \/ a[i].bottom <= a[j].top
      BY <1>2, <1>3, <2>1, <3>1 DEF Stacked
    <3>3. QED
      BY <1>2, <2>1, <3>1, <3>2
  <2>2. CASE i \in 1..L /\ j \notin 1..L
    <3>1. j - L \in 1..M /\ c[j] = b[j - L]
      BY <1>2, <2>2
    <3>2. Beside(a[i], b[j - L]) \/ a[i].bottom <= b[j - L].top
      BY <1>2, <1>3, <2>2, <3>1 DEF Follows
    <3>3. QED
      BY <1>2, <2>2, <3>1, <3>2
  <2>3. CASE i \notin 1..L /\ j \notin 1..L
    <3>1. /\ j - L \in 1..M /\ c[j] = b[j - L] /\ i - L \in 1..M /\ c[i] = b[i - L]
      BY <1>2, <2>3
    <3>2. i - L < j - L
      BY <1>2, <1>3
    <3>3. Beside(b[i - L], b[j - L]) \/ b[i - L].bottom <= b[j - L].top
      BY <1>2, <1>3, <3>1, <3>2 DEF Stacked
    <3>4. QED
      BY <3>1, <3>3
  <2>4. QED
    BY <2>1, <2>2, <2>3
<1>4. Stacked(a) /\ Stacked(b) /\ Follows(a, b) => Stacked(c)
  BY <1>2, <1>3 DEF Stacked
<1>5. \A top, bottom \in Nat :
         Between(a, top, bottom) /\ Between(b, top, bottom) => Between(c, top, bottom)
  BY <1>2 DEF Between
<1>6. \A d : Follows(a, d) /\ Follows(b, d) => Follows(c, d)
  BY <1>2 DEF Follows
<1>7. QED
  BY <1>2, <1>4, <1>5, <1>6

\* What begins below a piece follows it.
LEMMA BelowFollows ==
    ASSUME NEW a \in Seq(ElementType), NEW b \in Seq(ElementType), NEW y \in Nat,
           \A k \in DOMAIN a : a[k].bottom <= y,
           \A k \in DOMAIN b : y <= b[k].top
    PROVE  Follows(a, b)
<1>1. ASSUME NEW i \in DOMAIN a, NEW j \in DOMAIN b
      PROVE  a[i].bottom <= b[j].top
  <2>1. a[i] \in ElementType /\ b[j] \in ElementType
    OBVIOUS
  <2>2. a[i].bottom \in Nat /\ b[j].top \in Nat
    BY <2>1, ElementFacts
  <2>3. a[i].bottom <= y /\ y <= b[j].top
    OBVIOUS
  <2>4. QED
    BY <2>2, <2>3
<1>2. QED
  BY <1>1 DEF Follows

\* The left column is beside the right one.
LEMMA BesideFollows ==
    ASSUME NEW a, NEW b, InColumn(a, "right"), InColumn(b, "left")
    PROVE  Follows(a, b)
BY DEF InColumn, Follows, Beside, Columns

\* A column of the main text, drawn from y down.
LEMMA MainPiece ==
    ASSUME TypeOK, NEW column \in Columns, NEW y \in Nat,
           NEW a, a = RenderTextColumn(column, y)
    PROVE  /\ a \in Seq(ElementType) /\ InColumn(a, column) /\ Stacked(a)
           /\ ColumnBottom(column, y) \in Nat /\ Between(a, y, ColumnBottom(column, y))
           /\ LinesOn(a, column) = LinesWithWords(column)
           /\ \A other \in Columns : other # column => LinesOn(a, other) = <<>>
           /\ \A system, other : NotesOn(a, system, other) = <<>>
<1>1. PICK numbers : numbers = LinesWithWords(column)
  OBVIOUS
<1>2. PICK L, N : L = Len(page.main[column]) /\ N = Len(numbers)
  OBVIOUS
<1>3. L \in Nat /\ page.main[column] \in Seq(Nat)
  BY <1>2, PageTypes
<1>4. NumbersOf(page.main[column], L, numbers)
  BY <1>1, <1>2, <1>3, FlattenNumbers DEF LinesWithWords
<1>5. /\ N \in Nat /\ DOMAIN numbers = 1..N /\ numbers \in Seq(Nat)
      /\ \A n \in 1..N : numbers[n] \in 1..L
      /\ \A i, j \in 1..N : i < j => numbers[i] < numbers[j]
  <2>1. numbers \in Seq(1..L) /\ \A i, j \in DOMAIN numbers : i < j => numbers[i] < numbers[j]
    BY <1>4 DEF NumbersOf
  <2>2. N \in Nat /\ DOMAIN numbers = 1..N /\ \A n \in 1..N : numbers[n] \in 1..L
    BY <1>2, <2>1
  <2>3. \A n \in 1..N : numbers[n] \in Nat
    BY <1>3, <2>2
  <2>4. numbers \in Seq(Nat)
    <3>1. numbers = [n \in 1..N |-> numbers[n]]
      BY <2>1, <2>2
    <3>2. QED
      BY <2>2, <2>3, <3>1
  <2>5. QED
    BY <2>1, <2>2, <2>4
<1> DEFINE Line(k) == Element("line", column, [line |-> k], y + (k - 1) * MainLineHeight,
                              MainLineHeight)
<1>6. a = [n \in 1..N |-> Line(numbers[n])]
  BY <1>1, <1>5 DEF RenderTextColumn
<1>7. /\ ColumnBottom(column, y) = y + L * 280
      /\ ColumnBottom(column, y) \in Nat
  BY <1>2, <1>3 DEF ColumnBottom, MainLineHeight
<1>8. ASSUME NEW k \in 1..L
      PROVE  /\ Line(k) \in ElementType
             /\ Line(k).what = "line" /\ Line(k).column = column /\ Line(k).item.line = k
             /\ Line(k).top = y + (k - 1) * 280 /\ Line(k).bottom = y + k * 280
             /\ y <= Line(k).top /\ Line(k).bottom <= y + L * 280
  <2>1. /\ k \in Nat /\ y + (k - 1) * MainLineHeight \in Nat /\ MainLineHeight \in Nat
        /\ y + (k - 1) * 280 + 280 = y + k * 280
        /\ y <= y + (k - 1) * 280 /\ y + k * 280 <= y + L * 280
    BY <1>3 DEF MainLineHeight
  <2>2. Line(k) \in ElementType
    BY <2>1, ElementsMade
  <2>3. /\ Line(k).what = "line" /\ Line(k).column = column /\ Line(k).item.line = k
        /\ Line(k).top = y + (k - 1) * 280 /\ Line(k).bottom = y + (k - 1) * 280 + 280
    BY DEF Element, MainLineHeight
  <2>4. QED
    BY <2>1, <2>2, <2>3
<1> HIDE DEF Line
<1>9. a \in Seq(ElementType) /\ Len(a) = N /\ \A n \in 1..N : a[n] = Line(numbers[n])
  <2>1. \A n \in 1..N : Line(numbers[n]) \in ElementType
    BY <1>5, <1>8
  <2>2. QED
    BY <1>5, <1>6, <2>1
<1>10. DOMAIN a = 1..N
  BY <1>6
<1>11. \A n \in 1..N :
          /\ a[n].what = "line" /\ a[n].column = column /\ a[n].item.line = numbers[n]
          /\ a[n].top = y + (numbers[n] - 1) * 280 /\ a[n].bottom = y + numbers[n] * 280
          /\ y <= a[n].top /\ a[n].bottom <= y + L * 280
  BY <1>5, <1>8, <1>9
<1>12. InColumn(a, column)
  BY <1>10, <1>11 DEF InColumn
<1>13. Between(a, y, ColumnBottom(column, y))
  BY <1>7, <1>10, <1>11 DEF Between
<1>14. Stacked(a)
  <2>1. ASSUME NEW i \in 1..N, NEW j \in 1..N, i < j
        PROVE  a[i].bottom <= a[j].top
    <3>1. PICK p, q : p = numbers[i] /\ q = numbers[j]
      OBVIOUS
    <3>2. p \in 1..L /\ q \in 1..L /\ p < q
      BY <1>5, <2>1, <3>1
    <3>3. y + p * 280 <= y + (q - 1) * 280
      BY <1>3, <3>2
    <3>4. QED
      BY <1>11, <3>1, <3>3
  <2>2. QED
    BY <1>10, <2>1 DEF Stacked
<1>15. LinesOn(a, column) = numbers
  <2>1. PICK p : AreLineParts(p, a, column)
    BY DEF AreLineParts
  <2>2. LinesOn(a, column) = FlattenSeq(p)
    BY <1>9, <2>1, LineParts
  <2>3. p = [n \in DOMAIN numbers |-> <<numbers[n]>>]
    BY <1>5, <1>10, <1>11, <2>1, SMTT(30) DEF AreLineParts, LinePart
  <2>4. FlattenSeq(p) = numbers
    BY <1>5, <2>3, FlattenOnes
  <2>5. QED
    BY <2>2, <2>4
<1>16. ASSUME NEW other \in Columns, other # column
       PROVE  LinesOn(a, other) = <<>>
  <2>1. \A k \in DOMAIN a : a[k].what # "line" \/ a[k].column # other
    BY <1>10, <1>11, <1>16
  <2>2. QED
    BY <1>9, <2>1, NothingOn
<1>17. \A system, other : NotesOn(a, system, other) = <<>>
  BY <1>9, <1>10, <1>11, NothingOn
<1>18. QED
  BY <1>1, <1>7, <1>9, <1>12, <1>13, <1>14, <1>15, <1>16, <1>17

\* A column of notes, drawn from y down.
LEMMA NotesPiece ==
    ASSUME TypeOK, System \in SystemNames, NEW column \in Columns, NEW y \in Nat,
           NEW a, a = RenderRunOnColumn(column, y)
    PROVE  /\ a \in Seq(ElementType) /\ InColumn(a, column) /\ Stacked(a)
           /\ RunOnHeight(column) \in Nat /\ Between(a, y, y + RunOnHeight(column))
           /\ NotesOn(a, System, column) = RunOnColumns(System)[column]
           /\ \A system, other : system # System \/ other # column
                 => NotesOn(a, system, other) = <<>>
           /\ \A other : LinesOn(a, other) = <<>>
<1>1. PICK run : run = RunOnColumns(System)[column]
  OBVIOUS
<1>2. PICK start \in Nat, count \in Nat : /\ start + count <= NoteCount(System)
                                          /\ run = RunOn(System, start, count)
  <2>1. PICK half \in 0..NoteCount(System) :
              /\ RunOnColumns(System)["right"] = RunOn(System, 0, half)
              /\ RunOnColumns(System)["left"]
                    = RunOn(System, half, NoteCount(System) - half)
              /\ NoteCount(System) - half \in Nat
    BY ColumnTypes
  <2>2. NoteCount(System) \in Nat
    BY PageTypes
  <2>3. CASE column = "right"
    <3>1. half \in Nat /\ 0 + half <= NoteCount(System) /\ 0 \in Nat
      BY <2>2
    <3>2. QED
      BY <1>1, <2>1, <2>3, <3>1
  <2>4. CASE column = "left"
    <3>1. half \in Nat /\ half + (NoteCount(System) - half) <= NoteCount(System)
      BY <2>2
    <3>2. QED
      BY <1>1, <2>1, <2>4, <3>1
  <2>5. QED
    BY <2>3, <2>4 DEF Columns
<1>3. run \in Seq(EntryType)
  BY <1>2, RunOnTypes
<1>4. PICK h : h = RunOnHeight(column)
  OBVIOUS
<1>5. h \in Nat
  <2>1. h = MeasureRunOnHeight(System, RunOn(System, start, count))
    BY <1>1, <1>2, <1>4 DEF RunOnHeight
  <2>2. QED
    BY <2>1, <1>2, HeightTypes
<1>6. PICK e : e = Element("run on", column, [system |-> System, entries |-> run], y, h)
  OBVIOUS
<1>7. /\ e \in ElementType
      /\ e.what = "run on" /\ e.column = column /\ e.item.system = System
      /\ e.item.entries = run /\ e.top = y /\ e.bottom = y + h
  <2>1. e \in ElementType
    BY <1>3, <1>5, <1>6, ElementsMade
  <2>2. QED
    BY <1>6, <2>1 DEF Element
<1>8. a = IF run = <<>> THEN <<>> ELSE <<e>>
  BY <1>1, <1>4, <1>6 DEF RenderRunOnColumn
<1>9. y <= y + h
  BY <1>5
<1>10. CASE run = <<>>
  <2>1. a = <<>> /\ a \in Seq(ElementType) /\ DOMAIN a = {}
    BY <1>8, <1>10
  <2>2. /\ \A system, other : NotesOn(a, system, other) = <<>>
        /\ \A other : LinesOn(a, other) = <<>>
    BY <2>1, NothingOn
  <2>3. InColumn(a, column) /\ Stacked(a) /\ Between(a, y, y + h)
    BY <2>1 DEF InColumn, Stacked, Between
  <2>4. QED
    BY <1>1, <1>4, <1>5, <1>10, <2>1, <2>2, <2>3
<1>11. CASE run # <<>>
  <2>1. a \in Seq(ElementType) /\ DOMAIN a = {1} /\ a[1] = e
    <3>1. a = <<e>>
      BY <1>8, <1>11
    <3>2. a \in Seq(ElementType)
      <4>1. e \in ElementType
        BY <1>7
      <4>2. <<e>> \in Seq(ElementType)
        BY <4>1
      <4>3. QED
        BY <3>1, <4>2
    <3>3. a[1] = e /\ Len(a) = 1
      BY <3>1
    <3>4. DOMAIN a = 1..Len(a)
      BY <3>2
    <3>5. QED
      BY <3>2, <3>3, <3>4
  <2>2. InColumn(a, column) /\ Between(a, y, y + h)
    <3>1. \A k \in DOMAIN a : a[k] = e
      BY <2>1
    <3>2. y <= e.top /\ e.bottom <= y + h
      <4>1. e.top = y /\ e.bottom = y + h
        BY <1>7
      <4>2. QED
        BY <1>5, <4>1
    <3>3. e.column = column
      BY <1>7
    <3>4. InColumn(a, column)
      BY <3>1, <3>3 DEF InColumn
    <3>5. Between(a, y, y + h)
      BY <3>1, <3>2 DEF Between
    <3>6. QED
      BY <3>4, <3>5
  <2>3. Stacked(a)
    BY <2>1 DEF Stacked
  <2>4. \A other : LinesOn(a, other) = <<>>
    BY <1>7, <2>1, NothingOn
  <2>5. ASSUME NEW system, NEW other, system # System \/ other # column
        PROVE  NotesOn(a, system, other) = <<>>
    <3>1. \A k \in DOMAIN a : a[k] = e
      BY <2>1
    <3>2. e.column # other \/ e.item.system # system
      BY <1>7, <2>5
    <3>3. \A k \in DOMAIN a : \/ a[k].what # "run on" \/ a[k].column # other
                             \/ a[k].item.system # system
      BY <3>1, <3>2
    <3>4. a \in Seq(ElementType)
      BY <2>1
    <3>5. QED
      BY <3>3, <3>4, NothingOn
  <2>6. NotesOn(a, System, column) = run
    <3>1. PICK p : AreNotesParts(p, a, System, column)
      BY DEF AreNotesParts
    <3>2. NotesOn(a, System, column) = FlattenSeq(p)
      <4>1. AreNotesParts(p, a, System, column) /\ a \in Seq(ElementType)
        BY <2>1, <3>1
      <4>2. QED
        BY <4>1, NotesParts
    <3>3. p = <<run>>
      <4>1. p = [k \in {1} |-> run]
        BY <1>7, <2>1, <3>1 DEF AreNotesParts, NotesPart
      <4>2. QED
        BY <4>1
    <3>4. FlattenSeq(p) = run
      BY <1>3, <3>3, FlattenSingle
    <3>5. QED
      BY <3>2, <3>4
  <2>7. QED
    BY <1>1, <1>4, <1>5, <2>1, <2>2, <2>3, <2>4, <2>5, <2>6
<1>12. QED
  BY <1>10, <1>11

\* A piece that is within some heights is within wider ones.
LEMMA Widened ==
    ASSUME NEW a \in Seq(ElementType), NEW t \in Nat, NEW b \in Nat, NEW z \in Nat,
           Between(a, t, b), b <= z
    PROVE  Between(a, 0, z)
<1>1. ASSUME NEW k \in DOMAIN a
      PROVE  0 <= a[k].top /\ a[k].bottom <= z
  <2>1. a[k] \in ElementType
    OBVIOUS
  <2>2. a[k].top \in Nat /\ a[k].bottom \in Nat
    BY <2>1, ElementFacts
  <2>3. a[k].bottom <= b
    BY DEF Between
  <2>4. QED
    BY <2>2, <2>3
<1>2. QED
  BY <1>1 DEF Between

\* A piece drawn below what is there.
LEMMA PieceBelow ==
    ASSUME NEW a \in Seq(ElementType), NEW b \in Seq(ElementType), NEW c, c = a \o b,
           NEW y \in Nat, NEW z \in Nat, y <= z,
           Stacked(a), Stacked(b), Between(a, 0, y), Between(b, y, z)
    PROVE  c \in Seq(ElementType) /\ Stacked(c) /\ Between(c, 0, z)
<1>1. Follows(a, b)
  <2>1. /\ \A k \in DOMAIN a : a[k].bottom <= y
        /\ \A k \in DOMAIN b : y <= b[k].top
    BY DEF Between
  <2>2. QED
    BY <2>1, BelowFollows
<1>2. Between(a, 0, z) /\ Between(b, 0, z)
  <2>1. 0 \in Nat /\ z <= z
    OBVIOUS
  <2>2. Between(a, 0, z)
    BY <2>1, Widened
  <2>3. Between(b, 0, z)
    BY <2>1, Widened
  <2>4. QED
    BY <2>2, <2>3
<1>3. 0 \in Nat
  OBVIOUS
<1>4. QED
  BY <1>1, <1>2, <1>3, PiecesTogether

\* A canvas on which nothing is drawn over anything, down to a height.
OnCanvas(a, y) == a \in Seq(ElementType) /\ Stacked(a) /\ Between(a, 0, y)

\* A piece of one column, from a height to another.
IsColumn(a, column, y, p) ==
    /\ a \in Seq(ElementType) /\ InColumn(a, column)
    /\ Stacked(a) /\ Between(a, y, p)

WithColumns(a, r, l) == (a \o r) \o l

\* Two columns drawn side by side below what is there: however far down each of them
\* goes, they end above the height the longer one decides.
LEMMA TwoColumnsBelow ==
    ASSUME NEW y \in Nat, NEW p \in Nat, NEW q \in Nat, NEW z \in Nat,
           y <= z, p <= z, q <= z,
           NEW a, OnCanvas(a, y),
           NEW r, IsColumn(r, "right", y, p),
           NEW l, IsColumn(l, "left", y, q)
    PROVE  a \o r \in Seq(ElementType) /\ OnCanvas(WithColumns(a, r, l), z)
<1>1. /\ a \in Seq(ElementType) /\ r \in Seq(ElementType) /\ l \in Seq(ElementType)
      /\ Stacked(a) /\ Stacked(r) /\ Stacked(l)
      /\ Between(a, 0, y) /\ Between(r, y, p) /\ Between(l, y, q)
      /\ InColumn(r, "right") /\ InColumn(l, "left")
  BY DEF OnCanvas, IsColumn
<1>2. PICK d : d = a \o r
  OBVIOUS
<1>3. PICK c : c = d \o l
  OBVIOUS
<1>4. Follows(a, r) /\ Follows(a, l)
  <2>1. /\ \A k \in DOMAIN a : a[k].bottom <= y
        /\ \A k \in DOMAIN r : y <= r[k].top
        /\ \A k \in DOMAIN l : y <= l[k].top
    BY <1>1 DEF Between
  <2>2. Follows(a, r)
    BY <1>1, <2>1, BelowFollows
  <2>3. Follows(a, l)
    BY <1>1, <2>1, BelowFollows
  <2>4. QED
    BY <2>2, <2>3
<1>5. Follows(r, l)
  BY <1>1, BesideFollows
<1>6. Between(a, 0, z) /\ Between(r, 0, z) /\ Between(l, 0, z)
  <2>1. 0 \in Nat
    OBVIOUS
  <2>2. Between(a, 0, z)
    BY <1>1, <2>1, Widened
  <2>3. Between(r, 0, z)
    BY <1>1, Widened
  <2>4. Between(l, 0, z)
    BY <1>1, Widened
  <2>5. QED
    BY <2>2, <2>3, <2>4
<1>7. 0 \in Nat
  OBVIOUS
<1>8. d \in Seq(ElementType) /\ Stacked(d) /\ Between(d, 0, z) /\ Follows(d, l)
  BY <1>1, <1>2, <1>4, <1>5, <1>6, <1>7, PiecesTogether
<1>9. c \in Seq(ElementType) /\ Stacked(c) /\ Between(c, 0, z)
  BY <1>1, <1>3, <1>6, <1>7, <1>8, PiecesTogether
<1>10. QED
  BY <1>2, <1>3, <1>8, <1>9 DEF OnCanvas, WithColumns

\* What DrawHead draws.
HeadOfPage ==
    <<Element("number", "whole", [part |-> 0], 200, 250)>>
        \o [k \in 1..Cardinality(page.header) |->
               Element("header", "whole", [part |-> k], 450, 200)]

\* The number and the running header.
LEMMA HeadPiece ==
    ASSUME TypeOK, NEW a, a = HeadOfPage
    PROVE  /\ a \in Seq(ElementType) /\ Stacked(a) /\ Between(a, 0, 650)
           /\ \A column : LinesOn(a, column) = <<>>
           /\ \A system, column : NotesOn(a, system, column) = <<>>
<1>1. PICK n : n = Cardinality(page.header)
  OBVIOUS
<1>2. n \in Nat
  <2>1. page.header \in SUBSET {"right", "center", "left"}
    BY PageModelsAssumption DEF TypeOK, PageModel
  <2>2. IsFiniteSet({"right", "center", "left"})
    <3>1. IsFiniteSet({} \cup {"right"})
      BY FS_EmptySet, FS_AddElement
    <3>2. IsFiniteSet(({} \cup {"right"}) \cup {"center"})
      BY <3>1, FS_AddElement
    <3>3. IsFiniteSet((({} \cup {"right"}) \cup {"center"}) \cup {"left"})
      BY <3>2, FS_AddElement
    <3>4. (({} \cup {"right"}) \cup {"center"}) \cup {"left"} = {"right", "center", "left"}
      OBVIOUS
    <3>5. QED
      BY <3>3, <3>4
  <2>3. IsFiniteSet(page.header)
    BY <2>1, <2>2, FS_Subset
  <2>4. QED
    BY <1>1, <2>3, FS_CardinalityType
<1>3. PICK e : e = Element("number", "whole", [part |-> 0], 200, 250)
  OBVIOUS
<1>4. PICK h : h = [k \in 1..n |-> Element("header", "whole", [part |-> k], 450, 200)]
  OBVIOUS
<1>5. a = <<e>> \o h
  <2>1. h = [k \in 1..Cardinality(page.header) |->
               Element("header", "whole", [part |-> k], 450, 200)]
    BY <1>1, <1>4
  <2>2. QED
    BY <1>3, <2>1, Zenon DEF HeadOfPage
<1>6. e \in ElementType /\ e.what = "number" /\ e.top = 200 /\ e.bottom = 450
  <2>1. PICK t, u, part : t = 200 /\ u = 250 /\ part = 0
    OBVIOUS
  <2>2. t \in Nat /\ u \in Nat /\ part \in Nat
    BY <2>1
  <2>3. Element("number", "whole", [part |-> part], t, u) \in ElementType
    BY <2>2, ElementsMade
  <2>4. e \in ElementType
    BY <1>3, <2>1, <2>3
  <2>5. e.what = "number" /\ e.top = 200 /\ e.bottom = 450
    BY <1>3 DEF Element
  <2>6. QED
    BY <2>4, <2>5
<1>7. ASSUME NEW k \in 1..n
      PROVE  h[k] \in ElementType /\ h[k].what = "header" /\ h[k].top = 450 /\ h[k].bottom = 650
  <2>1. h[k] = Element("header", "whole", [part |-> k], 450, 200)
    BY <1>4
  <2>2. k \in Nat /\ 450 \in Nat /\ 200 \in Nat
    BY <1>2
  <2>3. h[k] \in ElementType
    <3>1. PICK t, u : t = 450 /\ u = 200
      OBVIOUS
    <3>2. t \in Nat /\ u \in Nat
      BY <3>1
    <3>3. Element("header", "whole", [part |-> k], t, u) \in ElementType
      BY <2>2, <3>2, ElementsMade
    <3>4. QED
      BY <2>1, <3>1, <3>3
  <2>4. h[k].what = "header" /\ h[k].top = 450 /\ h[k].bottom = 650
    BY <2>1 DEF Element
  <2>5. QED
    BY <2>3, <2>4
<1>8. h \in Seq(ElementType) /\ DOMAIN h = 1..n
  <2>1. \A k \in 1..n : h[k] \in ElementType
    BY <1>7
  <2>2. h = [k \in 1..n |-> h[k]]
    BY <1>4
  <2>3. DOMAIN h = 1..n
    BY <1>4
  <2>4. QED
    BY <1>2, <2>1, <2>2, <2>3
<1>9. PICK b : b = <<e>>
  OBVIOUS
<1>10. b \in Seq(ElementType) /\ Len(b) = 1 /\ b[1] = e /\ DOMAIN b = {1}
  <2>1. e \in ElementType
    BY <1>6
  <2>2. b \in Seq(ElementType) /\ Len(b) = 1 /\ b[1] = e
    BY <1>9, <2>1
  <2>3. DOMAIN b = 1..Len(b)
    BY <2>2
  <2>4. QED
    BY <2>2, <2>3
<1>11. Stacked(b) /\ Between(b, 0, 450)
  BY <1>6, <1>10 DEF Stacked, Between
<1>12. Stacked(h) /\ Between(h, 450, 650)
  BY <1>7, <1>8 DEF Stacked, Between, Beside
<1>13. a \in Seq(ElementType) /\ Stacked(a) /\ Between(a, 0, 650)
  <2>1. PICK y, z : y = 450 /\ z = 650
    OBVIOUS
  <2>2. a = b \o h /\ y \in Nat /\ z \in Nat /\ y <= z
    BY <1>5, <1>9, <2>1
  <2>3. Stacked(b) /\ Between(b, 0, y) /\ Stacked(h) /\ Between(h, y, z)
    BY <1>11, <1>12, <2>1
  <2>4. a \in Seq(ElementType) /\ Stacked(a) /\ Between(a, 0, z)
    <3>1. h \in Seq(ElementType)
      BY <1>8
    <3>2. b \in Seq(ElementType)
      BY <1>10
    <3>3. QED
      BY <2>2, <2>3, <3>1, <3>2, PieceBelow
  <2>5. QED
    BY <2>1, <2>4
<1>14. \A k \in DOMAIN a : a[k].what \in {"number", "header"}
  <2>1. PICK N : N = Len(h)
    OBVIOUS
  <2>2. /\ DOMAIN a = 1..(1 + N)
        /\ \A k \in 1..1 : a[k] = b[k]
        /\ \A k \in 1..N : a[1 + k] = h[k]
    BY <1>5, <1>8, <1>9, <1>10, <2>1, ConcatFacts
  <2>3. N = n
    BY <1>2, <1>8, <2>1
  <2>4. \A k \in 1..(1 + n) : k = 1 \/ (k - 1 \in 1..n /\ k = 1 + (k - 1))
    BY <1>2
  <2>5. a[1].what = "number" /\ \A k \in 1..n : a[1 + k].what = "header"
    BY <1>6, <1>7, <1>10, <2>2, <2>3
  <2>6. QED
    BY <2>2, <2>3, <2>4, <2>5
<1>15. \A k \in DOMAIN a : a[k].what # "line" /\ a[k].what # "run on"
  BY <1>14
<1>16. QED
  BY <1>13, <1>15, NothingOn

\* What is drawn above the notes of a system.
TitleOf(system, y) ==
    <<Element("separator", "whole", [system |-> system], y, 0),
      Element("title", "whole", [system |-> system], y + 150, TitleHeight)>>

\* The separator and the title of a system of notes.
LEMMA TitlePiece ==
    ASSUME NEW system \in SystemNames, NEW y \in Nat, NEW a, a = TitleOf(system, y)
    PROVE  /\ a \in Seq(ElementType) /\ Stacked(a)
           /\ Between(a, y, y + 150 + TitleHeight)
           /\ \A column : LinesOn(a, column) = <<>>
           /\ \A other, column : NotesOn(a, other, column) = <<>>
<1>1. PICK e, f : /\ e = Element("separator", "whole", [system |-> system], y, 0)
                  /\ f = Element("title", "whole", [system |-> system], y + 150, TitleHeight)
  OBVIOUS
<1>2. y + 150 \in Nat /\ 0 \in Nat /\ TitleHeight \in Nat
  BY DEF TitleHeight
<1>3. e \in ElementType /\ f \in ElementType
  BY <1>1, <1>2, ElementsMade, ZenonT(30)
<1>4. /\ e.what = "separator" /\ e.top = y /\ e.bottom = y
      /\ f.what = "title" /\ f.top = y + 150 /\ f.bottom = y + 150 + TitleHeight
  BY <1>1 DEF Element
<1>5. a = <<e, f>>
  BY <1>1 DEF TitleOf
<1>6. a \in Seq(ElementType) /\ a[1] = e /\ a[2] = f /\ DOMAIN a = 1..2
  BY <1>3, <1>5
<1>7. \A k \in DOMAIN a : k = 1 \/ k = 2
  BY <1>6
<1>8. Between(a, y, y + 150 + TitleHeight)
  <2>1. /\ y <= e.top /\ e.bottom <= y + 150 + TitleHeight
        /\ y <= f.top /\ f.bottom <= y + 150 + TitleHeight
    BY <1>4 DEF TitleHeight
  <2>2. QED
    BY <1>6, <1>7, <2>1 DEF Between
<1>9. Stacked(a)
  <2>1. e.bottom <= f.top
    BY <1>4
  <2>2. \A i, j \in DOMAIN a : i < j => i = 1 /\ j = 2
    BY <1>6
  <2>3. QED
    BY <1>6, <2>1, <2>2 DEF Stacked
<1>10. \A k \in DOMAIN a : a[k].what # "line" /\ a[k].what # "run on"
  BY <1>4, <1>6, <1>7
<1>11. QED
  BY <1>6, <1>8, <1>9, <1>10, NothingOn

\* What is joined to nothing is unchanged.
LEMMA JoinedToNothing ==
    ASSUME NEW S, NEW p \in Seq(S)
    PROVE  <<>> \o p = p /\ p \o <<>> = p
OBVIOUS

------------------------------------------------------------------------------
\* The invariant.

\* It holds when the method begins.
LEMMA InitHolds == Init => DrawInv
<1> SUFFICES ASSUME Init PROVE DrawInv
  OBVIOUS
<1>1. drawn = <<Leftover>>
  BY DEF Init
<1>2. Leftover \in ElementType /\ Leftover.what = "line"
  BY DEF Leftover, Element, ElementType, Columns
<1>3. drawn \in Seq(ElementType) /\ \A k \in DOMAIN drawn : drawn[k].what # "run on"
  <2>1. <<Leftover>> \in Seq(ElementType)
    BY <1>2
  <2>2. \A k \in DOMAIN drawn : drawn[k] = Leftover
    BY <1>1
  <2>3. drawn \in Seq(ElementType)
    BY <1>1, <2>1
  <2>4. Leftover.what # "run on"
    BY <1>2
  <2>5. \A k \in DOMAIN drawn : drawn[k].what # "run on"
    BY <2>2, <2>4, Zenon
  <2>6. QED
    BY <2>3, <2>5
<1>4. TypeOK
  <2>1. /\ page \in PageModels /\ currentY = 0 /\ section = 1
        /\ canvasHeight = 9500 /\ stage = "clear"
    BY DEF Init, PageHeight
  <2>2. drawn \in Seq(ElementType)
    BY <1>3
  <2>3. QED
    BY <2>1, <2>2 DEF TypeOK
<1>5. StageInv /\ MainInv /\ AboveInv /\ OneBelowAnother
  BY DEF Init, StageInv, MainInv, AboveInv, OneBelowAnother
<1>6. NotesInv
  <2>1. \A system, column : NotesOn(drawn, system, column) = <<>>
    BY <1>3, NothingOn
  <2>2. \A s \in 1..3 : ~(s < section)
    BY DEF Init
  <2>3. QED
    BY <2>1, <2>2 DEF NotesInv
<1>7. QED
  BY <1>4, <1>5, <1>6 DEF DrawInv

\* What the page asks for does not change while it is drawn.
LEMMA PageStays ==
    ASSUME page' = page
    PROVE  /\ \A column : LinesWithWords(column)' = LinesWithWords(column)
           /\ \A system, column : (RunOnColumns(system)[column])' = RunOnColumns(system)[column]
<1>1. \A column : LinesWithWords(column)' = LinesWithWords(column)
  BY Zenon DEF LinesWithWords
<1>2. \A system : NoteCount(system)' = NoteCount(system)
  BY DEF NoteCount
<1>3. \A system, column : (RunOnColumns(system)[column])' = RunOnColumns(system)[column]
  BY <1>2, Zenon DEF RunOnColumns
<1>4. QED
  BY <1>1, <1>3

\* The number and the header keep it.
LEMMA DrawHeadKeeps == DrawInv /\ DrawHead => DrawInv'
<1> SUFFICES ASSUME DrawInv, DrawHead PROVE DrawInv'
  OBVIOUS
<1>1. TypeOK /\ StageInv
  BY DEF DrawInv
<1>2. PICK c : c = drawn'
  OBVIOUS
<1>3. c = HeadOfPage
  BY <1>2, Zenon DEF DrawHead, HeadOfPage
<1>4. /\ c \in Seq(ElementType) /\ Stacked(c) /\ Between(c, 0, 650)
      /\ \A column : LinesOn(c, column) = <<>>
      /\ \A system, column : NotesOn(c, system, column) = <<>>
  BY <1>1, <1>3, HeadPiece
<1>5. /\ stage = "clear" /\ stage' = "main" /\ section' = section /\ page' = page
      /\ canvasHeight' = canvasHeight /\ currentY' = 650
  BY DEF DrawHead
<1>6. section = 1
  BY <1>1, <1>5 DEF StageInv
<1>7. TypeOK'
  BY <1>1, <1>2, <1>4, <1>5 DEF TypeOK
<1>8. StageInv'
  BY <1>5, <1>6 DEF StageInv
<1>9. MainInv'
  BY <1>2, <1>4, <1>5 DEF MainInv
<1>10. NotesInv'
  <2>1. \A s \in 1..3 : ~(s < section')
    BY <1>5, <1>6
  <2>2. QED
    BY <1>2, <1>4, <2>1 DEF NotesInv
<1>11. AboveInv'
  BY <1>2, <1>4, <1>5 DEF AboveInv, Between
<1>12. OneBelowAnother'
  BY <1>2, <1>4, <1>5 DEF OneBelowAnother
<1>13. QED
  BY <1>7, <1>8, <1>9, <1>10, <1>11, <1>12 DEF DrawInv

\* The columns of the main text keep it.
LEMMA DrawMainKeeps == DrawInv /\ DrawMain => DrawInv'
<1> SUFFICES ASSUME DrawInv, DrawMain PROVE DrawInv'
  OBVIOUS
<1>1. TypeOK /\ StageInv /\ MainInv /\ NotesInv /\ AboveInv /\ OneBelowAnother
  BY DEF DrawInv
<1>2. /\ stage = "main" /\ stage' = "notes" /\ section' = section /\ page' = page
      /\ canvasHeight' = canvasHeight /\ currentY' = BelowMain
  BY DEF DrawMain
<1>3. PICK r : r = RenderTextColumn("right", currentY)
  OBVIOUS
<1>4. PICK l : l = RenderTextColumn("left", currentY)
  OBVIOUS
<1>5. PICK d : d = drawn \o r
  OBVIOUS
<1>6. PICK c : c = d \o l
  OBVIOUS
<1>7. drawn' = c
  BY <1>3, <1>4, <1>5, <1>6, Zenon DEF DrawMain
<1>8. PICK y : y = currentY
  OBVIOUS
<1>9. PICK p : p = ColumnBottom("right", y)
  OBVIOUS
<1>10. PICK q : q = ColumnBottom("left", y)
  OBVIOUS
<1>11. PICK z : z = BelowMain
  OBVIOUS
<1>12. y \in Nat /\ drawn \in Seq(ElementType) /\ "right" \in Columns /\ "left" \in Columns
  BY <1>1, <1>8 DEF TypeOK, Columns
<1>13. /\ r \in Seq(ElementType) /\ InColumn(r, "right") /\ Stacked(r)
       /\ p \in Nat /\ Between(r, y, p)
       /\ LinesOn(r, "right") = LinesWithWords("right")
       /\ LinesOn(r, "left") = <<>>
       /\ \A system, other : NotesOn(r, system, other) = <<>>
  <2>1. PICK column, other : column = "right" /\ other = "left"
    OBVIOUS
  <2>2. /\ r = RenderTextColumn(column, y) /\ p = ColumnBottom(column, y)
        /\ column \in Columns /\ other \in Columns /\ other # column /\ y \in Nat
    BY <1>3, <1>8, <1>9, <1>12, <2>1
  <2>3. /\ r \in Seq(ElementType) /\ InColumn(r, column) /\ Stacked(r)
        /\ p \in Nat /\ Between(r, y, p)
        /\ LinesOn(r, column) = LinesWithWords(column)
        /\ LinesOn(r, other) = <<>>
        /\ \A system, any : NotesOn(r, system, any) = <<>>
    BY <1>1, <2>2, MainPiece
  <2>4. QED
    BY <2>1, <2>3
<1>14. /\ l \in Seq(ElementType) /\ InColumn(l, "left") /\ Stacked(l)
       /\ q \in Nat /\ Between(l, y, q)
       /\ LinesOn(l, "left") = LinesWithWords("left")
       /\ LinesOn(l, "right") = <<>>
       /\ \A system, other : NotesOn(l, system, other) = <<>>
  <2>1. PICK column, other : column = "left" /\ other = "right"
    OBVIOUS
  <2>2. /\ l = RenderTextColumn(column, y) /\ q = ColumnBottom(column, y)
        /\ column \in Columns /\ other \in Columns /\ other # column /\ y \in Nat
    BY <1>4, <1>8, <1>10, <1>12, <2>1
  <2>3. /\ l \in Seq(ElementType) /\ InColumn(l, column) /\ Stacked(l)
        /\ q \in Nat /\ Between(l, y, q)
        /\ LinesOn(l, column) = LinesWithWords(column)
        /\ LinesOn(l, other) = <<>>
        /\ \A system, any : NotesOn(l, system, any) = <<>>
    BY <1>1, <2>2, MainPiece
  <2>4. QED
    BY <2>1, <2>3
<1>15. z \in Nat /\ p <= z /\ q <= z /\ y <= z
  <2>1. z = Larger(p, q) + 150
    BY <1>8, <1>9, <1>10, <1>11 DEF BelowMain, SeparatorHeight
  <2>2. y <= p
    <3>1. Len(page.main["right"]) \in Nat
      BY <1>1, <1>12, PageTypes
    <3>2. QED
      BY <1>9, <1>12, <3>1 DEF ColumnBottom, MainLineHeight
  <2>3. QED
    BY <1>12, <1>13, <1>14, <2>1, <2>2 DEF Larger
<1>16. Stacked(drawn) /\ Between(drawn, 0, y)
  <2>1. Stacked(drawn)
    BY <1>1, <1>2 DEF OneBelowAnother
  <2>2. \A k \in DOMAIN drawn : drawn[k].bottom <= y /\ 0 <= drawn[k].top
    <3>1. \A k \in DOMAIN drawn : drawn[k] \in ElementType
      <4>1. drawn \in Seq(ElementType)
        BY <1>12
      <4>2. QED
        BY <4>1
    <3>2. ASSUME NEW k \in DOMAIN drawn PROVE 0 <= drawn[k].top
      <4>1. drawn[k].top \in Nat
        BY <3>1, ElementFacts
      <4>2. QED
        BY <4>1
    <3>3. QED
      BY <1>1, <1>2, <1>8, <3>2 DEF AboveInv
  <2>3. QED
    BY <2>1, <2>2 DEF Between
<1>17. /\ d \in Seq(ElementType) /\ c \in Seq(ElementType)
       /\ Stacked(c) /\ Between(c, 0, z)
  <2>1. OnCanvas(drawn, y)
    BY <1>12, <1>16 DEF OnCanvas
  <2>2. IsColumn(r, "right", y, p)
    BY <1>13 DEF IsColumn
  <2>3. IsColumn(l, "left", y, q)
    BY <1>14 DEF IsColumn
  <2>4. y \in Nat /\ p \in Nat /\ q \in Nat
    BY <1>12, <1>13, <1>14
  <2>5. drawn \o r \in Seq(ElementType) /\ OnCanvas(WithColumns(drawn, r, l), z)
    BY <1>15, <2>1, <2>2, <2>3, <2>4, TwoColumnsBelow
  <2>6. QED
    BY <1>5, <1>6, <2>5 DEF OnCanvas, WithColumns
<1>18. /\ LinesOn(c, "right") = LinesWithWords("right")
       /\ LinesOn(c, "left") = LinesWithWords("left")
  <2>1. \A column : /\ AllOn(drawn, r, d, column) /\ AllOn(d, l, c, column)
                    /\ LinesOn(r, column) \in Seq(Nat) /\ LinesOn(l, column) \in Seq(Nat)
    BY <1>5, <1>6, <1>12, <1>13, <1>14, <1>17, DrawnAfter
  <2>2. LinesOn(drawn, "right") = <<>> /\ LinesOn(drawn, "left") = <<>>
    BY <1>1, <1>2 DEF MainInv, Columns
  <2>3. PICK u, v : u = LinesOn(r, "right") /\ v = LinesOn(l, "left")
    OBVIOUS
  <2>4. <<>> \o u = u /\ u \o <<>> = u /\ <<>> \o v = v /\ <<>> \in Seq(Nat) /\ <<>> \o <<>> = <<>>
    BY <2>1, <2>3, JoinedToNothing
  <2>5. LinesOn(c, "right") = (<<>> \o u) \o <<>>
    BY <1>14, <2>1, <2>2, <2>3, Zenon DEF AllOn
  <2>6. LinesOn(c, "left") = (<<>> \o <<>>) \o v
    BY <1>13, <2>1, <2>2, <2>3, Zenon DEF AllOn
  <2>7. QED
    BY <1>13, <1>14, <2>3, <2>4, <2>5, <2>6
<1>19. \A system, column : NotesOn(c, system, column) = NotesOn(drawn, system, column)
  <2>1. ASSUME NEW system, NEW column
        PROVE  NotesOn(c, system, column) = NotesOn(drawn, system, column)
    <3>1. /\ AllNotesOn(drawn, r, d, system, column) /\ AllNotesOn(d, l, c, system, column)
          /\ NotesOn(drawn, system, column) \in Seq(EntryType)
      BY <1>5, <1>6, <1>12, <1>13, <1>14, <1>17, DrawnAfter
    <3>2. PICK u : u = NotesOn(drawn, system, column)
      OBVIOUS
    <3>3. u \o <<>> = u
      BY <3>1, <3>2, JoinedToNothing
    <3>4. NotesOn(c, system, column) = (u \o <<>>) \o <<>>
      BY <1>13, <1>14, <3>1, <3>2, Zenon DEF AllNotesOn
    <3>5. QED
      BY <3>2, <3>3, <3>4
  <2>2. QED
    BY <2>1
<1>20. TypeOK'
  BY <1>1, <1>2, <1>7, <1>11, <1>15, <1>17 DEF TypeOK
<1>21. StageInv'
  BY <1>1, <1>2 DEF StageInv
<1>22. MainInv'
  <2>1. \A column \in Columns : LinesOn(c, column) = LinesWithWords(column)'
    BY <1>2, <1>18, PageStays DEF Columns
  <2>2. QED
    BY <1>2, <1>7, <2>1 DEF MainInv
<1>23. NotesInv'
  <2>1. ASSUME NEW s \in 1..3, NEW column \in Columns
        PROVE  NotesOn(c, Systems[s], column)
                  = IF s < section THEN RunOnColumns(Systems[s])[column] ELSE <<>>
    BY <1>1, <1>19 DEF NotesInv
  <2>2. QED
    BY <1>2, <1>7, <2>1, PageStays DEF NotesInv
<1>24. AboveInv'
  BY <1>2, <1>7, <1>11, <1>17 DEF AboveInv, Between
<1>25. OneBelowAnother'
  BY <1>2, <1>7, <1>17 DEF OneBelowAnother
<1>26. QED
  BY <1>20, <1>21, <1>22, <1>23, <1>24, <1>25 DEF DrawInv

\* The systems by their numbers.
LEMMA SystemsTold ==
    /\ \A s \in 1..3 : Systems[s] \in SystemNames
    /\ \A s, t \in 1..3 : s # t => Systems[s] # Systems[t]
    /\ \A system \in SystemNames : \E s \in 1..3 : Systems[s] = system
<1>1. Systems[1] = "A" /\ Systems[2] = "B" /\ Systems[3] = "C"
  BY DEF Systems
<1>2. \A s \in 1..3 : s = 1 \/ s = 2 \/ s = 3
  OBVIOUS
<1>3. QED
  BY <1>1, <1>2 DEF SystemNames

\* The notes of a system keep it.
LEMMA DrawNotesKeeps == DrawInv /\ DrawNotes => DrawInv'
<1> SUFFICES ASSUME DrawInv, DrawNotes PROVE DrawInv'
  OBVIOUS
<1>1. TypeOK /\ StageInv /\ MainInv /\ NotesInv /\ AboveInv /\ OneBelowAnother
  BY DEF DrawInv
<1>2. /\ stage = "notes" /\ stage' = stage /\ section <= 3 /\ section' = section + 1
      /\ page' = page /\ canvasHeight' = canvasHeight
  BY DEF DrawNotes
<1>3. PICK y : y = currentY
  OBVIOUS
<1>4. PICK n : n = y + 150 + TitleHeight
  OBVIOUS
<1>5. PICK t : t = TitleOf(System, y)
  OBVIOUS
<1>6. PICK r : r = RenderRunOnColumn("right", n)
  OBVIOUS
<1>7. PICK l : l = RenderRunOnColumn("left", n)
  OBVIOUS
<1>8. PICK b : b = drawn \o t
  OBVIOUS
<1>9. PICK d : d = b \o r
  OBVIOUS
<1>10. PICK c : c = d \o l
  OBVIOUS
<1>11. PICK hr : hr = RunOnHeight("right")
  OBVIOUS
<1>12. PICK hl : hl = RunOnHeight("left")
  OBVIOUS
<1>13. PICK z : z = n + Larger(hr, hl) + 100
  OBVIOUS
<1>14. drawn' = c
  BY <1>3, <1>4, <1>5, <1>6, <1>7, <1>8, <1>9, <1>10, Zenon DEF DrawNotes, TitleOf
<1>15. currentY' = z
  BY <1>3, <1>4, <1>11, <1>12, <1>13, Zenon DEF DrawNotes
<1>16. /\ y \in Nat /\ n \in Nat /\ y <= n /\ drawn \in Seq(ElementType)
       /\ section \in 1..3 /\ section + 1 \in 1..4
  BY <1>1, <1>2, <1>3, <1>4 DEF TypeOK, TitleHeight
<1>17. System \in SystemNames
  BY <1>16, SystemsTold DEF System
<1>18. /\ t \in Seq(ElementType) /\ Stacked(t) /\ Between(t, y, n)
       /\ \A column : LinesOn(t, column) = <<>>
       /\ \A other, column : NotesOn(t, other, column) = <<>>
  <2>1. y \in Nat
    BY <1>16
  <2>2. QED
    BY <1>4, <1>5, <1>17, <2>1, TitlePiece
<1>19. /\ r \in Seq(ElementType) /\ InColumn(r, "right") /\ Stacked(r)
       /\ hr \in Nat /\ Between(r, n, n + hr)
       /\ NotesOn(r, System, "right") = RunOnColumns(System)["right"]
       /\ \A system, other : system # System \/ other # "right"
             => NotesOn(r, system, other) = <<>>
       /\ \A other : LinesOn(r, other) = <<>>
  <2>1. PICK column : column = "right"
    OBVIOUS
  <2>2. /\ r = RenderRunOnColumn(column, n) /\ hr = RunOnHeight(column)
        /\ column \in Columns /\ n \in Nat
    BY <1>6, <1>11, <1>16, <2>1 DEF Columns
  <2>3. /\ r \in Seq(ElementType) /\ InColumn(r, column) /\ Stacked(r)
        /\ hr \in Nat /\ Between(r, n, n + hr)
        /\ NotesOn(r, System, column) = RunOnColumns(System)[column]
        /\ \A other : LinesOn(r, other) = <<>>
    BY <1>1, <1>17, <2>2, NotesPiece
  <2>4. ASSUME NEW system, NEW other, system # System \/ other # column
        PROVE  NotesOn(r, system, other) = <<>>
    BY <1>1, <1>17, <2>2, <2>4, NotesPiece
  <2>5. QED
    BY <2>1, <2>3, <2>4
<1>20. /\ l \in Seq(ElementType) /\ InColumn(l, "left") /\ Stacked(l)
       /\ hl \in Nat /\ Between(l, n, n + hl)
       /\ NotesOn(l, System, "left") = RunOnColumns(System)["left"]
       /\ \A system, other : system # System \/ other # "left"
             => NotesOn(l, system, other) = <<>>
       /\ \A other : LinesOn(l, other) = <<>>
  <2>1. PICK column : column = "left"
    OBVIOUS
  <2>2. /\ l = RenderRunOnColumn(column, n) /\ hl = RunOnHeight(column)
        /\ column \in Columns /\ n \in Nat
    BY <1>7, <1>12, <1>16, <2>1 DEF Columns
  <2>3. /\ l \in Seq(ElementType) /\ InColumn(l, column) /\ Stacked(l)
        /\ hl \in Nat /\ Between(l, n, n + hl)
        /\ NotesOn(l, System, column) = RunOnColumns(System)[column]
        /\ \A other : LinesOn(l, other) = <<>>
    BY <1>1, <1>17, <2>2, NotesPiece
  <2>4. ASSUME NEW system, NEW other, system # System \/ other # column
        PROVE  NotesOn(l, system, other) = <<>>
    BY <1>1, <1>17, <2>2, <2>4, NotesPiece
  <2>5. QED
    BY <2>1, <2>3, <2>4
<1>21. PICK p, q : p = n + hr /\ q = n + hl
  OBVIOUS
<1>22. /\ p \in Nat /\ q \in Nat /\ z \in Nat /\ n <= z /\ p <= z /\ q <= z
  <2>1. hr \in Nat /\ hl \in Nat /\ n \in Nat
    BY <1>16, <1>19, <1>20
  <2>2. QED
    BY <1>13, <1>21, <2>1 DEF Larger
<1>23. Stacked(drawn) /\ Between(drawn, 0, y)
  <2>1. Stacked(drawn)
    BY <1>1, <1>2 DEF OneBelowAnother
  <2>2. drawn \in Seq(ElementType)
    BY <1>16
  <2>3. ASSUME NEW k \in DOMAIN drawn PROVE drawn[k].bottom <= y /\ 0 <= drawn[k].top
    <3>1. drawn[k] \in ElementType
      BY <2>2
    <3>2. drawn[k].top \in Nat
      BY <3>1, ElementFacts
    <3>3. drawn[k].bottom <= y
      BY <1>1, <1>2, <1>3 DEF AboveInv
    <3>4. QED
      BY <3>2, <3>3
  <2>4. QED
    BY <2>1, <2>3 DEF Between
<1>24. b \in Seq(ElementType) /\ Stacked(b) /\ Between(b, 0, n)
  <2>1. drawn \in Seq(ElementType) /\ y \in Nat /\ n \in Nat /\ y <= n
    BY <1>16
  <2>2. t \in Seq(ElementType) /\ Stacked(t) /\ Between(t, y, n)
    BY <1>18
  <2>3. QED
    BY <1>8, <1>23, <2>1, <2>2, PieceBelow
<1>25. /\ d \in Seq(ElementType) /\ c \in Seq(ElementType)
       /\ Stacked(c) /\ Between(c, 0, z)
  <2>1. OnCanvas(b, n)
    BY <1>24 DEF OnCanvas
  <2>2. IsColumn(r, "right", n, p)
    BY <1>19, <1>21 DEF IsColumn
  <2>3. IsColumn(l, "left", n, q)
    BY <1>20, <1>21 DEF IsColumn
  <2>4. n \in Nat
    BY <1>16
  <2>5. b \o r \in Seq(ElementType) /\ OnCanvas(WithColumns(b, r, l), z)
    BY <1>22, <2>1, <2>2, <2>3, <2>4, TwoColumnsBelow
  <2>6. QED
    BY <1>9, <1>10, <2>5 DEF OnCanvas, WithColumns
<1>26. /\ drawn \in Seq(ElementType) /\ t \in Seq(ElementType)
       /\ r \in Seq(ElementType) /\ l \in Seq(ElementType)
  BY <1>16, <1>18, <1>19, <1>20
<1>27. \A column : LinesOn(c, column) = LinesOn(drawn, column)
  <2>1. ASSUME NEW column
        PROVE  LinesOn(c, column) = LinesOn(drawn, column)
    <3>1. AllOn(drawn, t, b, column) /\ LinesOn(drawn, column) \in Seq(Nat)
      BY <1>8, <1>26, DrawnAfter
    <3>2. AllOn(b, r, d, column)
      BY <1>9, <1>24, <1>26, DrawnAfter
    <3>3. AllOn(d, l, c, column)
      BY <1>10, <1>25, <1>26, DrawnAfter
    <3>4. PICK u : u = LinesOn(drawn, column)
      OBVIOUS
    <3>5. u \o <<>> = u
      BY <3>1, <3>4, JoinedToNothing
    <3>6. LinesOn(c, column) = ((u \o <<>>) \o <<>>) \o <<>>
      BY <1>18, <1>19, <1>20, <3>1, <3>2, <3>3, <3>4, Zenon DEF AllOn
    <3>7. QED
      BY <3>4, <3>5, <3>6
  <2>2. QED
    BY <2>1
<1>28. /\ \A system, column : system # System
             => NotesOn(c, system, column) = NotesOn(drawn, system, column)
       /\ NotesOn(c, System, "right") = RunOnColumns(System)["right"]
       /\ NotesOn(c, System, "left") = RunOnColumns(System)["left"]
  <2>1. ASSUME NEW system, NEW column
        PROVE  /\ AllNotesOn(drawn, t, b, system, column)
               /\ AllNotesOn(b, r, d, system, column)
               /\ AllNotesOn(d, l, c, system, column)
               /\ NotesOn(drawn, system, column) \in Seq(EntryType)
               /\ NotesOn(r, system, column) \in Seq(EntryType)
               /\ NotesOn(l, system, column) \in Seq(EntryType)
    <3>1. /\ AllNotesOn(drawn, t, b, system, column)
          /\ NotesOn(drawn, system, column) \in Seq(EntryType)
      BY <1>8, <1>26, DrawnAfter
    <3>2. /\ AllNotesOn(b, r, d, system, column)
          /\ NotesOn(r, system, column) \in Seq(EntryType)
      BY <1>9, <1>24, <1>26, DrawnAfter
    <3>3. /\ AllNotesOn(d, l, c, system, column)
          /\ NotesOn(l, system, column) \in Seq(EntryType)
      BY <1>10, <1>25, <1>26, DrawnAfter
    <3>4. QED
      BY <3>1, <3>2, <3>3
  <2>2. ASSUME NEW system, NEW column, system # System
        PROVE  NotesOn(c, system, column) = NotesOn(drawn, system, column)
    <3>1. PICK u : u = NotesOn(drawn, system, column)
      OBVIOUS
    <3>2. u \o <<>> = u
      BY <2>1, <3>1, JoinedToNothing
    <3>3. NotesOn(c, system, column) = ((u \o <<>>) \o <<>>) \o <<>>
      <4>1. /\ NotesOn(t, system, column) = <<>> /\ NotesOn(r, system, column) = <<>>
            /\ NotesOn(l, system, column) = <<>>
        BY <1>18, <1>19, <1>20, <2>2
      <4>2. QED
        BY <2>1, <3>1, <4>1, Zenon DEF AllNotesOn
    <3>4. QED
      BY <3>1, <3>2, <3>3
  <2>3. /\ NotesOn(drawn, System, "right") = <<>>
        /\ NotesOn(drawn, System, "left") = <<>>
    BY <1>1, <1>16 DEF NotesInv, Columns, System
  <2>4. PICK u, v : u = NotesOn(r, System, "right") /\ v = NotesOn(l, System, "left")
    OBVIOUS
  <2>5. u \in Seq(EntryType) /\ v \in Seq(EntryType) /\ <<>> \in Seq(EntryType)
    BY <2>1, <2>4
  <2>6. <<>> \o u = u /\ u \o <<>> = u /\ <<>> \o v = v /\ <<>> \o <<>> = <<>>
    BY <2>5, JoinedToNothing
  <2>7. NotesOn(c, System, "right") = ((<<>> \o <<>>) \o u) \o <<>>
    <3>1. NotesOn(t, System, "right") = <<>> /\ NotesOn(l, System, "right") = <<>>
      BY <1>18, <1>20
    <3>2. QED
      BY <2>1, <2>3, <2>4, <3>1, Zenon DEF AllNotesOn
  <2>8. NotesOn(c, System, "left") = ((<<>> \o <<>>) \o <<>>) \o v
    <3>1. NotesOn(t, System, "left") = <<>> /\ NotesOn(r, System, "left") = <<>>
      BY <1>18, <1>19
    <3>2. QED
      BY <2>1, <2>3, <2>4, <3>1, Zenon DEF AllNotesOn
  <2>9. QED
    BY <1>19, <1>20, <2>2, <2>4, <2>6, <2>7, <2>8
<1>29. TypeOK'
  <2>1. /\ c \in Seq(ElementType) /\ z \in Nat /\ section + 1 \in 1..4
    BY <1>16, <1>22, <1>25
  <2>2. QED
    BY <1>1, <1>2, <1>14, <1>15, <2>1 DEF TypeOK
<1>30. StageInv'
  BY <1>1, <1>2 DEF StageInv
<1>31. MainInv'
  <2>1. \A column \in Columns : LinesOn(c, column) = LinesWithWords(column)
    BY <1>1, <1>2, <1>27 DEF MainInv
  <2>2. \A column \in Columns : LinesOn(c, column) = LinesWithWords(column)'
    BY <1>2, <2>1, PageStays
  <2>3. QED
    BY <1>2, <1>14, <2>2 DEF MainInv
<1>32. NotesInv'
  <2>1. ASSUME NEW s \in 1..3, NEW column \in Columns
        PROVE  NotesOn(c, Systems[s], column)
                  = IF s < section + 1 THEN RunOnColumns(Systems[s])[column] ELSE <<>>
    <3>1. CASE s = section
      <4>1. Systems[s] = System /\ s < section + 1
        BY <1>16, <3>1 DEF System
      <4>2. QED
        BY <1>28, <4>1 DEF Columns
    <3>2. CASE s # section
      <4>1. Systems[s] # System
        BY <1>16, <3>2, SystemsTold DEF System
      <4>2. s < section + 1 <=> s < section
        BY <1>16, <3>2
      <4>3. NotesOn(drawn, Systems[s], column)
               = IF s < section THEN RunOnColumns(Systems[s])[column] ELSE <<>>
        BY <1>1 DEF NotesInv
      <4>4. QED
        BY <1>28, <4>1, <4>2, <4>3
    <3>3. QED
      BY <3>1, <3>2
  <2>2. QED
    BY <1>2, <1>14, <2>1, PageStays DEF NotesInv
<1>33. AboveInv'
  BY <1>2, <1>14, <1>15, <1>25 DEF AboveInv, Between
<1>34. OneBelowAnother'
  BY <1>2, <1>14, <1>25 DEF OneBelowAnother
<1>35. QED
  BY <1>29, <1>30, <1>31, <1>32, <1>33, <1>34 DEF DrawInv

\* A system without notes keeps it.
LEMMA SkipNotesKeeps == DrawInv /\ SkipNotes => DrawInv'
<1> SUFFICES ASSUME DrawInv, SkipNotes PROVE DrawInv'
  OBVIOUS
<1>1. TypeOK /\ StageInv /\ MainInv /\ NotesInv /\ AboveInv /\ OneBelowAnother
  BY DEF DrawInv
<1>2. /\ stage = "notes" /\ stage' = stage /\ section' = section + 1 /\ page' = page
      /\ drawn' = drawn /\ currentY' = currentY /\ canvasHeight' = canvasHeight
      /\ NoteCount(System) = 0 /\ section <= 3
  BY DEF SkipNotes
<1>3. section \in 1..3 /\ section + 1 \in 1..4
  BY <1>1, <1>2 DEF TypeOK
<1>4. System \in SystemNames
  BY <1>3, SystemsTold DEF System
<1>5. RunOnColumns(System)["right"] = <<>> /\ RunOnColumns(System)["left"] = <<>>
  <2>1. PICK half \in 0..NoteCount(System) :
              /\ RunOnColumns(System)["right"] = RunOn(System, 0, half)
              /\ RunOnColumns(System)["left"] = RunOn(System, half, NoteCount(System) - half)
    BY <1>1, <1>4, ColumnTypes
  <2>2. half = 0 /\ NoteCount(System) - half = 0
    <3>1. NoteCount(System) = 0
      BY <1>2
    <3>2. half \in 0..NoteCount(System)
      BY <2>1
    <3>3. half \in 0..0
      BY <3>1, <3>2
    <3>4. half = 0
      BY <3>3
    <3>5. 0 - 0 = 0
      OBVIOUS
    <3>6. QED
      BY <3>1, <3>4, <3>5
  <2>3. PICK none : none = 0
    OBVIOUS
  <2>4. none \in Nat
    BY <2>3
  <2>5. /\ RunOn(System, none, none) \in Seq(EntryType)
        /\ Len(RunOn(System, none, none)) = none
    BY <1>4, <2>4, RunOnTypes
  <2>6. RunOn(System, none, none) = <<>>
    BY <2>3, <2>5
  <2>7. QED
    BY <2>1, <2>2, <2>3, <2>6
<1>6. TypeOK'
  BY <1>1, <1>2, <1>3 DEF TypeOK
<1>7. StageInv'
  BY <1>1, <1>2 DEF StageInv
<1>8. MainInv'
  <2>1. \A column \in Columns : LinesOn(drawn, column) = LinesWithWords(column)
    BY <1>1, <1>2 DEF MainInv
  <2>2. \A column \in Columns : LinesOn(drawn, column) = LinesWithWords(column)'
    BY <1>2, <2>1, PageStays
  <2>3. QED
    BY <1>2, <2>2 DEF MainInv
<1>9. NotesInv'
  <2>1. ASSUME NEW s \in 1..3, NEW column \in Columns
        PROVE  NotesOn(drawn, Systems[s], column)
                  = IF s < section + 1 THEN RunOnColumns(Systems[s])[column] ELSE <<>>
    <3>1. NotesOn(drawn, Systems[s], column)
             = IF s < section THEN RunOnColumns(Systems[s])[column] ELSE <<>>
      BY <1>1 DEF NotesInv
    <3>2. CASE s = section
      <4>1. Systems[s] = System /\ s < section + 1 /\ ~(s < section)
        BY <1>3, <3>2 DEF System
      <4>2. RunOnColumns(Systems[s])[column] = <<>>
        BY <1>5, <4>1 DEF Columns
      <4>3. QED
        BY <3>1, <4>1, <4>2
    <3>3. CASE s # section
      <4>1. s < section + 1 <=> s < section
        BY <1>3, <3>3
      <4>2. QED
        BY <3>1, <4>1
    <3>4. QED
      BY <3>2, <3>3
  <2>2. QED
    BY <1>2, <2>1, PageStays DEF NotesInv
<1>10. AboveInv'
  BY <1>1, <1>2 DEF AboveInv
<1>11. OneBelowAnother'
  BY <1>1, <1>2 DEF OneBelowAnother
<1>12. QED
  BY <1>6, <1>7, <1>8, <1>9, <1>10, <1>11 DEF DrawInv

\* The height of the canvas keeps it: it is below the height reached.
LEMMA SizeCanvasKeeps == DrawInv /\ SizeCanvas => DrawInv'
<1> SUFFICES ASSUME DrawInv, SizeCanvas PROVE DrawInv'
  OBVIOUS
<1>1. TypeOK /\ StageInv /\ MainInv /\ NotesInv /\ AboveInv /\ OneBelowAnother
  BY DEF DrawInv
<1>2. /\ stage = "notes" /\ stage' = "drawn" /\ section' = section /\ page' = page
      /\ drawn' = drawn /\ currentY' = currentY /\ section > 3
      /\ canvasHeight' = Larger(PageHeight, currentY + 500)
  BY DEF SizeCanvas
<1>3. PICK z : z = canvasHeight'
  OBVIOUS
<1>4. z \in Nat /\ currentY <= z /\ currentY \in Nat
  BY <1>1, <1>2, <1>3 DEF TypeOK, Larger, PageHeight
<1>5. section = 4
  BY <1>1, <1>2 DEF TypeOK
<1>6. TypeOK'
  BY <1>1, <1>2, <1>3, <1>4 DEF TypeOK
<1>7. StageInv'
  BY <1>2, <1>5 DEF StageInv
<1>8. MainInv'
  <2>1. \A column \in Columns : LinesOn(drawn, column) = LinesWithWords(column)
    BY <1>1, <1>2 DEF MainInv
  <2>2. \A column \in Columns : LinesOn(drawn, column) = LinesWithWords(column)'
    BY <1>2, <2>1, PageStays
  <2>3. QED
    BY <1>2, <2>2 DEF MainInv
<1>9. NotesInv'
  <2>1. \A s \in 1..3 : \A column \in Columns :
           NotesOn(drawn, Systems[s], column)
              = IF s < section THEN RunOnColumns(Systems[s])[column] ELSE <<>>
    BY <1>1 DEF NotesInv
  <2>2. QED
    BY <1>2, <2>1, PageStays DEF NotesInv
<1>10. AboveInv'
  BY <1>1, <1>2 DEF AboveInv
<1>11. OneBelowAnother'
  <2>1. ASSUME NEW k \in DOMAIN drawn PROVE drawn[k].bottom <= z
    <3>1. drawn \in Seq(ElementType)
      BY <1>1 DEF TypeOK
    <3>2. drawn[k] \in ElementType
      BY <3>1
    <3>3. drawn[k].bottom \in Nat
      BY <3>2, ElementFacts
    <3>4. drawn[k].bottom <= currentY
      BY <1>1, <1>2 DEF AboveInv
    <3>5. QED
      BY <1>4, <3>3, <3>4
  <2>2. Stacked(drawn)
    BY <1>1, <1>2 DEF OneBelowAnother
  <2>3. QED
    BY <1>2, <1>3, <2>1, <2>2 DEF OneBelowAnother
<1>12. QED
  BY <1>6, <1>7, <1>8, <1>9, <1>10, <1>11 DEF DrawInv

\* And so does a step of something else.
LEMMA StutterKeeps == DrawInv /\ UNCHANGED vars => DrawInv'
<1> SUFFICES ASSUME DrawInv, UNCHANGED vars PROVE DrawInv'
  OBVIOUS
<1>1. TypeOK /\ StageInv /\ MainInv /\ NotesInv /\ AboveInv /\ OneBelowAnother
  BY DEF DrawInv
<1>2. /\ stage' = stage /\ section' = section /\ page' = page
      /\ drawn' = drawn /\ currentY' = currentY /\ canvasHeight' = canvasHeight
  BY DEF vars
<1>3. TypeOK'
  BY <1>1, <1>2 DEF TypeOK
<1>4. StageInv'
  BY <1>1, <1>2 DEF StageInv
<1>5. MainInv'
  <2>1. stage # "clear" =>
           \A column \in Columns :
              LinesOn(drawn, column) = IF stage = "main" THEN <<>> ELSE LinesWithWords(column)
    BY <1>1 DEF MainInv
  <2>2. QED
    BY <1>2, <2>1, PageStays DEF MainInv
<1>6. NotesInv'
  <2>1. \A s \in 1..3 : \A column \in Columns :
           NotesOn(drawn, Systems[s], column)
              = IF s < section THEN RunOnColumns(Systems[s])[column] ELSE <<>>
    BY <1>1 DEF NotesInv
  <2>2. QED
    BY <1>2, <2>1, PageStays DEF NotesInv
<1>7. AboveInv'
  BY <1>1, <1>2 DEF AboveInv
<1>8. OneBelowAnother'
  BY <1>1, <1>2 DEF OneBelowAnother
<1>9. QED
  BY <1>3, <1>4, <1>5, <1>6, <1>7, <1>8 DEF DrawInv

\* The invariant holds whatever page is drawn.
THEOREM DrawSafe == Spec => []DrawInv
<1>1. DrawInv /\ [Next]_vars => DrawInv'
  BY DrawHeadKeeps, DrawMainKeeps, DrawNotesKeeps, SkipNotesKeeps, SizeCanvasKeeps,
     StutterKeeps DEF Next
<1>2. QED
  BY <1>1, InitHolds, PTL DEF Spec

\* Every variable has its type: no letter and no symbol is asked for beyond the end
\* of its array.
THEOREM TypeCorrect == Spec => []TypeOK
<1>1. DrawInv => TypeOK
  BY DEF DrawInv
<1>2. QED
  BY <1>1, DrawSafe, PTL

\* Nothing is drawn over what was drawn before, and all of it is on the canvas.
THEOREM NothingOverdrawn == Spec => []OneBelowAnother
<1>1. DrawInv => OneBelowAnother
  BY DEF DrawInv
<1>2. QED
  BY <1>1, DrawSafe, PTL

------------------------------------------------------------------------------
\* What is read on the page.

\* The two columns of a system, one after the other.
BothColumns(system) == RunOnColumns(system)["right"] \o RunOnColumns(system)["left"]

\* The two columns of a system read one after the other: its notes in order, each
\* behind the marker of its place among all of them.
LEMMA ColumnsRead ==
    ASSUME TypeOK, NEW system \in SystemNames, NEW p, p = BothColumns(system)
    PROVE  /\ DOMAIN p = 1..NoteCount(system) /\ Len(p) = NoteCount(system)
           /\ \A i \in 1..NoteCount(system) :
                 p[i].note = i /\ p[i].marker = Marker(system, i - 1)
<1>1. PICK n : n = NoteCount(system)
  OBVIOUS
<1>2. PICK half \in 0..n :
            /\ RunOnColumns(system)["right"] = RunOn(system, 0, half)
            /\ RunOnColumns(system)["left"] = RunOn(system, half, n - half)
            /\ n - half \in Nat
  BY <1>1, ColumnTypes
<1>3. PICK r : r = RunOnColumns(system)["right"]
  OBVIOUS
<1>4. PICK l : l = RunOnColumns(system)["left"]
  OBVIOUS
<1>5. PICK first, rest : first = 0 /\ rest = n - half
  OBVIOUS
<1>6. n \in Nat /\ half \in Nat /\ first \in Nat /\ rest \in Nat /\ half + rest = n
  <2>1. n \in Nat
    BY <1>1, PageTypes
  <2>2. half \in 0..n
    BY <1>2
  <2>3. QED
    BY <1>5, <2>1, <2>2
<1>7. r = RunOn(system, first, half) /\ l = RunOn(system, half, rest)
  BY <1>2, <1>3, <1>4, <1>5
<1>8. /\ r \in Seq(EntryType) /\ Len(r) = half
      /\ \A i \in 1..half : r[i] = [note |-> first + i, marker |-> Marker(system, first + i - 1)]
  <2>1. first \in Nat /\ half \in Nat
    BY <1>6
  <2>2. /\ RunOn(system, first, half) \in Seq(EntryType)
        /\ Len(RunOn(system, first, half)) = half
        /\ \A i \in 1..half :
              RunOn(system, first, half)[i]
                 = [note |-> first + i, marker |-> Marker(system, first + i - 1)]
    BY <2>1, RunOnTypes
  <2>3. QED
    BY <1>7, <2>2
<1>9. /\ l \in Seq(EntryType) /\ Len(l) = rest
      /\ \A i \in 1..rest : l[i] = [note |-> half + i, marker |-> Marker(system, half + i - 1)]
  <2>1. half \in Nat /\ rest \in Nat
    BY <1>6
  <2>2. /\ RunOn(system, half, rest) \in Seq(EntryType)
        /\ Len(RunOn(system, half, rest)) = rest
        /\ \A i \in 1..rest :
              RunOn(system, half, rest)[i]
                 = [note |-> half + i, marker |-> Marker(system, half + i - 1)]
    BY <2>1, RunOnTypes
  <2>3. QED
    BY <1>7, <2>2
<1>10. p = r \o l
  BY <1>3, <1>4 DEF BothColumns
<1>11. /\ DOMAIN p = 1..(half + rest) /\ Len(p) = half + rest
       /\ \A i \in 1..half : p[i] = r[i]
       /\ \A i \in 1..rest : p[half + i] = l[i]
  <2>1. r \in Seq(EntryType) /\ Len(r) = half /\ l \in Seq(EntryType) /\ Len(l) = rest
    BY <1>8, <1>9
  <2>2. QED
    <3>1. PICK x, y : x = Len(r) /\ y = Len(l)
      OBVIOUS
    <3>2. r \in Seq(EntryType) /\ l \in Seq(EntryType)
      BY <2>1
    <3>3. /\ DOMAIN p = 1..(x + y) /\ Len(p) = x + y
          /\ \A i \in 1..x : p[i] = r[i]
          /\ \A i \in 1..y : p[x + i] = l[i]
      BY <1>10, <3>1, <3>2, ConcatFacts
    <3>4. x = half /\ y = rest
      BY <2>1, <3>1
    <3>5. QED
      BY <3>3, <3>4
<1>12. ASSUME NEW i \in 1..n
       PROVE  p[i].note = i /\ p[i].marker = Marker(system, i - 1)
  <2>1. CASE i \in 1..half
    <3>1. first + i = i /\ first + i - 1 = i - 1
      BY <1>5, <1>6
    <3>2. r[i] = [note |-> first + i, marker |-> Marker(system, first + i - 1)]
      BY <1>8, <2>1
    <3>3. p[i] = [note |-> i, marker |-> Marker(system, i - 1)]
      BY <1>11, <2>1, <3>1, <3>2
    <3>4. QED
      BY <3>3
  <2>2. CASE i \notin 1..half
    <3>1. PICK k : k = i - half
      OBVIOUS
    <3>2. k \in 1..rest /\ half + k = i /\ half + k - 1 = i - 1
      BY <1>6, <2>2, <3>1
    <3>3. l[k] = [note |-> half + k, marker |-> Marker(system, half + k - 1)]
      BY <1>9, <3>2
    <3>4. p[i] = [note |-> i, marker |-> Marker(system, i - 1)]
      BY <1>11, <3>2, <3>3
    <3>5. QED
      BY <3>4
  <2>3. QED
    BY <2>1, <2>2
<1>13. QED
  BY <1>1, <1>6, <1>11, <1>12

\* A system is read in full, or not yet at all.
LEMMA ReadOrNot ==
    ASSUME DrawInv, NEW s \in 1..3
    PROVE  IF s < section
           THEN /\ DOMAIN EntriesRead(Systems[s]) = 1..NoteCount(Systems[s])
                /\ Len(EntriesRead(Systems[s])) = NoteCount(Systems[s])
                /\ \A i \in 1..NoteCount(Systems[s]) :
                      /\ EntriesRead(Systems[s])[i].note = i
                      /\ EntriesRead(Systems[s])[i].marker = Marker(Systems[s], i - 1)
           ELSE EntriesRead(Systems[s]) = <<>>
<1>1. TypeOK /\ NotesInv
  BY DEF DrawInv
<1>2. PICK system : system = Systems[s]
  OBVIOUS
<1>3. system \in SystemNames
  BY <1>2, SystemsTold
<1>4. CASE s < section
  <2>1. /\ NotesOn(drawn, system, "right") = RunOnColumns(system)["right"]
        /\ NotesOn(drawn, system, "left") = RunOnColumns(system)["left"]
    BY <1>1, <1>2, <1>4 DEF NotesInv, Columns
  <2>2. EntriesRead(system) = RunOnColumns(system)["right"] \o RunOnColumns(system)["left"]
    BY <2>1, Zenon DEF EntriesRead
  <2>3. PICK p : p = EntriesRead(system)
    OBVIOUS
  <2>4. p = BothColumns(system)
    BY <2>2, <2>3, Zenon DEF BothColumns
  <2>5. /\ DOMAIN p = 1..NoteCount(system) /\ Len(p) = NoteCount(system)
        /\ \A i \in 1..NoteCount(system) :
              p[i].note = i /\ p[i].marker = Marker(system, i - 1)
    BY <1>1, <1>3, <2>4, ColumnsRead
  <2>6. QED
    BY <1>2, <1>4, <2>3, <2>5
<1>5. CASE ~(s < section)
  <2>1. NotesOn(drawn, system, "right") = <<>> /\ NotesOn(drawn, system, "left") = <<>>
    BY <1>1, <1>2, <1>5 DEF NotesInv, Columns
  <2>2. EntriesRead(system) = <<>> \o <<>>
    BY <2>1, Zenon DEF EntriesRead
  <2>3. <<>> \in Seq(EntryType)
    OBVIOUS
  <2>4. <<>> \o <<>> = <<>>
    BY <2>3, JoinedToNothing
  <2>5. QED
    BY <1>2, <1>5, <2>2, <2>4
<1>6. QED
  BY <1>4, <1>5

\* No two notes have the same marker, but for symbols seven notes apart.
LEMMA MarkersDiffer ==
    ASSUME NEW system \in SystemNames, NEW i \in Nat, NEW j \in Nat, i < j,
           system = "C" => j - i < 7
    PROVE  Marker(system, i) # Marker(system, j)
<1>1. CASE system = "A"
  <2>1. GetHebrewLetter(i) # GetHebrewLetter(j)
    BY DEF GetHebrewLetter
  <2>2. QED
    BY <1>1, <2>1 DEF Marker
<1>2. CASE system = "B"
  <2>1. <<"number", i + 1>> # <<"number", j + 1>>
    OBVIOUS
  <2>2. QED
    BY <1>2, <2>1 DEF Marker
<1>3. CASE system = "C"
  <2>1. i % 7 # j % 7
    BY <1>3
  <2>2. GetSymbolMarker(i) # GetSymbolMarker(j)
    BY <2>1 DEF GetSymbolMarker
  <2>3. QED
    BY <1>3, <2>2 DEF Marker
<1>4. QED
  BY <1>1, <1>2, <1>3 DEF SystemNames

\* The marker of a note tells it from every other note of its system, in the column
\* beside as well; a symbol from the notes less than seven away.
THEOREM MarkersAlwaysTell == Spec => []MarkersTellApart
<1>1. ASSUME DrawInv PROVE MarkersTellApart
  <2>1. ASSUME NEW system \in SystemNames, NEW entries, entries = EntriesRead(system),
               NEW i \in DOMAIN entries, NEW j \in DOMAIN entries,
               i < j, system = "C" => j - i < 7
        PROVE  entries[i].marker # entries[j].marker
    <3>1. PICK s \in 1..3 : Systems[s] = system
      BY SystemsTold
    <3>2. PICK n : n = NoteCount(system)
      OBVIOUS
    <3>3. n \in Nat
      BY <1>1, <3>2, PageTypes DEF DrawInv
    <3>4. CASE s < section
      <4>1. /\ DOMAIN entries = 1..n
            /\ \A k \in 1..n : entries[k].marker = Marker(system, k - 1)
        BY <1>1, <2>1, <3>1, <3>2, <3>4, ReadOrNot
      <4>2. i \in 1..n /\ j \in 1..n
        BY <2>1, <4>1
      <4>3. PICK a, b : a = i - 1 /\ b = j - 1
        OBVIOUS
      <4>4. a \in Nat /\ b \in Nat /\ a < b /\ (system = "C" => b - a < 7)
        BY <2>1, <3>3, <4>2, <4>3
      <4>5. Marker(system, a) # Marker(system, b)
        BY <2>1, <4>4, MarkersDiffer
      <4>6. QED
        BY <4>1, <4>2, <4>3, <4>5
    <3>5. CASE ~(s < section)
      <4>1. entries = <<>>
        BY <1>1, <2>1, <3>1, <3>5, ReadOrNot
      <4>2. QED
        BY <2>1, <4>1
    <3>6. QED
      BY <3>4, <3>5
  <2>2. QED
    BY <2>1 DEF MarkersTellApart
<1>2. QED
  BY <1>1, DrawSafe, PTL

\* In the end the canvas shows the page: every line that has words and every note of
\* every system, once and in order.
THEOREM CanvasShowsPage == Spec => []PageIsDrawn
<1>1. ASSUME DrawInv PROVE PageIsDrawn
  <2> SUFFICES ASSUME stage = "drawn" PROVE PageIsDrawn
    BY DEF PageIsDrawn
  <2>1. TypeOK /\ section = 4
    BY <1>1 DEF DrawInv, StageInv
  <2>2. ASSUME NEW column \in Columns, NEW lines, lines = page.main[column],
               NEW read, read = LinesOn(drawn, column)
        PROVE  /\ {read[n] : n \in DOMAIN read} = {k \in DOMAIN lines : lines[k] > 0}
               /\ \A m, n \in DOMAIN read : m < n => read[m] < read[n]
    <3>1. read = LinesWithWords(column)
      BY <1>1, <2>2 DEF DrawInv, MainInv
    <3>2. lines \in Seq(Nat) /\ DOMAIN lines = 1..Len(lines)
      BY <2>1, <2>2, PageTypes
    <3>3. read = FlattenSeq([k \in DOMAIN lines |-> IF lines[k] = 0 THEN <<>> ELSE <<k>>])
      BY <2>2, <3>1, Zenon DEF LinesWithWords
    <3>4. NumbersOf(lines, Len(lines), read)
      BY <3>2, <3>3, FlattenNumbers
    <3>5. QED
      BY <3>2, <3>4 DEF NumbersOf
  <2>3. ASSUME NEW system \in SystemNames
        PROVE  /\ Len(EntriesRead(system)) = NoteCount(system)
               /\ \A n \in 1..NoteCount(system) : EntriesRead(system)[n].note = n
    <3>1. PICK s \in 1..3 : Systems[s] = system
      BY SystemsTold
    <3>2. s < section
      BY <2>1
    <3>3. QED
      BY <1>1, <3>1, <3>2, ReadOrNot
  <2>4. QED
    BY <2>2, <2>3 DEF PageIsDrawn
<1>2. QED
  BY <1>1, DrawSafe, PTL

=============================================================================
