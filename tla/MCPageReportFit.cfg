SPECIFICATION Spec
CONSTANTS
    Systems <- ThreeSystems
    Texts <- MCTexts
    PageHeight = 600
    HeaderHeight = 50
    MarginOuter = 40
    LineHeight = 30
    LongLine = 50
    FootnoteHeight = 20
    MaxLines = 1
    MaxNotes = 9
    ShortLine = 3
    LongerLine = 400
INVARIANTS
    NotesFit
