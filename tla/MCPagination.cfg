SPECIFICATION Spec
CONSTANTS
    Systems <- ThreeSystems
    Texts <- MCTexts
    PageHeight = 165
    HeaderHeight = 50
    MarginOuter = 40
    LineHeight = 30
    LongLine = 50
    FootnoteHeight = 20
    MaxLines = 5
    MaxNotes = 2
INVARIANTS
    TypeOK
    MainTextFits
    LinesInOrder
    NumberedInOrder
    NotesExactlyOnce
    GreedyFit
    ResultComplete
    FewestPages
    SummaryCountsNotes
PROPERTIES
    PaginateFlows
