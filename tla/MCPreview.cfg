SPECIFICATION Spec
CONSTANTS
    Letters = {Letter}
    Blank = Blank
    WrapTexts <- MCWrapTexts
    MaxCharsPerLine = 4
    Contents <- MCContents
    Notes <- MCNotes
    NoteHeights = {240, 1500}
    MaxChars = 8
INVARIANTS
    TypeOK
    WrappedGreedily
    FewestLines
    PageIsDrawn
    OneBelowAnother
PROPERTIES
    WordsFlow
