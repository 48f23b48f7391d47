SPECIFICATION Spec
CONSTANTS
    Letter = Letter
    Space = Space
    LineBreak = LineBreak
    Dollar = Dollar
    Percent = Percent
    Ampersand = Ampersand
    TagChars <- MCTagChars
    RawTexts <- MCRawTexts
    MaxPieces = 4
    PageHeight = 600
    HeaderHeight = 50
    MarginOuter = 40
    LineHeight = 30
    LongLine = 50
INVARIANTS
    LettersPrinted
PROPERTIES
    Returns
