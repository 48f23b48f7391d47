SPECIFICATION Spec
CONSTANTS
    Letter = Letter
    Space = Space
    LineBreak = LineBreak
    Dollar = Dollar
    Percent = Percent
    Ampersand = Ampersand
    TagChars <- MCTagChars
    RawTexts <- MCRawTexts
    MaxPieces = 4
    MaxTagged = 6
INVARIANTS
    TypeOK
    LettersKept
    TagsGoInPairs
    ReadingOrder
    CleanText
