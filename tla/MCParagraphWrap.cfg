SPECIFICATION Spec
CONSTANTS
    Widths = {1, 2, 6}
    MaxParagraphs = 3
    MaxWords = 5
    ParagraphLists <- MCParagraphLists
    MaxWidth = 5
    BlankWidth = 1
CHECK_DEADLOCK FALSE
INVARIANTS
    TypeOK
    WordsInOrder
    MarksEndParagraphs
    LinesFilled
PROPERTIES
    ParagraphsFlow
