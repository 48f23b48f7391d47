SPECIFICATION Spec
CONSTANTS
    PageModels <- MCPageModels
    RowWidth = 6
    RowHeight = 156
CHECK_DEADLOCK FALSE
INVARIANTS
    TypeOK
    PageIsDrawn
    MarkersTellApart
    OneBelowAnother
