SPECIFICATION Spec
CONSTANTS
    Blank = Blank
    Short = Short
    Long = Long
    NoText = NoText
    Texts <- MCTexts
    EmptyText = NoText
    Engines = {"pagination"}
    LinelessEngines = {}
    PageCount <- MCPageCount
    NoPage = NoPage
    NativeOutcomes = {"returns"}
    InsertOutcomes = {"returns"}
    MaxLayouts = 2
INVARIANTS
    RowCountsNothing
