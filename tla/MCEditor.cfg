SPECIFICATION Spec
CONSTANTS
    Blank = Blank
    Short = Short
    Long = Long
    NoText = NoText
    Texts <- MCTexts
    EmptyText = NoText
    Engines = {"pagination", "columns"}
    LinelessEngines = {"columns"}
    PageCount <- MCPageCount
    NoPage = NoPage
    NativeOutcomes = {"returns", "throws"}
    InsertOutcomes = {"returns", "throws"}
    MaxLayouts = 3
INVARIANTS
    TypeOK
    ListAndSelection
    PreviewUpToDate
    RowCountsFirstPage
    StatusTruthful
PROPERTIES
    CountMatchesGlyphs
    EveryLayoutSavedOnce
    EveryLayoutAccounted
