SPECIFICATION Spec

CONSTANTS
    v1 = v1
    v2 = v2
    one = one
    two = two
    three = three
    de = de
    en = en
    fr = fr
    Items <- AllItems
    Target = de
    Fallbacks <- FrenchThenEnglish
    Views <- TwoViews
    KindsOfViews <- AllKinds
    Inputs <- SomeInputs
    Poison <- OnC
    Panicky <- First
    NoHook = NoHook
    Mirror = Mirror
    NoData = NoData
    MaxVersion = 2
    MaxRestarts = 1
    MaxSaves = 1

INVARIANTS
    TypeOK
    Current
    FilteredRight
    IndexedRight
    ValuesRight
    RelatedRight
    TranslatedRight
    CompositeWhole
    MirrorFollows

CHECK_DEADLOCK FALSE
