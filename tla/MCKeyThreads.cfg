CONSTANTS
    ExpressionFamilies <- OperatorsTemplatesAndDressed
    FileFamilies <- NamesAndTexts
    FileStyles <- TwoStyles
    Parts = {"keys"}
    KeyThreads = {"t", "u"}
    Prefixes = {"p", "q", "xmlns"}
    Default = "xmlns"
    Namespaces = {"n1", "n2"}
    None = "none"
    Builtins <- XmlPrefix
    MaxLevel = 3
    MaxDeclarations = 3
    Redeclares = FALSE
SPECIFICATION RuntimeSpec
INVARIANT KeysKept
CHECK_DEADLOCK FALSE
