CONSTANTS
    ExpressionFamilies <- OperatorsTemplatesAndDressed
    FileFamilies <- NamesAndTexts
    FileStyles <- TwoStyles
    Parts = {"aliases"}
    KeyThreads = {"t"}
    Prefixes = {"p", "q", "xmlns"}
    Default = "xmlns"
    Namespaces = {"n1", "n2"}
    None = "none"
    Builtins <- XmlPrefix
    MaxLevel = 3
    MaxDeclarations = 3
    Redeclares = TRUE
SPECIFICATION RuntimeSpec
INVARIANT OuterScopesKept
CHECK_DEADLOCK FALSE
