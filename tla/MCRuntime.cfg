CONSTANTS
    ExpressionFamilies <- OperatorsTemplatesAndDressed
    FileFamilies <- NamesAndTexts
    FileStyles <- TwoStyles
    Parts = {"aliases", "env", "expressions", "files", "keys", "paths", "services", "sessions"}
    KeyThreads = {"t"}
    Prefixes = {"p", "q", "xmlns"}
    Default = "xmlns"
    Namespaces = {"n1", "n2"}
    None = "none"
    Builtins <- XmlPrefix
    MaxLevel = 3
    MaxDeclarations = 3
    Redeclares = FALSE
SPECIFICATION RuntimeSpec
INVARIANTS
    RuntimeTypes
    OuterScopesKept
    LevelsKept
    KeysKept
    PathsSelect
    PatternsMatch
    ExpressionsRead
    ReadsBack
    ReadAsMeant
    StoppedIsQuiet
    SessionsKept
PROPERTIES
    StopCompletes
    ManagerReleased
\* The bounds stop the growth of every part, and the store may close.
CHECK_DEADLOCK FALSE
