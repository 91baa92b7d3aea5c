-------------------------------- MODULE MCRuntime --------------------------------
(******************************************************************************)
(* The parts around the documents that do not share state, checked side by    *)
(* side: namespace aliases, the stack of an Env, the keys of a store,         *)
(* services, the sessions of the web server, the paths that are evaluated on  *)
(* documents, the expressions they are written as, and the files documents    *)
(* are written to and read from.  A behaviour is one of one part.  The others *)
(* are idle: services and sessions, which have fairness, in their first       *)
(* states.                                                                    *)
(******************************************************************************)
EXTENDS NamespaceAlias

CONSTANTS
    Parts,       \* the parts that are checked
    KeyThreads,  \* the threads that look keys up
    ExpressionFamilies,  \* the expressions that are written and read
    FileFamilies,        \* the documents that are
    FileStyles           \* how they are written by hand

VARIABLES
    part,
    currentEnvId, entries, items, itemMap, allocators, documents, documentMap,
    currentDocumentAllocator, currentDocumentAllocatorEnvId,          \* of Env
    kind, head, pages, bucket, names, calls, given,                   \* of Keys
    father, label,                                                    \* of XPathAxes
    document, family,                                                 \* of XmlDocument
    expression, expressionFamily, growth,                             \* of XPathExpressions
    state, starting, started, restart, role, at, parent, manager,     \* of Services
    serviceState, sessionMap, created, refCount, expired, sessionMutex, managerMutex,
    pc, session, left                                                 \* of Sessions

aliasVars == vars
envVars == <<currentEnvId, entries, items, itemMap, allocators, documents, documentMap,
             currentDocumentAllocator, currentDocumentAllocatorEnvId>>
keyVars == <<kind, head, pages, bucket, names, calls, given>>
pathVars == <<father, label>>
fileVars == <<document, family>>
expressionVars == <<expression, expressionFamily, growth>>
serviceVars == <<state, starting, started, restart, role, at, parent, manager>>
sessionVars == <<serviceState, sessionMap, created, refCount, expired, sessionMutex,
                 managerMutex, pc, session, left>>
runtimeVars == <<part, aliasVars, envVars, keyVars, pathVars, fileVars, expressionVars,
                 serviceVars, sessionVars>>

(* The prefix that every document has.                                         *)
XmlPrefix == <<<<"p", "n1">>>>

(* Two levels with a level behind each, and bindings on three of them.         *)
Stack == INSTANCE Env WITH
    Keys <- {"x"}, Urls <- {"u"}, NoUrl <- "", Null <- 0,
    MaxAge <- 1, MaxLevel <- 4, MaxItems <- 3, MaxDocuments <- 2

(* Pages of two slots: the third name makes a second page.                     *)
Store == INSTANCE Keys WITH
    Threads <- KeyThreads, Names <- {"a", "b", "c"}, NoName <- "", Slots <- 2, MaxPages <- 3

(* Two names, one with an attribute; positions, the last one, the test of a    *)
(* child, and lists of two predicates.                                         *)
Queries == INSTANCE XPathAxes WITH
    Labels <- {"a", "b"}, MaxElements <- 5,
    PathPredicates <- {<<>>, <<"1">>, <<"2">>, <<"last()">>, <<"b">>, <<"b", "1">>,
                       <<"2", "last()">>},
    PatternPredicates <- {<<>>, <<"2">>, <<"last()">>, <<"b", "1">>}

(* Elements whose names need declarations of their own or of an element        *)
(* around, that also hide or give again a prefix; texts with the characters    *)
(* that must be escaped, spaces at their ends, CDATA, comments.                *)
Xml == INSTANCE XmlNodes
Alias(prefix, ns) == [prefix |-> prefix, ns |-> ns]
Attr(ns, value) == [ns |-> ns, name |-> <<"b">>, value |-> value]
NamedContents == {
    Xml!Element("", <<>>, <<>>),
    Xml!Element("n1", <<Alias("p", "n1")>>, <<>>),
    Xml!Element("n1", <<>>, <<>>),
    Xml!Element("n1", <<Alias("q", "n1")>>, <<Attr("n1", <<"x", "<", "\"", "'", "&">>)>>),
    Xml!Element("n2", <<Alias("xmlns", "n2")>>, <<Attr("", <<"x", " ">>)>>),
    Xml!Element("", <<Alias("xmlns", "")>>, <<>>),
    Xml!Element("n1", <<Alias("p", "n1"), Alias("q", "n2")>>,
                <<Attr("n2", <<>>), Attr("", <<"e'">>)>>),
    Xml!Element("n2", <<Alias("p", "n2")>>, <<>>),
    Xml!Element("n1", <<Alias("q", "n2")>>, <<Attr("n1", <<"x">>)>>) }
TextContents == {
    Xml!Element("", <<>>, <<>>),
    Xml!Leaf("text", <<" ", "x">>, FALSE),
    Xml!Leaf("text", <<"<", "&", ">", "e'">>, FALSE),
    Xml!Leaf("text", <<"<", " ", "e'", "x">>, TRUE),
    Xml!Leaf("text", <<"\n">>, FALSE),
    Xml!Leaf("comment", <<"-", "x">>, FALSE),
    Xml!Leaf("comment", <<>>, FALSE),
    Xml!Leaf("PI", <<"x", " ">>, FALSE) }

NamesAndTexts == [names |-> [contents |-> NamedContents, maxNodes |-> 3],
                  texts |-> [contents |-> TextContents, maxNodes |-> 4]]

(* Files with everything in one style, then in the other.                      *)
TwoStyles == {[quote |-> "'", spaces |-> TRUE, cdata |-> FALSE, short |-> FALSE,
               entity |-> TRUE, sort |-> TRUE],
              [quote |-> "\"", spaces |-> FALSE, cdata |-> TRUE, short |-> TRUE,
               entity |-> FALSE, sort |-> FALSE]}
Files == INSTANCE XmlDocument WITH
    LowCharacters <- {"a", "b", "x", "p", "q", "e", "n1", "n2", "xmlns", "xml", "lt"},
    HighCharacters <- {"e'"},
    Families <- FileFamilies, Styles <- FileStyles

(* All operators, each with a name on either side; templates of up to five     *)
(* segments; and steps of every kind with predicates, steps and calls.         *)
Steps == INSTANCE XPathParser WITH MaxPredicates <- 3, MaxFuncCallArgs <- 4
ExpressionName(name) == Steps!Step("Child", <<name>>)
ExpressionLeaves == {
    ExpressionName("a"), ExpressionName("div"), Steps!Step("Child", <<"*">>),
    Steps!Step("Child", <<"text", "()">>), Steps!Step("Attribute", <<"id">>),
    Steps!Step("Root", <<>>), Steps!Step("Variable", <<"v">>), Steps!Step("Const", <<"1">>),
    Steps!Step("Resource", <<"x">>),
    [ExpressionName("a") EXCEPT !.predicates = <<ExpressionName("b")>>],
    Steps!Function("XPathIndirection", <<ExpressionName("a")>>),
    Steps!Function("Equals", <<Steps!Function("LocalName", <<Steps!Step("Self", <<>>)>>),
                               Steps!Step("Resource", <<"x">>)>>) }
FirstSegments == {Steps!Step("Text", <<"{">>), Steps!Step("Text", <<"}", "x">>),
                  ExpressionName("a")}
OperatorsTemplatesAndDressed == [
    operators |-> [
        leaves |-> {ExpressionName("a")}, operands |-> {ExpressionName("b")},
        operators |-> {"BooleanOr", "BooleanAnd", "Equals", "NotEquals", "LessThan",
                       "LessThanOrEquals", "GreaterThan", "GreaterThanOrEquals", "Plus",
                       "Minus", "Multiply", "Div", "Modulo", "Union"},
        dressed |-> FALSE, maxGrowth |-> 2],
    templates |-> [
        leaves |-> {Steps!Function("AVT", <<segment>>) : segment \in FirstSegments},
        operands |-> {}, operators |-> {}, dressed |-> FALSE, maxGrowth |-> 4],
    dressed |-> [
        leaves |-> ExpressionLeaves,
        operands |-> {Steps!Step("Child", <<"*">>), Steps!Step("Const", <<"1">>)},
        operators |-> {"BooleanOr", "Equals", "Minus", "Multiply", "Div", "Union"},
        dressed |-> TRUE, maxGrowth |-> 2]]
Expressions == INSTANCE XPathExpressions WITH MaxPredicates <- 3, MaxFuncCallArgs <- 4

(* A stop thread, or a starter, with two threads that start one another.       *)
Service == INSTANCE Services WITH
    Threads <- {"t1", "t2", "t3"}, Script <- "script", Nobody <- "nobody", Faults <- {}

(* Two requests, 11 and 12, meet on one session, or each on its own.           *)
WebServer == INSTANCE Sessions WITH
    state <- serviceState, Requests <- {11, 12}, Ids <- {1, 2}, NoOne <- 0, Faults <- {}

IdleAliases == /\ currentStackLevel = 0 /\ localKeyIdToNamespaceIdMap = 0
               /\ namespaceIdToLocalKeyIdMap = 0 /\ declarations = 0 /\ outer = 0
IdleEnv == /\ currentEnvId = 0 /\ entries = 0 /\ items = 0 /\ itemMap = 0 /\ allocators = 0
           /\ documents = 0 /\ documentMap = 0
           /\ currentDocumentAllocator = 0 /\ currentDocumentAllocatorEnvId = 0
IdleKeys == /\ kind = 0 /\ head = 0 /\ pages = 0 /\ bucket = 0 /\ names = 0
            /\ calls = 0 /\ given = 0
IdlePaths == father = 0 /\ label = 0
IdleFiles == document = <<>> /\ family = ""
IdleExpressions == expression = <<>> /\ expressionFamily = "" /\ growth = 0

RuntimeInit ==
    /\ part \in Parts
    /\ IF part = "aliases" THEN Init ELSE IdleAliases
    /\ IF part = "env" THEN Stack!Init ELSE IdleEnv
    /\ IF part = "keys" THEN Store!Init ELSE IdleKeys
    /\ IF part = "paths" THEN Queries!Init ELSE IdlePaths
    /\ IF part = "files" THEN Files!Init ELSE IdleFiles
    /\ IF part = "expressions" THEN Expressions!Init ELSE IdleExpressions
    /\ Service!Init
    /\ WebServer!Init

RuntimeNext ==
    /\ UNCHANGED part
    /\ \/ part = "aliases" /\ Next
          /\ UNCHANGED <<envVars, keyVars, pathVars, fileVars, expressionVars,
                         serviceVars, sessionVars>>
       \/ part = "env" /\ Stack!Next
          /\ UNCHANGED <<aliasVars, keyVars, pathVars, fileVars, expressionVars,
                         serviceVars, sessionVars>>
       \/ part = "keys" /\ Store!Next
          /\ UNCHANGED <<aliasVars, envVars, pathVars, fileVars, expressionVars,
                         serviceVars, sessionVars>>
       \/ part = "paths" /\ Queries!Next
          /\ UNCHANGED <<aliasVars, envVars, keyVars, fileVars, expressionVars,
                         serviceVars, sessionVars>>
       \/ part = "files" /\ Files!Next
          /\ UNCHANGED <<aliasVars, envVars, keyVars, pathVars, expressionVars,
                         serviceVars, sessionVars>>
       \/ part = "expressions" /\ Expressions!Next
          /\ UNCHANGED <<aliasVars, envVars, keyVars, pathVars, fileVars,
                         serviceVars, sessionVars>>
       \/ part = "services" /\ Service!Next
          /\ UNCHANGED <<aliasVars, envVars, keyVars, pathVars, fileVars,
                         expressionVars, sessionVars>>
       \/ part = "sessions" /\ WebServer!Next
          /\ UNCHANGED <<aliasVars, envVars, keyVars, pathVars, fileVars,
                         expressionVars, serviceVars>>

(* Idle services and sessions have nothing to do that fairness is about.       *)
RuntimeSpec ==
    RuntimeInit /\ [][RuntimeNext]_runtimeVars /\ Service!Fairness /\ WebServer!Fairness

--------------------------------------------------------------------------------
(* The properties of each part; OuterScopesKept is that of NamespaceAlias,     *)
(* which says nothing of its idle state.                                       *)

(* The state of every part has its type.                                       *)
RuntimeTypes ==
    /\ part = "aliases" => TypeOK
    /\ part = "env" => Stack!TypeOK
    /\ part = "keys" => Store!TypeOK
    /\ part = "paths" => Queries!TypeOK
    /\ part = "files" => Files!TypeOK
    /\ part = "expressions" => Expressions!TypeOK
    /\ Service!TypeOK
    /\ WebServer!TypeOK

(* Variables have the values of their levels, and documents live as long       *)
(* (Env::freeEnvEntry, Env::getCurrentDocumentAllocator).                      *)
LevelsKept == part = "env" => Stack!VariablesRestored /\ Stack!DocumentsLive

(* Names keep the ids they were given through crashes                          *)
(* (PersistentStore::addKeyInStore, addNamespaceInStore).                      *)
KeysKept == part = "keys" => Store!KeysKept

(* A path selects what it means, in document order (XPath::evalStep).          *)
PathsSelect == part = "paths" => Queries!PathsSelect

(* A pattern matches what it selects (XPath::matches).                         *)
PatternsMatch == part = "paths" => Queries!PatternsMatch

(* Expressions and templates are read as they are meant (XPathParser::doParse, *)
(* doParseAVT).                                                                *)
ExpressionsRead == part = "expressions" => Expressions!ExpressionsRead

(* What is written is read again as it was (ElementRef::toXML, Parser).        *)
ReadsBack == part = "files" => Files!ReadsBack

(* A file is read as what it means (Parser::internalParse, SAXHandlerDom).     *)
ReadAsMeant == part = "files" => Files!ReadAsMeant

(* A stopped service has no thread (Service::runStopThread).                   *)
StoppedIsQuiet == Service!StoppedIsQuiet

(* A service that stops ends up stopped (Service::runStopThread).              *)
StopCompletes == Service!StopCompletes

(* A session in use is not deleted (SessionManager::garbageCollectorThread).   *)
SessionsKept == WebServer!SessionsKept

(* The session manager is always unlocked again (SessionManager::getSession,   *)
(* enqueueEvent).                                                              *)
ManagerReleased == WebServer!ManagerReleased
================================================================================
