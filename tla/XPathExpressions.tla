------------------------------ MODULE XPathExpressions ------------------------------
(******************************************************************************)
(* XPath expressions as they are written and as XPathParser reads them.  An   *)
(* expression is the tree of its meaning, made of the steps of XPathParser:   *)
(* it grows by operators, predicates, steps and calls around it.  It is       *)
(* written by the grammar of XPath 1.0, with parentheses where the grammar    *)
(* needs them, and read again.  An attribute value template is a step "AVT"   *)
(* with its segments, and grows by one at its end.                            *)
(******************************************************************************)
EXTENDS XPathParser

CONSTANTS
    ExpressionFamilies   \* [leaves, operators, operands, dressed, maxGrowth] by name: where
                         \* an expression starts, its binary operators and their other
                         \* operands, whether it has predicates, steps and calls, and the
                         \* bound on how often it grows

VARIABLES
    expression,
    expressionFamily,    \* the one it is of
    growth               \* how often it has grown

vars == <<expression, expressionFamily, growth>>

Family == ExpressionFamilies[expressionFamily]

Name(name) == Step("Child", <<name>>)
Number(n) == Step("Const", <<n>>)
Negation(x) == Function("Minus", <<Number("0"), x>>)
IsNegation(step) == step.action = "Minus" /\ step.functionArguments[1] = Number("0")

--------------------------------------------------------------------------------
(* Growth.                                                                     *)

LocationActions == DOMAIN Axes \cup {"Root"}
NodeSets == LocationActions \cup {"Variable", "Union", "NodeSetTest", "FunctionCall"}
IsNodeSet(step) == step.action \in NodeSets

RECURSIVE LastOf(_), OnLast(_, _)
LastOf(step) == IF step.nextStep = <<>> THEN step ELSE LastOf(step.nextStep[1])
OnLast(step, last) ==
    IF step.nextStep = <<>> THEN last ELSE Followed(step, OnLast(step.nextStep[1], last))

(* A union is put in parentheses before it is followed.                        *)
Primary(step) == IF step.action = "Union" THEN Function("NodeSetTest", <<step>>) ELSE step

Grow(step) == /\ growth < Family.maxGrowth
              /\ growth' = growth + 1
              /\ expression' = step
              /\ UNCHANGED expressionFamily

(* An operator with the expression on its left or on its right.                *)
Operate(action, operand, onTheLeft) ==
    /\ action = "Union" => IsNodeSet(expression) /\ IsNodeSet(operand)
    /\ Grow(Function(action, IF onTheLeft THEN <<expression, operand>>
                             ELSE <<operand, expression>>))

Negate == Grow(Negation(expression))

(* A predicate of the last step, or of the whole in parentheses.               *)
AddPredicate(predicate) ==
    LET last == LastOf(Primary(expression))
    IN /\ IsNodeSet(expression)
       /\ last.action \notin {"Root", "Self", "Parent", "XPathIndirection"} /\ last # Step("Descendant_Or_Self", <<>>)
       /\ Grow(OnLast(Primary(expression), [last EXCEPT !.predicates = Append(@, predicate)]))

Filter(predicate) ==
    /\ IsNodeSet(expression)
    /\ Grow([Function("NodeSetTest", <<expression>>) EXCEPT !.predicates = <<predicate>>])

(* A step at the end.                                                          *)
AddStep(step) ==
    /\ IsNodeSet(expression)
    /\ step.action = "ElementFunctionCall" => LastOf(expression).action # "Root"
    /\ Grow(OnLast(Primary(expression), Followed(LastOf(Primary(expression)), step)))

(* The expression in a call, or in the predicate of a path.                    *)
Call(function, arguments) == Grow([function EXCEPT !.functionArguments = arguments])
Enclose(path) ==
    Grow(OnLast(path, [LastOf(path) EXCEPT !.predicates = Append(@, expression)]))

(* A text, or an expression in braces, after a segment of the other kind or an *)
(* expression.                                                                 *)
AddSegment(segment) ==
    /\ segment.action = "Text" => Last(expression.functionArguments).action # "Text"
    /\ Grow(Function("AVT", Append(expression.functionArguments, segment)))

Inside(step) == Followed(Step("Descendant_Or_Self", <<>>), step)

Predicates == {Number("1"), Function("Last", <<>>), Name("b"),
               Function("Plus", <<Number("1"), Number("1")>>),
               Function("LessThan", <<Function("Position", <<>>), Number("2")>>),
               Function("Count", <<Name("b")>>)}
AddedSteps == {Name("b"), Inside(Name("b")), Inside(Step("Attribute", <<"id">>)),
               Step("Parent", <<>>), Step("Following_Sibling", <<"*">>), Step("Child", <<>>),
               Inside(Step("Child", <<"text", "()">>)),
               Function("XPathIndirection", <<Step("Attribute", <<"id">>)>>),
               [Step("ElementFunctionCall", <<"f">>) EXCEPT !.functionArguments = <<Name("b")>>]}
Calls == {<<Function("Not", <<>>), <<expression>>>>,
          <<Function("String", <<>>), <<expression>>>>,
          <<Function("Key", <<>>), <<Step("Const", <<"k">>), expression>>>>,
          <<Step("FunctionCall", <<"f">>), <<Number("1"), expression>>>>}
         \cup {<<Function("Concat", <<>>), <<expression>> \o [i \in 1 .. n |-> Number("1")]>> :
                  n \in 1 .. 2 * MaxFuncCallArgs - 2}

Segments == {Step("Text", <<"{">>), Step("Text", <<"}", "x">>), Name("a"),
             Function("Minus", <<Name("a"), Number("1")>>), Step("Resource", <<"}">>),
             Function("XPathIndirection", <<Name("a")>>),
             [Step("FunctionCall", <<"f">>) EXCEPT !.functionArguments = <<Number("1")>>]}

Init ==
    /\ expressionFamily \in DOMAIN ExpressionFamilies
    /\ expression \in Family.leaves
    /\ growth = 0

IsTemplate == expression.action = "AVT"

Next ==
    \/ IsTemplate /\ \E segment \in Segments : AddSegment(segment)
    \/ ~IsTemplate /\ \E action \in Family.operators, operand \in Family.operands, onTheLeft \in BOOLEAN :
           Operate(action, operand, onTheLeft)
    \/ ~IsTemplate /\ Negate
    \/ /\ ~IsTemplate /\ Family.dressed
       /\ \/ \E predicate \in Predicates : AddPredicate(predicate)
          \/ \E predicate \in Predicates : Filter(predicate)
          \/ \E step \in AddedSteps : AddStep(step)
          \/ \E call \in Calls : Call(call[1], call[2])
          \/ \E path \in {Name("b"), Inside(Name("b"))} : Enclose(path)

Spec == Init /\ [][Next]_vars

--------------------------------------------------------------------------------
(* Writing.  A lexeme is its characters and what kind of word or sign it is.   *)

Lexeme(kind, chars) == [kind |-> kind, chars |-> chars]
Sign1(c) == <<Lexeme("sign", <<c>>)>>

Operators == [
    BooleanOr |-> [level |-> 1, sign |-> Lexeme("operator name", <<"or">>)],
    BooleanAnd |-> [level |-> 2, sign |-> Lexeme("operator name", <<"and">>)],
    Equals |-> [level |-> 3, sign |-> Lexeme("operator", <<"=">>)],
    NotEquals |-> [level |-> 3, sign |-> Lexeme("operator", <<"!", "=">>)],
    LessThan |-> [level |-> 4, sign |-> Lexeme("operator", <<"<">>)],
    LessThanOrEquals |-> [level |-> 4, sign |-> Lexeme("operator", <<"<", "=">>)],
    GreaterThan |-> [level |-> 4, sign |-> Lexeme("operator", <<">">>)],
    GreaterThanOrEquals |-> [level |-> 4, sign |-> Lexeme("operator", <<">", "=">>)],
    Plus |-> [level |-> 5, sign |-> Lexeme("operator", <<"+">>)],
    Minus |-> [level |-> 5, sign |-> Lexeme("operator", <<"-">>)],
    Multiply |-> [level |-> 6, sign |-> Lexeme("operator", <<"*">>)],
    Div |-> [level |-> 6, sign |-> Lexeme("operator name", <<"div">>)],
    Modulo |-> [level |-> 6, sign |-> Lexeme("operator name", <<"mod">>)],
    Union |-> [level |-> 8, sign |-> Lexeme("operator", <<"|">>)]]
IsOperation(step) == step.action \in DOMAIN Operators /\ ~IsNegation(step)

Level(step) == IF step = Step("Root", <<>>) THEN 0
               ELSE IF IsNegation(step) THEN 7
               ELSE IF IsOperation(step) THEN Operators[step.action].level ELSE 9

LexemeOf(name) ==
    Lexeme(IF Len(name) = 1 /\ name[1] \in {"or", "and", "div", "mod"} THEN "named operator"
           ELSE "name", name)

RECURSIVE Write(_), WriteStep(_), WriteAfter(_)

WriteAtLevel(step, level) ==
    IF Level(step) >= level THEN Write(step) ELSE Sign1("(") \o Write(step) \o Sign1(")")

WriteTest(key) ==
    CASE key = <<>> -> <<Lexeme("name", <<"node">>)>> \o Sign1("(") \o Sign1(")")
      [] key = <<"*">> -> <<Lexeme("wildcard", key)>>
      [] Last(key) = "()" ->
            <<Lexeme("name", Front(key))>> \o Sign1("(") \o Sign1(")")
      [] OTHER -> <<LexemeOf(key)>>

WriteArguments(arguments) ==
    FlattenSeq([i \in DOMAIN arguments |->
        (IF i = 1 THEN <<>> ELSE Sign1(",")) \o Write(arguments[i])])

(* A step without what follows it; the name of key() is written as a text.     *)
WriteStep(step) ==
    LET arguments == IF step.functionArguments = <<Step("Self", <<>>)>>
                     THEN <<>> ELSE step.functionArguments
    IN CASE step = Step("Self", <<>>) -> <<Lexeme("name", <<".">>)>>
         [] step = Step("Parent", <<>>) -> <<Lexeme("name", <<".", ".">>)>>
         [] step.action = "Child" -> WriteTest(step.key)
         [] step.action = "Attribute" -> Sign1("@") \o WriteTest(step.key)
         [] step.action \in DOMAIN Axes ->
              <<Lexeme("name", Axes[step.action])>> \o <<Lexeme("sign", AxisSign)>>
              \o WriteTest(step.key)
         [] step.action = "Variable" -> Sign1("$") \o <<Lexeme("name", step.key)>>
         [] step.action = "Const" -> <<Lexeme("number", step.key)>>
         [] step.action = "Resource" -> <<Lexeme("text", <<"'">> \o step.key \o <<"'">>)>>
         [] step.action = "NodeSetTest" -> Sign1("(") \o Write(arguments[1]) \o Sign1(")")
         [] step.action = "XPathIndirection" -> Sign1("{") \o Write(arguments[1]) \o Sign1("}")
         [] step.action = "Key" ->
              <<Lexeme("name", Functions.Key)>> \o Sign1("(")
              \o <<Lexeme("text", <<"'">> \o arguments[1].key \o <<"'">>)>> \o Sign1(",")
              \o Write(arguments[2]) \o Sign1(")")
         [] OTHER ->
              <<Lexeme("name", IF step.action \in DOMAIN Functions
                               THEN Functions[step.action] ELSE step.key)>>
              \o Sign1("(") \o WriteArguments(arguments) \o Sign1(")")

WriteAfter(step) ==
    IF step.nextStep = <<>> THEN <<>>
    ELSE LET next == step.nextStep[1]
         IN CASE next.action = "Descendant_Or_Self" /\ next.nextStep # <<>> ->
                   <<Lexeme("path", <<"/", "/">>)>> \o Write(next.nextStep[1])
              [] next.action = "ElementFunctionCall" ->
                   <<Lexeme("sign", <<"-", ">">>)>> \o Write(next)
              [] OTHER -> <<Lexeme("path", <<"/">>)>> \o Write(next)

Write(step) ==
    LET arguments == step.functionArguments
    IN CASE IsNegation(step) ->
              <<Lexeme("negation", <<"-">>)>> \o WriteAtLevel(arguments[2], 7)
         [] IsOperation(step) ->
              LET operator == Operators[step.action]
              IN WriteAtLevel(arguments[1], operator.level) \o <<operator.sign>>
                 \o WriteAtLevel(arguments[2], operator.level + 1)
         [] step.action = "Root" ->
              IF step.nextStep = <<>> THEN <<Lexeme("path", <<"/">>)>> ELSE WriteAfter(step)
         [] OTHER ->
              WriteStep(step)
              \o FlattenSeq([i \in DOMAIN step.predicates |->
                     Sign1("[") \o Write(step.predicates[i]) \o Sign1("]")])
              \o WriteAfter(step)

(* Where two lexemes would be read as one.                                     *)
Words == {"name", "named operator", "number", "operator name", "wildcard"}
IsDash(x) == x.kind \in {"operator", "negation"} /\ x.chars = <<"-">>
MustPart(x, y) == \/ x.kind \in Words /\ y.kind \in Words
                  \/ x.kind \in Words \ {"number", "wildcard"} /\ IsDash(y)

(* Where the code needs a space that the grammar does not ask for.             *)
CodeParts(x, y) == \/ (x.kind \in {"text", "path"} \/ x.chars \in {<<",">>, <<"|">>, <<"}">>})
                      /\ IsDash(y)
                   \/ IsDash(x) /\ y.kind = "path"
                   \/ x.kind = "operator name" /\ y.kind = "text"

(* With spaces everywhere, or only where they are needed.                      *)
Characters(lexemes, spaced) ==
    FlattenSeq([i \in DOMAIN lexemes |->
        (IF i > 1 /\ (\/ spaced
                      \/ MustPart(lexemes[i - 1], lexemes[i])
                      \/ CodeParts(lexemes[i - 1], lexemes[i]))
         THEN <<" ">> ELSE <<>>) \o lexemes[i].chars])

(* The braces of the texts of a template are doubled.                          *)
SegmentCharacters(segment, spaced) ==
    IF segment.action # "Text" THEN <<"{">> \o Characters(Write(segment), spaced) \o <<"}">>
    ELSE FlattenSeq([i \in DOMAIN segment.key |->
             IF segment.key[i] \in {"{", "}"} THEN <<segment.key[i], segment.key[i]>>
             ELSE <<segment.key[i]>>])
TemplateCharacters(template, spaced) ==
    FlattenSeq([i \in DOMAIN template.functionArguments |->
                   SegmentCharacters(template.functionArguments[i], spaced)])

(* What a template means: the text its segments make.                          *)
SegmentMeans(segment) ==
    IF segment.action = "Text" THEN Step("Resource", segment.key) ELSE segment
TemplateMeans(template) ==
    LET segments == template.functionArguments
    IN IF Len(segments) = 1 THEN SegmentMeans(segments[1])
       ELSE Function("Concat", [i \in DOMAIN segments |-> SegmentMeans(segments[i])])

--------------------------------------------------------------------------------
(* Expressions that mean the same, whatever the code does to evaluate them     *)
(* faster or to fit them in steps, have one form.                              *)

RECURSIVE UsesPosition(_, _)
UsesPosition(step, actions) ==
    step.action \in actions
    \/ \E x \in ToSet(step.functionArguments) : UsesPosition(x, actions)

(* A predicate that is a number is a position.                                 *)
NeedsPosition(predicate) ==
    predicate.action \in NumberFunctions \cup {"Variable", "Const", "Count"}
    \/ UsesPosition(predicate, {"Position", "Last"})
FlagsNeeded(step) ==
    {flag \in {"position", "last"} : \E p \in ToSet(step.predicates) :
        IF flag = "position" THEN NeedsPosition(p) ELSE UsesPosition(p, {"Last"})}

Opposite == [plus |-> "minus", minus |-> "plus", times |-> "by", by |-> "times"]

RECURSIVE Same(_), Terms(_, _, _, _), ConcatArguments(_)

(* The terms of a sum and the factors of a product.                            *)
Terms(step, sign, with, without) ==
    IF step.action \notin {with, without} THEN <<Function(sign, <<Same(step)>>)>>
    ELSE Terms(step.functionArguments[1], sign, with, without)
         \o Terms(step.functionArguments[2],
                  IF step.action = with THEN sign ELSE Opposite[sign], with, without)

ConcatArguments(arguments) ==
    IF arguments = <<>> \/ Last(arguments).action # "Concat" THEN arguments
    ELSE Front(arguments) \o ConcatArguments(Last(arguments).functionArguments)

(* As a boolean, a node with a name is the test of the name.                   *)
SameTruth(step) ==
    IF "local name only" \in step.flags
    THEN Function("Equals", <<Function("LocalName", <<Step("Self", <<>>)>>),
                              Step("Resource", step.key)>>)
    ELSE Same(step)

Same(step) ==
    LET arguments == step.functionArguments
        All(steps, Op(_)) == [i \in DOMAIN steps |-> Op(steps[i])]
    IN CASE step.action \in {"Plus", "Minus"} ->
              Function("Sum", Terms(step, "plus", "Plus", "Minus"))
         [] step.action \in {"Multiply", "Div"} ->
              Function("Product", Terms(step, "times", "Multiply", "Div"))
         [] step.action = "Descendant" /\ FlagsNeeded(step) = {} ->
              Same(Followed(Step("Descendant_Or_Self", <<>>), [step EXCEPT !.action = "Child"]))
         [] step.action = "Concat" /\ arguments # ConcatArguments(arguments) ->
              Same([step EXCEPT !.functionArguments = ConcatArguments(arguments)])
         [] OTHER ->
              [step EXCEPT
                  !.flags = @ \ {"position", "last"},
                  !.functionArguments =
                      IF step.action \in {"BooleanAnd", "BooleanOr", "Not"}
                      THEN All(@, SameTruth) ELSE All(@, Same),
                  !.predicates = All(@, SameTruth),
                  !.nextStep = All(@, Same)]

RECURSIVE AllSteps(_)
AllSteps(step) ==
    {step} \cup UNION {AllSteps(x) :
        x \in ToSet(step.functionArguments \o step.predicates \o step.nextStep)}

--------------------------------------------------------------------------------
(* What the code does not read as it is meant.                                 *)

Ends == {<<"">>, <<")">>, <<"]">>, <<",">>}
NamedOperatorMisread(x, named, y) ==
    /\ named.kind = "named operator"
    /\ \/ x.kind \in {"operator", "operator name", "negation"} /\ y.chars \notin Ends
       \/ (x.kind = "path" \/ x.chars = <<",">>) /\ y.chars \in {<<"-">>, <<"*">>}

PairMisread(x, y, z) ==
    \/ x.chars = <<"]">> /\ y = Operators.Minus.sign
    \/ x.kind = "negation" /\ y.chars = <<"/", "/">>
    \/ /\ y.kind = "wildcard" /\ z.chars # <<"[">>
       /\ \/ x.kind = "operator" /\ x.chars[1] \in {"=", "!", "<", ">"}
          \/ x.kind = "operator name" /\ x.chars # <<"or">>
          \/ x.kind = "negation"
    \/ /\ y.kind = "negation"
       /\ x.kind = "negation" \/ x = Operators.NotEquals.sign \/ x.chars \in {<<"or">>, <<"and">>}

LexemesMisread(lexemes) ==
    LET l == Sign1("") \o lexemes \o Sign1("") \o Sign1("")
    IN \E i \in 1 .. Len(lexemes) : \/ PairMisread(l[i], l[i + 1], l[i + 2])
                                    \/ NamedOperatorMisread(l[i], l[i + 1], l[i + 2])

LocalNameTests == {Function("Equals", <<Function("LocalName", <<Step("Self", <<>>)>>),
                                        Step("Resource", <<"x">>)>>)}

PartMisread(step) ==
    LET left == IF step.functionArguments = <<>> THEN "" ELSE step.functionArguments[1].action
    IN \/ step.action = "Modulo" /\ left \in {"Multiply", "Div"}
       \/ step.action = "NotEquals" /\ left = "Equals"
       \/ /\ step.action \in {"GreaterThan", "GreaterThanOrEquals"}
          /\ left \in {"LessThan", "LessThanOrEquals"}
       \/ /\ step.action \in NumberFunctions
          /\ \E x \in ToSet(step.functionArguments) : x.action = "Union"
       \/ /\ step.action = "NodeSetTest" /\ step.nextStep # <<>>
          /\ step.nextStep[1].action \in {"Descendant_Or_Self", "ElementFunctionCall"}
       \/ /\ step.action = "XPathIndirection" /\ step.nextStep # <<>>
          /\ step.nextStep[1].action \notin {"Descendant_Or_Self", "ElementFunctionCall"}
       \/ Len(step.predicates) >= MaxPredicates
       \/ /\ step.action = "Concat" /\ Len(step.functionArguments) >= MaxFuncCallArgs
          /\ (Len(step.functionArguments) - 1) % (MaxFuncCallArgs - 1) = 0
       \/ /\ \E p \in ToSet(step.predicates) : p.action = "Count"
          /\ \A p \in ToSet(step.predicates) : NeedsPosition(p) => p.action = "Count"
       \/ /\ step.action \notin {"BooleanAnd", "BooleanOr", "Not"}
          /\ ToSet(step.functionArguments) \cap LocalNameTests # {}

Misread(step) ==
    \/ step \in LocalNameTests
    \/ LexemesMisread(Write(step))
    \/ \E part \in AllSteps(step) : PartMisread(part)

(* An expression with braces of its own, or the name "f" at the start, or too  *)
(* many segments.                                                              *)
TemplateMisread(template) ==
    LET segments == template.functionArguments
    IN \/ Len(segments) > MaxFuncCallArgs
       \/ IsPrefix(<<"{", "f">>, TemplateCharacters(template, FALSE))
       \/ \E segment \in ToSet(segments) :
              /\ segment.action # "Text"
              /\ \/ Misread(segment)
                 \/ ToSet(Characters(Write(segment), FALSE)) \cap {"{", "}"} # {}

--------------------------------------------------------------------------------
(* Properties.                                                                 *)

TypeOK ==
    /\ expressionFamily \in DOMAIN ExpressionFamilies
    /\ growth \in 0 .. Family.maxGrowth
    /\ expression = Step(expression.action, expression.key)
       \/ expression.functionArguments \o expression.predicates \o expression.nextStep # <<>>

(* An expression is read as it was meant: its operators are grouped as XPath   *)
(* groups them, its names, signs and spaces told apart, its steps, predicates  *)
(* and arguments at their places (XPathParser::tokenize, rearrangeTokens,      *)
(* tokenToStep), and the steps whose predicates need positions are known       *)
(* (tagStepPredicatesFlags); so is a template (doParseAVT).                    *)
ReadAs(read, meant) ==
    /\ Same(read) = Same(meant)
    /\ \A part \in AllSteps(read) : FlagsNeeded(part) \subseteq part.flags

ExpressionsRead ==
    \A spaced \in BOOLEAN :
        IF IsTemplate
        THEN TemplateMisread(expression)
             \/ ReadAs(ParseAVT(TemplateCharacters(expression, spaced)), TemplateMeans(expression))
        ELSE Misread(expression)
             \/ ReadAs(DoParse(Characters(Write(expression), spaced)), expression)
================================================================================
