-------------------------------- MODULE XPathParser --------------------------------
(******************************************************************************)
(* How an XPath expression is read (xpathparser-tokenize.cpp,                 *)
(* xpathparser.cpp): its characters are made tokens, the chains of tokens are *)
(* split at their operators, and what is left is made steps.                  *)
(*                                                                            *)
(* An expression is a sequence of characters, where a piece of a name or a    *)
(* numeral counts as one character.  A chain of tokens (Token::next) is a     *)
(* sequence.  What makes the code throw is made a token or a step "wrong".    *)
(******************************************************************************)
EXTENDS Integers, Sequences, SequencesExt

CONSTANTS
    MaxPredicates,     \* XPathStep_MaxPredicates
    MaxFuncCallArgs    \* XPathStep_MaxFuncCallArgs

Digits == {"0", "1", "2", "3"}

--------------------------------------------------------------------------------
(* Tokens.                                                                     *)

Token(type, symbol, token) ==
    [type |-> type, symbol |-> symbol, token |-> token,
     subExpression |-> <<>>, subExpression2 |-> <<>>]
Symbol(c) == Token("Symbol", c, <<>>)
QName(name) == Token("QName", "", name)
Text(text) == Token("Text", "", text)
WrongToken == Token("Wrong", "", <<>>)
IsSymbol(token, symbols) == token.type = "Symbol" /\ token.symbol \in symbols

IsNumeric(name) ==
    /\ name # <<>> /\ Head(name) \in Digits \cup {"-", "."}
    /\ Head(name) = "." => Len(name) > 1 /\ name[2] \in Digits
    /\ \A i \in 2 .. Len(name) : name[i] \in Digits \cup {"."}
    /\ \A i, j \in DOMAIN name : name[i] = "." /\ name[j] = "." => i = j

--------------------------------------------------------------------------------
(* The tokenizer.  Its state: the chains that are open, each below the last    *)
(* token of the one before; the name that is being read, and the text with     *)
(* its quote; whether one name closes the chain.                               *)

StartTokens == [chains |-> <<<<>>>>, qname |-> <<>>, quote |-> "", single |-> FALSE,
                lastChar |-> ""]

Chain(t) == Last(t.chains)
LastToken(t) == IF Chain(t) = <<>> THEN WrongToken ELSE Last(Chain(t))
NextToken(t, token) == [t EXCEPT !.chains[Len(t.chains)] = Append(@, token)]
ChangeLast(t, token) ==
    IF Chain(t) = <<>> THEN NextToken(t, WrongToken)
    ELSE [t EXCEPT !.chains[Len(t.chains)] = Append(Front(@), token)]

PushToken(t) == [t EXCEPT !.chains = Append(@, <<>>), !.single = FALSE]
PushSingleToken(t) == [PushToken(t) EXCEPT !.single = TRUE]
PopToken(t) ==
    IF Len(t.chains) = 1 THEN NextToken(t, WrongToken)
    ELSE LET below == [t EXCEPT !.chains = Front(@), !.single = FALSE]
         IN ChangeLast(below, [LastToken(below) EXCEPT !.subExpression = Chain(t)])

AxisSign == <<":", ":">>

(* The name that was read becomes a token, or the end of the one before.       *)
PushQName(t) ==
    LET last == LastToken(t)
        read == [t EXCEPT !.qname = <<>>]
        next == NextToken(read, QName(t.qname))
    IN IF t.qname = <<>> THEN t
       ELSE IF last.type = "QName" /\ (t.qname = AxisSign \/ IsSuffix(AxisSign, last.token))
       THEN ChangeLast(read, [last EXCEPT !.token = @ \o t.qname])
       ELSE IF t.single THEN PopToken(next) ELSE next

NewSymbolToken(t, c) == NextToken(PushQName(t), Symbol(c))

(* What follows the last comma of a call goes below a comma of its own.        *)
LastComma(chain) == SelectLastInSeq(chain, LAMBDA token : IsSymbol(token, {","}))
AddArgument(chain) ==
    LET n == LastComma(chain)
    IN Append(SubSeq(chain, 1, n),
              [Symbol(",") EXCEPT !.subExpression = SubSeq(chain, n + 1, Len(chain))])

OpenSection(t, c) ==
    LET read == PushQName(t)
        last == LastToken(read)
    IN PushToken(NewSymbolToken(
           IF c = "[" /\ IsSymbol(last, {"*"}) THEN ChangeLast(read, QName(<<"*">>)) ELSE read,
           c))

CloseSection(t, c) ==
    LET opening == CASE c = ")" -> "(" [] c = "]" -> "[" [] c = "}" -> "{"
        read == PushQName(t)
        full == IF c = ")" /\ LastComma(Chain(read)) # 0
                THEN [read EXCEPT !.chains[Len(read.chains)] = AddArgument(@)] ELSE read
        popped == PopToken(full)
    IN IF IsSymbol(LastToken(popped), {opening}) THEN popped ELSE NextToken(popped, WrongToken)

Comma(t) ==
    LET read == PushQName(t)
        n == Len(read.chains)
    IN IF n = 1 \/ Chain(read) = <<>> \/ ~IsSymbol(Last(read.chains[n - 1]), {"("})
       THEN NextToken(read, WrongToken)
       ELSE [read EXCEPT !.chains[n] = AddArgument(@)]

(* A star is a wildcard or a product.                                          *)
Star(t) ==
    LET last == LastToken(t)
        isQName ==
            IF t.qname # <<>>
            THEN Last(t.qname) = ":" \/ (t.qname \in {<<"mod">>, <<"div">>} /\ Chain(t) # <<>>)
            ELSE IF last.type = "QName" THEN Last(last.token) = ":" \/ last.token = <<"or">>
            ELSE Chain(t) = <<>> \/ IsSymbol(last, {"/", "~", "|", ",", "+", "*", "-"})
        read == IF t.qname \in {<<"mod">>, <<"div">>} THEN PushQName(t) ELSE t
    IN IF isQName THEN [read EXCEPT !.qname = Append(@, "*")] ELSE NewSymbolToken(read, "*")

(* A dash is in a name, a difference or a negation ("N").                      *)
Dash(t, nextChar) ==
    LET read == PushQName(t)
        last == LastToken(read)
        isUnary == \/ Chain(read) = <<>>
                   \/ IsSymbol(last, {"*", "+", "-", "=", ">", "<", "|", "[", "/", "~", ","})
                   \/ last.token \in {<<"mod">>, <<"div">>} /\ Len(Chain(read)) > 1
    IN IF \/ IsNumeric(t.qname)
          \/ t.lastChar \in {"", " ", "(", "[", ")", "]", "=", "<", ">", "+", "-", "*"}
       THEN NewSymbolToken(read, IF isUnary THEN "N" ELSE "-")
       ELSE IF nextChar = ">" THEN NewSymbolToken(t, "-")
       ELSE [t EXCEPT !.qname = Append(@, "-")]

(* The other signs, some of two characters.                                    *)
Sign(t, c) ==
    LET last == LastToken(t)
        Longer(symbol) == [last EXCEPT !.token = <<last.symbol, c>>, !.symbol = symbol]
    IN IF c = "/" /\ t.lastChar = "/" THEN ChangeLast(t, Longer("~"))
       ELSE IF c = "=" /\ t.lastChar \in {"<", ">", "!"} THEN ChangeLast(t, Longer(last.symbol))
       ELSE IF c \in {"/", "=", "<", ">"} /\ t.lastChar = "-"
       THEN ChangeLast(t, [last EXCEPT !.symbol = "#"])
       ELSE NewSymbolToken(t, c)

AtChar(t, c, nextChar) ==
    IF t.quote # ""
    THEN IF c # t.quote THEN ChangeLast(t, [LastToken(t) EXCEPT !.token = Append(@, c)])
         ELSE [t EXCEPT !.quote = "", !.lastChar = c]
    ELSE LET read ==
             CASE t.lastChar = "!" /\ c # "=" -> NextToken(t, WrongToken)
               [] c \in {"'", "\""} -> [NextToken(t, Text(<<>>)) EXCEPT !.quote = c]
               [] c \in {"{", "(", "["} -> OpenSection(t, c)
               [] c \in {"}", ")", "]"} -> CloseSection(t, c)
               [] c \in {"$", "@"} -> PushSingleToken(NewSymbolToken(t, c))
               [] c = "," -> Comma(t)
               [] c = "*" -> Star(t)
               [] c = "-" -> Dash(t, nextChar)
               [] c \in {"/", "=", "<", ">", "+", "!", "|"} -> Sign(t, c)
               [] c = " " -> PushQName(t)
               [] OTHER -> [t EXCEPT !.qname = Append(@, c)]
         IN [read EXCEPT !.lastChar = c]

(* What is left open at the end is wrong.                                      *)
Closed(t) == IF Len(t.chains) > 1 \/ t.quote # "" THEN <<WrongToken>> ELSE Chain(t)

CharAfter(chars, i) == IF i = Len(chars) THEN "" ELSE chars[i + 1]

Tokenize(xpath) ==
    Closed(PushQName(FoldLeftDomain(LAMBDA s, i : AtChar(s, xpath[i], CharAfter(xpath, i)),
                                    StartTokens, xpath)))

--------------------------------------------------------------------------------
(* The operators: the last of those that bind least splits its chain.          *)

Precedence(token) ==
    CASE token.type = "QName" /\ token.token = <<"or">> -> 30
      [] token.type = "QName" /\ token.token = <<"and">> -> 29
      [] IsSymbol(token, {"="}) -> 28
      [] IsSymbol(token, {"!"}) -> 27
      [] IsSymbol(token, {"<"}) -> 26
      [] IsSymbol(token, {">"}) -> 25
      [] IsSymbol(token, {"|"}) -> 24
      [] IsSymbol(token, {"+"}) -> 23
      [] IsSymbol(token, {"-"}) -> 22
      [] IsSymbol(token, {"*"}) -> 21
      [] token.type = "QName" /\ token.token = <<"div">> -> 20
      [] token.type = "QName" /\ token.token = <<"mod">> -> 19
      [] OTHER -> 0

(* Mutant of BetterCandidate: the first of those that bind least.              *)
FirstCandidate(chain, candidate, i) ==
    /\ i \in 2 .. Len(chain) - 1
    /\ Precedence(chain[i]) > (IF candidate = 0 THEN 0 ELSE Precedence(chain[candidate]))
    /\ chain[i].type = "QName" => ~IsSymbol(chain[i - 1], {"/", "~"})

(* A name is not an operator after a path sign, nor twice.                     *)
BetterCandidate(chain, candidate, i) ==
    LET token == chain[i]
        last == chain[i - 1]
    IN /\ i \in 2 .. Len(chain) - 1
       /\ Precedence(token) # 0
       /\ candidate # 0 => Precedence(token) >= Precedence(chain[candidate])
       /\ token.type = "QName" => /\ ~IsSymbol(last, {"/", "~"})
                                  /\ candidate # 0 => last.token # token.token

Candidate(chain) ==
    FoldLeftDomain(LAMBDA c, i : IF BetterCandidate(chain, c, i) THEN i ELSE c, 0, chain)

RECURSIVE RearrangeTokens(_)
RearrangeTokens(tokens) ==
    LET rooted == IF IsSymbol(Head(tokens), {"~"}) THEN <<Symbol("/")>> \o tokens ELSE tokens
        chain == [i \in DOMAIN rooted |->
                     IF rooted[i].subExpression = <<>> \/ rooted[i].subExpression2 # <<>>
                     THEN rooted[i]
                     ELSE [rooted[i] EXCEPT !.subExpression = RearrangeTokens(@)]]
        k == Candidate(chain)
    IN IF k = 0 THEN chain
       ELSE <<[chain[k] EXCEPT
                  !.type = "Symbol",
                  !.symbol = IF chain[k].type = "QName" THEN "B" ELSE @,
                  !.subExpression = RearrangeTokens(SubSeq(chain, 1, k - 1)),
                  !.subExpression2 = RearrangeTokens(SubSeq(chain, k + 1, Len(chain)))]>>

--------------------------------------------------------------------------------
(* Steps.  A numeral is its key; the key <<>> is that of any node.             *)

Step(action, key) == [action |-> action, key |-> key, functionArguments |-> <<>>,
                      predicates |-> <<>>, flags |-> {}, nextStep |-> <<>>]
Function(action, arguments) == [Step(action, <<>>) EXCEPT !.functionArguments = arguments]
WrongStep == Step("Wrong", <<>>)
Followed(step, next) == [step EXCEPT !.nextStep = <<next>>]

Axes == [Ancestor |-> <<"ancestor">>, Attribute |-> <<"attribute">>, Child |-> <<"child">>,
         Descendant |-> <<"descendant">>, Parent |-> <<"parent">>, Self |-> <<"self">>,
         Descendant_Or_Self |-> <<"descendant", "-", "or", "-", "self">>,
         Following_Sibling |-> <<"following", "-", "sibling">>]
Functions == [Concat |-> <<"concat">>, Count |-> <<"count">>, Key |-> <<"key">>,
              Last |-> <<"last">>, LocalName |-> <<"local", "-", "name">>, Not |-> <<"not">>,
              Position |-> <<"position">>, String |-> <<"string">>]
Called(table, name) == CHOOSE action \in DOMAIN table : table[action] = name

NumberFunctions == {"Plus", "Minus", "Multiply", "Div", "Modulo"}

(* The flags of a predicate that uses its position.                            *)
RECURSIVE CheckPositionnalExpression(_)
CheckPositionnalExpression(step) ==
    CASE step.action = "Position" -> {"position"}
      [] step.action = "Last" -> {"position", "last"}
      [] OTHER -> LET inside == step.predicates \o step.functionArguments \o step.nextStep
                  IN UNION {CheckPositionnalExpression(inside[i]) : i \in DOMAIN inside}

(* A predicate that is a number, or that uses its position.                    *)
TagStepPredicatesFlags(step) ==
    [step EXCEPT !.flags = @ \cup UNION {
        IF p.action \in {"Variable", "Const"} THEN {"position"}
        ELSE CheckPositionnalExpression(p)
             \cup (IF p.action \in NumberFunctions THEN {"position"} ELSE {})
        : p \in ToSet(step.predicates)}]

(* A test that is not that of a key: *, or the star of a namespace.            *)
TestOf(axis, name) ==
    IF name = <<"*">> /\ axis = "Attribute" THEN Step(axis, <<>>)
    ELSE IF name # <<>> /\ Last(name) = "*" /\ Len(name) > 1
    THEN [Step(axis, Front(name)) EXCEPT !.flags = {"namespace only"}]
    ELSE Step(axis, name)

(* The axis before "::", the child axis if none, and the name after it.        *)
AxisAndName(token) ==
    LET k == SelectInSeq([i \in 1 .. Len(token) - 1 |-> SubSeq(token, i, i + 1)],
                         LAMBDA pair : pair = AxisSign)
    IN IF k = 0 THEN [axis |-> "Child", name |-> token]
       ELSE LET name == SubSeq(token, 1, k - 1)
            IN [axis |-> IF \E a \in DOMAIN Axes : Axes[a] = name
                         THEN Called(Axes, name) ELSE "Wrong",
                name |-> SubSeq(token, k + 2, Len(token))]

QNameTokenToTest(token, next) ==
    CASE token.token = <<".">> -> Step("Self", <<>>)
      [] token.token = <<".", ".">> ->
            IF next # <<>> /\ ~IsSymbol(Head(next), {"/", "~"}) THEN WrongStep
            ELSE Step("Parent", <<>>)
      [] OTHER -> LET test == AxisAndName(token.token) IN TestOf(test.axis, test.name)

(* node(), text(), and such; element() is another name of the star.            *)
NodeTests == {<<"node">>, <<"text">>, <<"comment">>, <<"element">>}
NodeTestKey(name) ==
    CASE name = <<"node">> -> <<>>
      [] name = <<"element">> -> <<"*">>
      [] OTHER -> Append(name, "()")

BinaryAction(token) ==
    CASE token.symbol = "+" -> "Plus"
      [] token.symbol = "*" -> "Multiply"
      [] token.symbol = "=" -> "Equals"
      [] token.symbol = "!" -> "NotEquals"
      [] token.symbol = "|" -> "Union"
      [] token.symbol = "-" -> "Minus"
      [] token.symbol = "<" -> IF token.token = <<>> THEN "LessThan" ELSE "LessThanOrEquals"
      [] token.symbol = ">" ->
            IF token.token = <<>> THEN "GreaterThan" ELSE "GreaterThanOrEquals"
      [] token.symbol = "B" -> CASE token.token = <<"div">> -> "Div"
                                 [] token.token = <<"mod">> -> "Modulo"
                                 [] token.token = <<"and">> -> "BooleanAnd"
                                 [] token.token = <<"or">> -> "BooleanOr"

(* local-name() = 'text'.                                                      *)
IsLocalNameTest(token) ==
    /\ token.symbol = "="
    /\ token.subExpression[1].type = "QName"
    /\ token.subExpression[1].token = Functions.LocalName
    /\ token.subExpression2[1].type = "Text"
    /\ Len(token.subExpression) > 1 /\ token.subExpression[2].type = "Symbol"
    /\ token.subExpression[2].subExpression = <<>>

(* How many predicates a chain starts with.                                    *)
PredicatesAt(chain) ==
    LET other == SelectInSeq(chain, LAMBDA token : ~IsSymbol(token, {"["}))
    IN IF other = 0 THEN Len(chain) ELSE other - 1

RECURSIVE TokenToStep(_), NextTokenToStep(_, _), TokenToFunctionStep(_), FillArguments(_, _)

(* A step with the predicates and the steps that follow it.                    *)
NextTokenToStep(step, next) ==
    IF next = <<>> THEN step
    ELSE CASE IsSymbol(Head(next), {"/"}) -> Followed(step, TokenToStep(Tail(next)))
           [] IsSymbol(Head(next), {"["}) ->
                LET n == PredicatesAt(next)
                    tested == [step EXCEPT !.predicates =
                                  [i \in 1 .. n |-> TokenToStep(next[i].subExpression)]]
                IN IF n >= MaxPredicates THEN WrongStep
                   ELSE TagStepPredicatesFlags(
                            NextTokenToStep(tested, SubSeq(next, n + 1, Len(next))))
           [] IsSymbol(Head(next), {"~", "#"}) -> Followed(step, TokenToStep(next))
           [] OTHER -> WrongStep

(* The last place of concat() holds a call with the other arguments.           *)
FillArguments(action, arguments) ==
    LET Argument(i) ==
            IF action = "Key" /\ i = 1 /\ arguments[i][1].type = "Text"
            THEN Step("Const", arguments[i][1].token) ELSE TokenToStep(arguments[i])
        rest == SubSeq(arguments, MaxFuncCallArgs, Len(arguments))
    IN IF Len(arguments) < MaxFuncCallArgs THEN [i \in DOMAIN arguments |-> Argument(i)]
       ELSE IF action = "Concat" /\ Len(rest) > 1
       THEN [i \in 1 .. MaxFuncCallArgs - 1 |-> Argument(i)]
            \o <<Function("Concat", FillArguments("Concat", rest))>>
       ELSE <<WrongStep>>

(* A name and its parentheses: a test of nodes, or a call.                     *)
TokenToFunctionStep(chain) ==
    LET test == AxisAndName(chain[1].token)
        name == chain[1].token
        inside == chain[2].subExpression
        known == \E f \in DOMAIN Functions : Functions[f] = name
        action == IF known THEN Called(Functions, name) ELSE "FunctionCall"
        arguments == IF inside # <<>> /\ IsSymbol(Head(inside), {","})
                     THEN [i \in DOMAIN inside |-> inside[i].subExpression]
                     ELSE IF inside # <<>> THEN <<inside>> ELSE <<>>
        filled == IF arguments = <<>> /\ action \in {"String", "LocalName"}
                  THEN <<Step("Self", <<>>)>> ELSE FillArguments(action, arguments)
        next == SubSeq(chain, 3, Len(chain))
    IN IF test.name \in NodeTests
       THEN IF inside # <<>> THEN WrongStep
            ELSE NextTokenToStep(
                     Step(test.axis, NodeTestKey(test.name)), next)
       ELSE NextTokenToStep([Step(action, IF known THEN <<>> ELSE name)
                                EXCEPT !.functionArguments = filled], next)

(* What follows "//": descendants, unless their positions are those of         *)
(* children.                                                                   *)
DescendantToStep(next) ==
    LET step == TagStepPredicatesFlags(TokenToStep(next))
    IN IF next = <<>> \/ (Head(next).type # "QName" /\ ~IsSymbol(Head(next), {"@"}))
       THEN WrongStep
       ELSE IF step.action # "Child" \/ step.flags \cap {"position", "last"} # {}
       THEN Followed(Step("Descendant_Or_Self", <<>>), step)
       ELSE [step EXCEPT !.action = "Descendant"]

(* What follows an expression in parentheses.                                  *)
NodeSetTest(inside, next) ==
    LET n == PredicatesAt(next)
        step == [Function("NodeSetTest", <<TokenToStep(inside)>>) EXCEPT
                    !.predicates = [i \in 1 .. n |-> TokenToStep(next[i].subExpression)]]
        rest == SubSeq(next, n + 1, Len(next))
    IN IF n >= MaxPredicates \/ (rest # <<>> /\ ~IsSymbol(Head(rest), {"/", "~"}))
       THEN WrongStep
       ELSE TagStepPredicatesFlags(
                IF rest = <<>> THEN step ELSE Followed(step, TokenToStep(Tail(rest))))

BinaryTokenToStep(token) ==
    IF IsLocalNameTest(token)
    THEN [Step("Self", token.subExpression2[1].token) EXCEPT !.flags = {"local name only"}]
    ELSE Function(BinaryAction(token), <<TokenToStep(token.subExpression),
                                         TokenToStep(token.subExpression2)>>)

(* The call after "->".                                                        *)
ElementFunctionCall(next) ==
    LET call == TokenToFunctionStep(next)
    IN IF Len(next) > 1 /\ Head(next).type = "QName" /\ IsSymbol(next[2], {"("})
          /\ call.action = "FunctionCall"
       THEN [call EXCEPT !.action = "ElementFunctionCall"] ELSE WrongStep

TokenToStep(chain) ==
    LET token == Head(chain)
        next == Tail(chain)
        inside == token.subExpression
    IN CASE chain = <<>> \/ token.type = "Wrong" -> WrongStep
         [] token.type = "Text" -> Step("Resource", token.token)
         [] token.type = "QName" ->
              CASE IsNumeric(token.token) ->
                     IF next = <<>> THEN Step("Const", token.token) ELSE WrongStep
                [] next # <<>> /\ IsSymbol(Head(next), {"("}) -> TokenToFunctionStep(chain)
                [] OTHER -> NextTokenToStep(QNameTokenToTest(token, next), next)
         [] token.symbol = "/" ->
              IF next = <<>> THEN Step("Root", <<>>)
              ELSE Followed(Step("Root", <<>>), TokenToStep(next))
         [] token.symbol = "$" -> NextTokenToStep(Step("Variable", inside[1].token), next)
         [] token.symbol = "@" -> NextTokenToStep(TestOf("Attribute", inside[1].token), next)
         [] token.subExpression2 # <<>> ->
              IF next = <<>> THEN BinaryTokenToStep(token) ELSE WrongStep
         [] token.symbol = "N" -> Function("Minus", <<Step("Const", <<"0">>), TokenToStep(next)>>)
         [] token.symbol = "(" ->
              IF next = <<>> THEN TokenToStep(inside) ELSE NodeSetTest(inside, next)
         [] token.symbol = "~" -> DescendantToStep(next)
         [] token.symbol = "{" ->
              LET step == Function("XPathIndirection", <<TokenToStep(inside)>>)
              IN IF next = <<>> THEN step ELSE Followed(step, TokenToStep(next))
         [] token.symbol = "#" -> ElementFunctionCall(next)
         [] OTHER -> WrongStep

NullStep == Step("Null", <<>>)

TokensToStep(tokens) ==
    IF tokens = <<>> THEN NullStep ELSE TokenToStep(RearrangeTokens(tokens))

DoParse(xpath) == TokensToStep(Tokenize(xpath))

--------------------------------------------------------------------------------
(* Attribute value templates (xpathparser-avt.cpp): texts, and expressions in  *)
(* braces.                                                                     *)

StartTemplate == [steps |-> <<>>, segment |-> <<>>, depth |-> 0, skip |-> FALSE]

CopyChar(a, c) == [a EXCEPT !.segment = Append(@, c)]
EndSegment(a, step) == [a EXCEPT !.steps = Append(@, step), !.segment = <<>>]
EndText(a) == IF a.segment = <<>> THEN a ELSE EndSegment(a, Step("Resource", a.segment))

(* A brace that is doubled is a character; one in an expression is counted.    *)
AtTemplateChar(a, c, nextChar) ==
    CASE a.skip -> [a EXCEPT !.skip = FALSE]
      [] c = "{" /\ nextChar = "{" -> [CopyChar(a, c) EXCEPT !.skip = TRUE]
      [] c = "{" /\ a.depth > 0 -> [a EXCEPT !.depth = @ + 1]
      [] c = "{" -> [EndText(a) EXCEPT !.depth = 1]
      [] c = "}" /\ a.depth = 1 -> [EndSegment(a, DoParse(a.segment)) EXCEPT !.depth = 0]
      [] c = "}" /\ a.depth > 1 -> [CopyChar(a, c) EXCEPT !.depth = @ - 1]
      [] c = "}" /\ nextChar = "}" -> [CopyChar(a, c) EXCEPT !.skip = TRUE]
      [] c = "}" -> EndSegment(a, WrongStep)
      [] OTHER -> CopyChar(a, c)

(* One step too many opens a call for the steps that are left, and they go     *)
(* over the first ones: the call stays empty.                                  *)
ConcatSteps(steps) ==
    LET Put(call, i) ==
            LET full == call.place = MaxFuncCallArgs /\ i < Len(steps)
                place == IF full THEN 1 ELSE call.place
                arguments == IF full THEN [call.arguments EXCEPT
                                              ![MaxFuncCallArgs] = Function("Concat", <<>>)]
                             ELSE call.arguments
            IN [place |-> place + 1, arguments |-> [arguments EXCEPT ![place] = steps[i]]]
        empty == [place |-> 1, arguments |-> [i \in 1 .. MaxFuncCallArgs |-> NullStep]]
    IN Function("Concat", SelectSeq(FoldLeftDomain(Put, empty, steps).arguments,
                                    LAMBDA step : step # NullStep))

TemplateToStep(a) ==
    IF a.depth > 0 \/ a.steps = <<>> THEN WrongStep
    ELSE IF Len(a.steps) = 1 THEN a.steps[1] ELSE ConcatSteps(a.steps)

ParseAVT(expr) ==
    IF IsPrefix(<<"{", "f">>, expr) THEN WrongStep
    ELSE TemplateToStep(EndText(FoldLeftDomain(
             LAMBDA a, i : AtTemplateChar(a, expr[i], CharAfter(expr, i)), StartTemplate, expr)))
================================================================================
