-------------------------------- MODULE XPathAxes --------------------------------
(******************************************************************************)
(* The evaluation of location paths and the matching of patterns on a         *)
(* document (xpath-eval-axis-pos.cpp, xpath-eval-nodetest, xpath-matches.cpp, *)
(* nodeset.hpp).  A document is a tree of elements that grows by its end, so  *)
(* the elements are numbered in document order: the code does not know these  *)
(* numbers, it follows the links of the elements, and the reference           *)
(* definitions at the end of the module are the ones that use them.           *)
(******************************************************************************)
EXTENDS Integers, Sequences, FiniteSets, SequencesExt

CONSTANTS
    Labels,        \* the names of elements; those named "a" have an attribute "id"
    MaxElements,   \* bound on the elements of a document
    PathPredicates,    \* the lists of predicates of the paths that are checked
    PatternPredicates  \* the lists of predicates of the patterns

VARIABLES
    father,   \* the father of each element, 0 for the root
    label     \* the name of each element

vars == <<father, label>>

RootElement == 1
Elements == 1 .. Len(father)

(* The attribute of an element is the opposite of its number.                  *)
IsAttribute(node) == node < 0
Owner(node) == IF IsAttribute(node) THEN -node ELSE node
Attributes(e) == IF label[e] = "a" THEN <<-e>> ELSE <<>>
Nodes == Elements \cup {-e : e \in {x \in Elements : label[x] = "a"}}

--------------------------------------------------------------------------------
(* The links of the elements; 0 is the null element.                           *)

ChildrenOf(e) == SelectSeq([i \in Elements |-> i], LAMBDA x : father[x] = e)
FirstOf(s) == IF s = <<>> THEN 0 ELSE Head(s)
GetChild(e) == FirstOf(ChildrenOf(e))
GetLastChild(e) == IF ChildrenOf(e) = <<>> THEN 0 ELSE Last(ChildrenOf(e))
GetYounger(e) ==
    FirstOf(SelectSeq([i \in Elements |-> i], LAMBDA x : father[x] = father[e] /\ x > e))
GetElder(e) ==
    FirstOf(Reverse(SelectSeq([i \in Elements |-> i],
                              LAMBDA x : father[x] = father[e] /\ x < e)))

RECURSIVE Ancestors(_)
Ancestors(e) == IF e = 0 THEN <<>> ELSE <<e>> \o Ancestors(father[e])

Init == father = <<0>> /\ label = <<"root">>

(* The end of the document grows: a last child for one of the elements that    *)
(* are open there.                                                             *)
AppendLastChild(e, name) ==
    /\ Len(father) < MaxElements
    /\ e \in ToSet(Ancestors(Len(father)))
    /\ father' = Append(father, e)
    /\ label' = Append(label, name)

Next == \E e \in Elements, name \in Labels : AppendLastChild(e, name)

Spec == Init /\ [][Next]_vars

--------------------------------------------------------------------------------
(* Document order, and node sets.                                              *)

(* The brother that holds e below an ancestor of e.                            *)
Below(ancestor, e) == CHOOSE x \in ToSet(Ancestors(e)) : father[x] = ancestor

RECURSIVE ReachesByYounger(_, _)
ReachesByYounger(e, other) ==
    e # 0 /\ (e = other \/ ReachesByYounger(GetYounger(e), other))

IsElementBefore(e, other) ==
    IF e \in ToSet(Ancestors(other)) THEN TRUE
    ELSE IF other \in ToSet(Ancestors(e)) THEN FALSE
    ELSE LET common == FirstOf(SelectSeq(Ancestors(other),
                                         LAMBDA x : x \in ToSet(Ancestors(e))))
         IN ReachesByYounger(Below(common, e), Below(common, other))

IsBeforeInDocumentOrder(node, other) ==
    IF Owner(node) = Owner(other)
    THEN ~IsAttribute(node)
    ELSE IsElementBefore(Owner(node), Owner(other))

(* Mutant of PushBack: a node goes at the end.                                 *)
PushBackAtEnd(result, node) ==
    IF result # <<>> /\ node = Last(result) THEN result ELSE Append(result, node)

(* A node goes at its place, once.                                             *)
PushBack(result, node) ==
    IF result = <<>> THEN <<node>>
    ELSE IF node = Last(result) THEN result
    ELSE IF IsBeforeInDocumentOrder(Last(result), node) THEN Append(result, node)
    ELSE LET place == CHOOSE i \in DOMAIN result :
                 /\ node = result[i] \/ IsBeforeInDocumentOrder(node, result[i])
                 /\ \A j \in 1 .. i - 1 : /\ node # result[j]
                                          /\ ~IsBeforeInDocumentOrder(node, result[j])
         IN IF node = result[place] THEN result ELSE InsertAt(result, place, node)

--------------------------------------------------------------------------------
(* A step is [axis, test, predicates].                                         *)

EvalNodeKey(node, test) ==
    CASE test = "node()" -> TRUE
      [] test = "*" -> ~IsAttribute(node) /\ label[node] # "root"
      [] OTHER -> IF IsAttribute(node) THEN test = "id" ELSE test = label[node]

Selected(s, test) == SelectSeq(s, LAMBDA x : EvalNodeKey(x, test))

CountB(node) ==
    IF IsAttribute(node) THEN 0 ELSE Len(Selected(ChildrenOf(node), "b"))

(* The predicates: a position, last(), the test of a child, and count(b),      *)
(* whose value is a number.                                                    *)
MatchesPredicate(predicate, node, position, size) ==
    CASE predicate = "1" -> position = 1
      [] predicate = "2" -> position = 2
      [] predicate = "last()" -> position = size
      [] predicate = "b" -> CountB(node) > 0
      [] predicate = "count(b)" -> position = CountB(node)

RECURSIVE EvalPredicates(_, _)
EvalPredicates(s, predicates) ==
    IF predicates = <<>> THEN s
    ELSE LET kept == {i \in DOMAIN s : MatchesPredicate(Head(predicates), s[i], i, Len(s))}
             order == SetToSortSeq(kept, <)
         IN EvalPredicates([k \in DOMAIN order |-> s[order[k]]], Tail(predicates))

--------------------------------------------------------------------------------
(* The axes: the nodes in the order the code comes to them.                    *)

AxisAncestor(node, includeSelf) ==
    IF IsAttribute(node)
    THEN (IF includeSelf THEN <<node>> ELSE <<>>) \o Ancestors(Owner(node))
    ELSE LET current == IF includeSelf THEN node ELSE father[node]
         IN IF node = RootElement \/ current = RootElement THEN <<>> ELSE Ancestors(current)

(* The younger brother of e, or of the nearest ancestor that has one below     *)
(* stop; 0 at stop.                                                            *)
RECURSIVE NextAfter(_, _)
NextAfter(e, stop) ==
    IF e = stop THEN 0
    ELSE IF GetYounger(e) # 0 THEN GetYounger(e) ELSE NextAfter(father[e], stop)

RECURSIVE DescendantsFrom(_, _)
DescendantsFrom(e, stop) ==
    IF e = 0 THEN <<>>
    ELSE <<e>> \o DescendantsFrom(IF GetChild(e) # 0 THEN GetChild(e) ELSE NextAfter(e, stop),
                                  stop)

AxisDescendant(node, includeSelf) ==
    (IF includeSelf THEN <<node>> ELSE <<>>)
    \o (IF IsAttribute(node) THEN <<>> ELSE DescendantsFrom(GetChild(node), node))

AxisFollowing(node) ==
    IF Owner(node) = RootElement THEN <<>>
    ELSE IF IsAttribute(node) /\ GetChild(Owner(node)) # 0
    THEN DescendantsFrom(GetChild(Owner(node)), RootElement)
    ELSE DescendantsFrom(NextAfter(Owner(node), RootElement), RootElement)

(* The climb from the first of its brothers: to an ancestor of the node,       *)
(* which is not evaluated, or to an element before the node, which is.         *)
RECURSIVE PrecedingFrom(_, _), ClimbPreceding(_, _), FirstElder(_)
FirstElder(e) ==
    IF e = RootElement THEN 0 ELSE IF GetElder(e) # 0 THEN e ELSE FirstElder(father[e])
ClimbPreceding(e, parentElement) ==
    IF GetElder(e) # 0 THEN PrecedingFrom(GetElder(e), parentElement)
    ELSE IF father[e] = RootElement THEN <<>>
    ELSE IF father[e] = parentElement
    THEN LET up == FirstElder(father[e])
         IN IF up = 0 THEN <<>> ELSE PrecedingFrom(GetElder(up), father[up])
    ELSE <<father[e]>> \o ClimbPreceding(father[e], parentElement)
PrecedingFrom(e, parentElement) ==
    IF GetLastChild(e) # 0 THEN PrecedingFrom(GetLastChild(e), parentElement)
    ELSE <<e>> \o ClimbPreceding(e, parentElement)

AxisPreceding(node) ==
    LET start == FirstElder(Owner(node))
    IN IF start = 0 THEN <<>> ELSE PrecedingFrom(GetElder(start), father[start])

RECURSIVE Elders(_)
Elders(e) == IF e = 0 THEN <<>> ELSE <<e>> \o Elders(GetElder(e))
RECURSIVE Youngers(_)
Youngers(e) == IF e = 0 THEN <<>> ELSE <<e>> \o Youngers(GetYounger(e))

AxisParent(node) ==
    IF IsAttribute(node) THEN <<Owner(node)>>
    ELSE IF father[node] = 0 THEN <<>> ELSE <<father[node]>>

AxisNodes(node, axis) ==
    CASE axis = "root" -> <<RootElement>>
      [] axis = "ancestor" -> AxisAncestor(node, FALSE)
      [] axis = "ancestor-or-self" -> AxisAncestor(node, TRUE)
      [] axis = "attribute" -> IF IsAttribute(node) THEN <<>> ELSE Attributes(node)
      [] axis = "child" -> IF IsAttribute(node) THEN <<>> ELSE ChildrenOf(node)
      [] axis = "descendant" -> AxisDescendant(node, FALSE)
      [] axis = "descendant-or-self" -> AxisDescendant(node, TRUE)
      [] axis = "following" -> AxisFollowing(node)
      [] axis = "following-sibling" ->
            IF IsAttribute(node) THEN <<>> ELSE Youngers(GetYounger(node))
      [] axis = "parent" -> AxisParent(node)
      [] axis = "preceding" -> AxisPreceding(node)
      [] axis = "preceding-sibling" ->
            IF IsAttribute(node) THEN <<>> ELSE Elders(GetElder(node))
      [] axis = "self" -> <<node>>

Reverted == {"ancestor", "ancestor-or-self", "preceding", "preceding-sibling"}

(* The nodes of a step from a node, as the next step is given them.            *)
EvalAxis(node, step) ==
    LET s == EvalPredicates(Selected(AxisNodes(node, step.axis), step.test), step.predicates)
    IN IF step.axis \in Reverted THEN Reverse(s) ELSE s

RECURSIVE EvalStep(_, _, _)
EvalStep(result, node, steps) ==
    IF steps = <<>> THEN PushBack(result, node)
    ELSE FoldLeft(LAMBDA r, x : EvalStep(r, x, Tail(steps)), result, EvalAxis(node, Head(steps)))

Eval(node, steps) == EvalStep(<<>>, node, steps)

--------------------------------------------------------------------------------
(* Patterns.  What is written is [start, steps], where start is "", "/" or     *)
(* "//", and a step has the sign before it in its field sep.                   *)

HasPosition(step) ==
    \E i \in DOMAIN step.predicates : step.predicates[i] \in {"1", "2", "last()"}
HasLast(step) == \E i \in DOMAIN step.predicates : step.predicates[i] = "last()"

Step(axis, test, predicates) == [axis |-> axis, test |-> test, predicates |-> predicates]

(* Mutant of TokenToStep: "//" is a descendant whatever the predicates.        *)
TokenToStepAlways(written, sep) ==
    LET step == Step(written.axis, written.test, written.predicates)
    IN IF sep # "//" THEN <<step>>
       ELSE IF step.axis = "child" THEN <<[step EXCEPT !.axis = "descendant"]>>
       ELSE <<Step("descendant-or-self", "node()", <<>>), step>>

(* A step after "//" is a descendant when that makes no difference.            *)
TokenToStep(written, sep) ==
    LET step == Step(written.axis, written.test, written.predicates)
    IN IF sep # "//" THEN <<step>>
       ELSE IF step.axis = "child" /\ ~HasPosition(step)
       THEN <<[step EXCEPT !.axis = "descendant"]>>
       ELSE <<Step("descendant-or-self", "node()", <<>>), step>>

Compile(p) ==
    (IF p.start = "" THEN <<>> ELSE <<Step("root", "node()", <<>>)>>)
    \o FlattenSeq([i \in DOMAIN p.steps |->
           TokenToStep(p.steps[i], IF i = 1 THEN p.start ELSE p.steps[i].sep)])

(* The step before another, 0 if none: "//" at the root is forgotten.          *)
LastStep(steps, i) ==
    IF i = 1 \/ ( /\ steps[i - 1].axis = "root"
                  /\ steps[i].axis \in {"descendant", "descendant-or-self"} )
    THEN 0 ELSE i - 1

(* Mutant of Candidates: the brothers up to the node.                          *)
CandidatesUpTo(node, step) ==
    IF ~HasPosition(step) THEN <<node>>
    ELSE SelectSeq(Selected(ChildrenOf(father[node]), step.test), LAMBDA x : x <= node)

(* The brothers a predicate with a position needs: up to the node, all of them *)
(* for last().                                                                 *)
Candidates(node, step) ==
    IF ~HasPosition(step) THEN <<node>>
    ELSE SelectSeq(Selected(ChildrenOf(father[node]), step.test),
                   LAMBDA x : HasLast(step) \/ x <= node)

RECURSIVE MatchesStep(_, _, _)
MatchesStep(node, steps, i) ==
    LET step == steps[i]
        last == LastStep(steps, i)
        Before(previous) == last = 0 \/ MatchesStep(previous, steps, last)
        Fits(candidates) == node \in ToSet(EvalPredicates(candidates, step.predicates))
    IN CASE step.axis = "root" -> node = RootElement
         [] step.axis \in {"child", "descendant", "descendant-or-self"} ->
              /\ ~IsAttribute(node)
              /\ EvalNodeKey(node, step.test)
              /\ node # RootElement
              /\ Fits(Candidates(node, step))
              /\ IF step.axis = "child" \/ last = 0
                 THEN Before(father[node])
                 ELSE \E ancestor \in ToSet(Ancestors(IF step.axis = "descendant"
                                                      THEN father[node] ELSE node)) :
                          ancestor # RootElement /\ Before(ancestor)
         [] step.axis = "attribute" ->
              /\ IsAttribute(node)
              /\ EvalNodeKey(node, step.test)
              /\ Fits(<<node>>)
              /\ Before(Owner(node))

Matches(node, steps) == MatchesStep(node, steps, Len(steps))

--------------------------------------------------------------------------------
(* What the paths and patterns mean, by the numbers of the elements.           *)

Rank(node) == 2 * Owner(node) + (IF IsAttribute(node) THEN 1 ELSE 0)
InOrder(S) == SetToSortSeq(S, LAMBDA x, y : Rank(x) < Rank(y))

Above(node) ==
    IF IsAttribute(node) THEN ToSet(Ancestors(Owner(node)))
    ELSE ToSet(Ancestors(node)) \ {node}
Inside(node) == {x \in Elements : ~IsAttribute(node) /\ node \in Above(x)}

AxisMeans(node, axis) ==
    CASE axis = "ancestor" -> Above(node)
      [] axis = "ancestor-or-self" -> Above(node) \cup {node}
      [] axis = "attribute" -> {x \in Nodes : IsAttribute(x) /\ Owner(x) = node}
      [] axis = "child" -> {x \in Elements : father[x] = node}
      [] axis = "descendant" -> Inside(node)
      [] axis = "descendant-or-self" -> Inside(node) \cup {node}
      [] axis = "following" -> {x \in Elements : Rank(x) > Rank(node)} \ Inside(node)
      [] axis = "following-sibling" ->
            {x \in Elements : ~IsAttribute(node) /\ father[x] = father[node] /\ x > node}
      [] axis = "parent" -> {x \in Elements : \/ IsAttribute(node) /\ x = Owner(node)
                                              \/ ~IsAttribute(node) /\ x = father[node]}
      [] axis = "preceding" -> {x \in Elements : Rank(x) < Rank(node)} \ Above(node)
      [] axis = "preceding-sibling" ->
            {x \in Elements : ~IsAttribute(node) /\ father[x] = father[node] /\ x < node}
      [] axis = "self" -> {node}

StepMeans(node, step) ==
    LET s == InOrder({x \in AxisMeans(node, step.axis) : EvalNodeKey(x, step.test)})
    IN ToSet(EvalPredicates(IF step.axis \in Reverted THEN Reverse(s) ELSE s,
                            step.predicates))

RECURSIVE PathMeans(_, _)
PathMeans(S, steps) ==
    IF steps = <<>> THEN S
    ELSE PathMeans(UNION {StepMeans(x, Head(steps)) : x \in S}, Tail(steps))

(* "//" is a step to every node inside.                                        *)
AsWritten(p) ==
    FlattenSeq([i \in DOMAIN p.steps |->
        LET w == p.steps[i]
            sep == IF i = 1 THEN p.start ELSE w.sep
        IN (IF sep = "//" THEN <<Step("descendant-or-self", "node()", <<>>)>> ELSE <<>>)
           \o <<Step(w.axis, w.test, w.predicates)>>])

(* What a pattern selects: from any node, since its steps go down, or the root.*)
PatternMeans(p) == PathMeans(IF p.start = "" THEN Elements ELSE {RootElement}, AsWritten(p))

--------------------------------------------------------------------------------
(* Properties.                                                                 *)

TypeOK ==
    /\ father \in Seq(0 .. MaxElements) /\ label \in Seq(Labels \cup {"root"})
    /\ Len(father) = Len(label)
    /\ \A e \in Elements : father[e] < e

Axes == {"ancestor", "ancestor-or-self", "attribute", "child", "descendant",
         "descendant-or-self", "following", "following-sibling", "parent", "preceding",
         "preceding-sibling", "self"}

(* The paths: a step with predicates, or two steps without.  ancestor::node()  *)
(* is left out: from a child of the root it misses the root.                   *)
Paths ==
    LET any == {<<Step(x, t, ps)>> :
                   x \in Axes, t \in {"a", "*", "node()"}, ps \in PathPredicates}
        two == {<<Step(x, "*", <<>>), Step(y, "node()", <<>>)>> : x \in Axes, y \in Axes}
    IN {p \in any \cup two : \A i \in DOMAIN p :
            p[i].axis \in {"ancestor", "ancestor-or-self"} => p[i].test # "node()"}

WrittenSteps ==
    {[axis |-> "child", test |-> t, predicates |-> ps, sep |-> sep] :
        t \in {"a", "*"}, ps \in PatternPredicates, sep \in {"/", "//"}}
    \cup {[axis |-> "attribute", test |-> "id", predicates |-> <<>>, sep |-> sep] :
        sep \in {"/", "//"}}

Patterns ==
    {[start |-> start, steps |-> <<s>>] : start \in {"", "/", "//"},
        s \in {x \in WrittenSteps : x.sep = "/"}}
    \cup {[start |-> start, steps |-> <<s, t>>] : start \in {"", "/", "//"},
        s \in {x \in WrittenSteps : x.sep = "/" /\ x.axis = "child"}, t \in WrittenSteps}

(* A path selects the nodes it means, each once, in document order: whatever   *)
(* the order its steps come to them in (evalNodeSetPredicate,                  *)
(* NodeSet::insertNodeInDocumentOrder), and when "//" is made a step to        *)
(* descendants (XPathParser::tokenToStep).                                     *)
PathsSelect ==
    /\ \A node \in Nodes, p \in Paths : Eval(node, p) = InOrder(PathMeans({node}, p))
    /\ \A p \in Patterns :
           \A node \in IF p.start = "" THEN Nodes ELSE {RootElement} :
               Eval(node, Compile(p)) = InOrder(PathMeans({node}, AsWritten(p)))

(* The patterns "//x[n]" do not match a child of the root: the step to every   *)
(* node inside is not matched by the root.                                     *)
FromTheRoot(p) == p.start = "//" /\ HasPosition(p.steps[1])

(* A pattern matches the nodes that it selects from one of their ancestors,    *)
(* and the code need not evaluate it to know (XPath::matches).                 *)
PatternsMatch ==
    \A p \in Patterns :
        ~FromTheRoot(p) => {node \in Nodes : Matches(node, Compile(p))} = PatternMeans(p)
================================================================================
