---------------------------------- MODULE XmlNodes ----------------------------------
(******************************************************************************)
(* The nodes of the documents of XmlDocument, without their links.            *)
(******************************************************************************)

Xmlns == "xmlns"
Nothing == ""

(* A node: for an element, its namespace, its name, its attributes             *)
(* [ns, name, value] and the namespaces it declares [prefix, ns]; for the      *)
(* others, their text, and whether it is to be written as CDATA.               *)
Element(ns, aliases, attributes) ==
    [kind |-> "element", ns |-> ns, name |-> <<"a">>, aliases |-> aliases,
     attributes |-> attributes, text |-> <<>>, cdata |-> FALSE]
Leaf(kind, text, cdata) ==
    [kind |-> kind, ns |-> Nothing, name |-> <<"a">>, aliases |-> <<>>, attributes |-> <<>>,
     text |-> text, cdata |-> cdata]
====================================================================================
