--------------------------- MODULE MCNamespaceDApp ---------------------------
(***************************************************************************)
(* Instances of NamespaceDApp for TLC.                                     *)
(***************************************************************************)
EXTENDS NamespaceDApp, TLC

CONSTANTS a1, a2, n1, pk1

MCTypes == BuiltInTypes \cup {"GEO", "bad type"}
MCValidTypes == MCTypes \ {"bad type"}
MCFields == BuiltInFields \cup {"lat", "lon"}
MCFieldLists == {<<>>, <<"lat">>, <<"lon">>}
OneFieldList == {<<>>}

shape(len, chars, hyphen) == [length |-> len, charsOK |-> chars, edgeHyphen |-> hyphen]
FiveLetters == n1 :> shape(5, TRUE, FALSE)
FourLetters == n1 :> shape(4, TRUE, FALSE)
KeyLength == pk1 :> 65

input(t, sel, names, values, ttl) ==
    [recordType |-> t, selector |-> sel, fieldNames |-> names,
     fieldValues |-> values, ttl |-> ttl, oversize |-> FALSE]

(* Three keys of a built-in type, one of them with two bodies.             *)
ThreeKeyInputs ==
    {input("A", "", <<"address">>, <<"v1">>, 1),
     input("A", "", <<"address">>, <<"v2">>, 1),
     input("A", "port=1", <<"address">>, <<"v1">>, 1),
     input("A", "port=2", <<"address">>, <<"v1">>, 1)}

(* A type that is declared on the way, and arguments that are refused:     *)
(* a mandatory field missing, unequal lists, no TTL, a string too long.    *)
SchemaInputs ==
    {input("GEO", "", <<"lat">>, <<"v1">>, 1),
     input("A", "", <<"lat">>, <<"v1">>, 1),
     input("A", "", <<"address">>, <<>>, 1),
     input("A", "", <<"address">>, <<"v1">>, 0),
     [input("A", "", <<"address">>, <<"v1">>, 1) EXCEPT !.oversize = TRUE]}
=============================================================================
