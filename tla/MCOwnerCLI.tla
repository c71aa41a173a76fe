----------------------------- MODULE MCOwnerCLI -----------------------------
(***************************************************************************)
(* Instances of OwnerCLI for TLC.                                          *)
(***************************************************************************)
EXTENDS OwnerCLI, TLC

CONSTANTS a1, a2, n1, pk1, pk2, p1, p2

MCAccount == p1 :> a1 @@ p2 :> a2
MCSigningKey == a1 :> pk1 @@ a2 :> pk2
KeyLength == pk1 :> 65 @@ pk2 :> 65
FiveLetters == n1 :> [length |-> 5, charsOK |-> TRUE, edgeHyphen |-> FALSE]
OneFieldList == {<<>>}
MCTypes == BuiltInTypes \cup {"GEO"}

address(v) ==
    [recordType |-> "A", selector |-> "", fieldNames |-> <<"address">>,
     fieldValues |-> <<v>>, ttl |-> 1, oversize |-> FALSE]
OneAddress == {address("v1")}
TwoAddresses == {address("v1"), address("v2")}
=============================================================================
