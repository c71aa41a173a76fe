------------------------------ MODULE MCLookup ------------------------------
(***************************************************************************)
(* An instance of Lookup for TLC, in two parts: either one operator moves  *)
(* between two endpoints and there is no record, or two operators announce *)
(* one endpoint and the record changes.                                    *)
(***************************************************************************)
EXTENDS Lookup, TLC

CONSTANTS op1, op2, id1, id2, e1, e2, e3, n1, a1, a2, pk1, pk2, b1, b2

VARIABLE moving

(* The contract refuses an endpoint of more bytes than 256.               *)
lengths == e1 :> 256 @@ e2 :> 256 @@ e3 :> 257
wallets == a1 :> pk1 @@ a2 :> pk2

unsigned(body, generation, owner) ==
    [body |-> body, generation |-> generation, owner |-> owner, pubKey |-> wallets[owner],
     ownerSig |-> NoSignature, commitment |-> NoCommitment]

signed(r, by) == [r EXCEPT !.ownerSig = SignRecord(n1, r, by)]

committed(r, to) == [r EXCEPT !.commitment = RecordMessage(n1, to)]

first == signed(unsigned(b1, 1, a1), a1)
second == signed(unsigned(b2, 1, a1), a1)

(* Two good records, one of them with a commitment; a commitment to        *)
(* another record; a record copied by the next owner with its signature.   *)
results ==
    {committed(first, first), second, committed(second, first),
     [first EXCEPT !.generation = 2, !.owner = a2, !.pubKey = pk2]}

proofs == {NoProof, [of |-> RecordMessage(n1, first)], [of |-> RecordMessage(n1, second)]}

alike == Permutations({id1, id2}) \cup Permutations({op1, op2})

MCInit == moving \in BOOLEAN /\ Init

MCNext ==
    /\ UNCHANGED moving
    /\ Next
    /\ IF moving
         THEN UNCHANGED onchain /\ Len(operators') <= 1 /\ serving'[e3] = ZeroKey
         ELSE serving'[e2] = ZeroKey /\ \A op \in Operators : resolvers'[op].endpoint # e2

MCSpec == MCInit /\ [][MCNext]_<<vars, moving>>
=============================================================================
