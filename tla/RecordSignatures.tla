-------------------------- MODULE RecordSignatures --------------------------
(***************************************************************************)
(* What an owner signs and a resolver proves about a record                *)
(* (resolver/internal/pki/owner.go, proveRecord of                         *)
(* resolver/internal/server/handle.go).  A signature is who made it and    *)
(* over what; a commitment and a proof are what they are of.  Body is the  *)
(* type, selector, TTL and fields of a record.                             *)
(***************************************************************************)

CONSTANTS
    SigningKey,        \* account -> the public key of its wallet
    PlaceholderKeys,   \* public keys that stand for none: empty, zeros, 0x04 and zeros
    NoSignature, NoCommitment, NoProof,
    tooLong            \* bodies whose message does not fit the circuit

(* Faulty variant: the generation is not part of what is signed.           *)
RecordMessageUnbound(name, rec) == [name |-> name, body |-> rec.body, generation |-> 0]

(* The canonical message; the generation is part of it.                    *)
RecordMessage(name, rec) == [name |-> name, body |-> rec.body, generation |-> rec.generation]

SignRecord(name, rec, account) == [by |-> account, over |-> RecordMessage(name, rec)]

(* The key recovered from the signature is the domain's and its address    *)
(* the owner's.                                                            *)
VerifyOwnerSig(name, rec, owner, pubKey) ==
    /\ rec.ownerSig # NoSignature
    /\ rec.ownerSig.over = RecordMessage(name, rec)
    /\ pubKey \in PlaceholderKeys \/ SigningKey[rec.ownerSig.by] = pubKey
    /\ rec.ownerSig.by = owner

(* Faulty variant: a proof is made whatever the commitment on the chain.   *)
proveUnchecked(name, rec) ==
    IF rec.commitment = NoCommitment \/ rec.body \in tooLong THEN NoProof
    ELSE [of |-> RecordMessage(name, rec)]

(* No commitment, a payload too long, or a commitment to something else:   *)
(* no proof.                                                               *)
proveRecord(name, rec) ==
    IF \/ rec.commitment = NoCommitment
       \/ rec.body \in tooLong
       \/ rec.commitment # RecordMessage(name, rec)
      THEN NoProof
      ELSE [of |-> RecordMessage(name, rec)]

verifyZK(proof, rec) == proof # NoProof /\ proof.of = rec.commitment
=============================================================================
