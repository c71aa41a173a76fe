-------------------------- MODULE RecordCommitment --------------------------
(***************************************************************************)
(* Record commitments and their proofs (resolver/internal/zk): a message   *)
(* of bytes is packed into field elements, their MiMC hash is stored with  *)
(* the record, and a proof that the resolver sends along is checked by     *)
(* ddns-lookup.  MiMC is free of collisions and a Groth16 proof convinces  *)
(* for the public input it was made for, and no other.                     *)
(***************************************************************************)
EXTENDS Naturals, Sequences

CONSTANTS
    Radix,          \* how many values a byte has
    ChunkSize, MaxChunks,
    fieldSize       \* the order of the scalar field

VARIABLE messages   \* two messages, as far as they are written

MaxPayload == ChunkSize * MaxChunks

ErrPayloadTooLarge == <<"record payload exceeds ZK commitment capacity">>
zero == <<0>>

Bytes == 0..(Radix - 1)

(* big.Int.SetBytes: leading zeroes leave no trace.                        *)
SetBytes(bytes) ==
    LET value[n \in 0..Len(bytes)] == IF n = 0 THEN 0 ELSE value[n - 1] * Radix + bytes[n]
    IN  value[Len(bytes)]

(* A chunk is a field element, whatever its bytes, and so is a length.     *)
ASSUME CommitmentAssumption ==
    /\ Radix \in Nat \ {0} /\ ChunkSize \in Nat /\ MaxChunks \in Nat /\ fieldSize \in Nat
    /\ SetBytes([n \in 1..ChunkSize |-> Radix - 1]) < fieldSize
    /\ MaxPayload < fieldSize

CommitInit == messages = << << >>, << >> >>

WriteByte(m, b) ==
    /\ Len(messages[m]) <= MaxPayload
    /\ messages' = [messages EXCEPT ![m] = Append(@, b)]

CommitNext == \E m \in 1..2, b \in Bytes : WriteByte(m, b)

CommitSpec == CommitInit /\ [][CommitNext]_messages

-----------------------------------------------------------------------------
chunk(msg, j) ==
    LET hi == j * ChunkSize
    IN  SubSeq(msg, hi - ChunkSize + 1, IF hi < Len(msg) THEN hi ELSE Len(msg))

(* Faulty variant: the length is not packed.                               *)
packChunks(msg) == <<0>> \o [j \in 1..MaxChunks |-> SetBytes(chunk(msg, j))]

(* [len, chunk...], the last chunks empty.                                 *)
PackMessage(msg) == <<Len(msg)>> \o [j \in 1..MaxChunks |-> SetBytes(chunk(msg, j))]

MiMC(elements) == <<"mimc", elements>>

Commitment(msg) ==
    IF Len(msg) > MaxPayload THEN ErrPayloadTooLarge
    ELSE MiMC([j \in 1..(MaxChunks + 1) |-> PackMessage(msg)[j] % fieldSize])

(* What record-commit prints: zero stands for no commitment.               *)
recordCommit(msg) == IF Len(msg) > MaxPayload THEN zero ELSE Commitment(msg)

-----------------------------------------------------------------------------
(* The witness of a message, and what the circuit demands of one.          *)
assignment(msg) == [elements |-> PackMessage(msg), commitment |-> Commitment(msg)]

Define(w) == MiMC(w.elements) = w.commitment

(* A proof: eight coordinates, of a witness that satisfies the circuit.    *)
Coordinates == {"Ar.X", "Ar.Y", "Bs.X.A0", "Bs.X.A1", "Bs.Y.A0", "Bs.Y.A1", "Krs.X", "Krs.Y"}

Prove(msg) ==
    [c \in Coordinates |-> [of |-> c, public |-> assignment(msg).commitment]]

Provable(msg) == Len(msg) <= MaxPayload /\ Define(assignment(msg))

(* MarshalSolidity's order of words, and the one they are read in.         *)
SolidityCalldata(proof) ==
    <<proof["Ar.X"], proof["Ar.Y"], proof["Bs.X.A1"], proof["Bs.X.A0"],
      proof["Bs.Y.A1"], proof["Bs.Y.A0"], proof["Krs.X"], proof["Krs.Y"]>>

ProofFromSolidityCalldata(data) ==
    [c \in Coordinates |->
        data[CASE c = "Ar.X" -> 1 [] c = "Ar.Y" -> 2
               [] c = "Bs.X.A1" -> 3 [] c = "Bs.X.A0" -> 4
               [] c = "Bs.Y.A1" -> 5 [] c = "Bs.Y.A0" -> 6
               [] c = "Krs.X" -> 7 [] c = "Krs.Y" -> 8]]

Verify(proof, commitment) ==
    \A c \in DOMAIN proof : proof[c] = [of |-> c, public |-> commitment]

(* ddns-lookup, given a response's calldata and commitment.                *)
verifyZK(calldata, commitment) == Verify(ProofFromSolidityCalldata(calldata), commitment)

-----------------------------------------------------------------------------
(* Properties.                                                             *)

(* A proof speaks for one message: what the resolver proves of a message   *)
(* passes at the client with the commitment of that message and with none  *)
(* of another, however alike they are: one may be the other with zero      *)
(* bytes put before or after a chunk, or be as long as fits.  Messages     *)
(* that fit can be proved; for the others there is no commitment at all.   *)
CommitmentBinds ==
    LET m == messages[1]
        o == messages[2]
    IN  /\ Provable(m) <=> recordCommit(m) # zero
        /\ Provable(m) /\ recordCommit(o) # zero =>
             (verifyZK(SolidityCalldata(Prove(m)), recordCommit(o)) <=> m = o)
=============================================================================
