------------------------------ MODULE UDPWire -------------------------------
(***************************************************************************)
(* The packets of the UDP front end (resolver/internal/server/udp.go): six *)
(* bytes of header, then fields of a type, a length in two bytes, and a    *)
(* value.  decodeUDPQuery is run step by step on every packet; packet is   *)
(* what follows the header, and a byte is a digit of base Base.            *)
(***************************************************************************)
EXTENDS Integers, Sequences

CONSTANTS
    Base,          \* 256
    FieldTypes,    \* name, type and selector
    MaxBytes       \* bound of the model: the length of packet

ASSUME WireAssumption ==
    Base \in Nat \ {0, 1} /\ FieldTypes \subseteq 0..(Base - 1) /\ MaxBytes \in Nat

VARIABLES
    header,        \* "good", "short", or what is wrong with it
    packet,
    i,             \* how much of packet is read
    fields,        \* type -> value, for the types met
    result         \* "none" yet, "ok" or the error

wireVars == <<header, packet, i, fields, result>>

Byte == 0..(Base - 1)
bytes(max) == UNION {[1..n -> Byte] : n \in 0..max}

-----------------------------------------------------------------------------
(* Encoding.                                                               *)

BigEndian(hi, lo) == hi * Base + lo

(* A value whose length two bytes cannot hold is left out.                 *)
encodeTLV(tlv) ==
    IF Len(tlv.val) >= Base * Base THEN << >>
    ELSE <<tlv.typ, Len(tlv.val) \div Base, Len(tlv.val) % Base>> \o tlv.val

encodeTLVs(tlvs) ==
    LET out[n \in 0..Len(tlvs)] == IF n = 0 THEN << >> ELSE out[n - 1] \o encodeTLV(tlvs[n])
    IN  out[Len(tlvs)]

-----------------------------------------------------------------------------
(* Decoding.                                                               *)

returns(why) == result' = why /\ UNCHANGED <<header, packet, i, fields>>

CheckHeader ==
    /\ result = "none" /\ i = 0
    /\ header # "good"
    /\ returns(header)

remaining == Len(packet) - i

decoding == result = "none" /\ header = "good"

Finish ==
    /\ decoding
    /\ i = Len(packet)
    /\ returns("ok")

TruncatedHeader ==
    /\ decoding
    /\ i < Len(packet) /\ remaining < 3
    /\ returns("truncated TLV header")

typ == packet[i + 1]
length == BigEndian(packet[i + 2], packet[i + 3])

truncated == length > remaining - 3

TruncatedValue ==
    /\ decoding
    /\ remaining >= 3
    /\ truncated
    /\ returns("truncated TLV value")

(* Faulty variant: a field that comes again is overwritten.                *)
againNever == FALSE

again == typ \in FieldTypes /\ typ \in DOMAIN fields

Duplicate ==
    /\ decoding
    /\ remaining >= 3
    /\ ~truncated
    /\ again
    /\ returns("duplicate TLV")

past == i + 3 + length

(* A type that is not known is passed over.                                *)
ReadTLV ==
    /\ decoding
    /\ remaining >= 3
    /\ ~truncated
    /\ ~again
    /\ fields' = IF typ \notin FieldTypes THEN fields
                 ELSE [t \in DOMAIN fields \cup {typ} |->
                         IF t = typ THEN SubSeq(packet, i + 4, i + 3 + length) ELSE fields[t]]
    /\ i' = past
    /\ UNCHANGED <<header, packet, result>>

WireInit ==
    /\ header \in {"good", "packet too short", "bad magic", "unsupported version",
                   "unsupported flags"}
    /\ packet \in bytes(MaxBytes)
    /\ header = "packet too short" => packet = << >>
    /\ i = 0
    /\ fields = << >>
    /\ result = "none"

WireNext ==
    CheckHeader \/ Finish \/ TruncatedHeader \/ TruncatedValue \/ Duplicate \/ ReadTLV

WireSpec == WireInit /\ [][WireNext]_wireVars

-----------------------------------------------------------------------------
(* Properties.                                                             *)

(* The lists of n TLVs that a packet can hold.                             *)
TLVs(n) ==
    {t \in [typ : Byte, val : bytes(MaxBytes - 3 * n)] : Len(t.val) < Base * Base}
TLVLists == UNION {[1..n -> TLVs(n)] : n \in 0..(MaxBytes \div 3)}

fieldsOnce(l) ==
    \A m, n \in DOMAIN l : l[m].typ = l[n].typ /\ l[m].typ \in FieldTypes => m = n

(* Decoding undoes encoding: a packet is accepted exactly if some list of  *)
(* TLVs in which no field comes twice is encoded as it, and then the       *)
(* fields are those of that list.  No packet is read past its end.         *)
DecodeExact ==
    /\ i <= Len(packet)
    /\ header = "good" /\ result # "none" =>
        LET good == {l \in TLVLists : encodeTLVs(l) = packet /\ fieldsOnce(l)}
        IN  /\ result = "ok" <=> good # {}
            /\ result = "ok" => \A l \in good :
                 /\ DOMAIN fields = {l[n].typ : n \in DOMAIN l} \cap FieldTypes
                 /\ \A n \in DOMAIN l : l[n].typ \in FieldTypes => fields[l[n].typ] = l[n].val
=============================================================================
