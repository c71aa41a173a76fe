---------------------------- MODULE NamespaceDApp ----------------------------
(***************************************************************************)
(* contracts/contracts/NamespaceDApp.sol with the schema registry it       *)
(* consults.  One action per external function, with what it requires in   *)
(* an operator of its own; every call is one atomic step, a call that      *)
(* reverts is not a step.  Refunds and withdrawals call  *)
(* out only after every state change of their function, so what a callee   *)
(* does in such a call is the same as a later transaction.  keccak256 is   *)
(* injective: a name, a record key and a commitment stand for their hash.  *)
(***************************************************************************)
EXTENDS RecordSchemaRegistry, Integers, FiniteSets, Loops

CONSTANTS
    Names,
    NameShape,      \* name -> its length, and whether its characters and edges pass
    Accounts, ZeroAddress, treasurer,
    PubKeys, NoPubKey,
    PubKeyLength,   \* public key -> length in bytes
    Secrets,        \* the salts of commitments
    RecordInputs,   \* the arguments of setRecord, without the name
    NoBody,         \* the contents of a deleted record slot
    Payments,       \* the amounts sent along with register and renew
    basePrice,
    REGISTRATION_PERIOD, MIN_COMMITMENT_AGE, MAX_COMMITMENT_AGE,
    MAX_RECORD_FIELDS,
    MaxTime, MaxGeneration, MaxExpiry  \* bounds of the model

VARIABLES
    now,             \* block.timestamp
    domains,         \* _domains
    records,         \* _records: one slot per (name, key), whatever the generation
    recordKeys,      \* _recordKeys: name -> generation -> list of keys
    recordKeyIndex,  \* _recordKeyIndex: the position (from 1) in that list, or 0
    commitments,     \* commitment -> time it was made at, or 0
    balance,         \* address(this).balance
    author,          \* history: who wrote a record slot last
    collected,       \* history: the prices of all Registered and Renewed events
    withdrawn        \* history: the amounts of all Withdrawn events

storeVars == <<records, recordKeys, recordKeyIndex, author>>

moneyVars == <<balance, collected, withdrawn>>

vars == <<now, domains, storeVars, commitments, moneyVars, schemaVars>>

Generations == 0..MaxGeneration

(* recordKeyOf hashes the type and the selector.                           *)
recordKeyOf(in) == <<in.recordType, in.selector>>

Keys == {recordKeyOf(in) : in \in RecordInputs}

Owners == Accounts \cup {ZeroAddress}

Commitment == [name : Names, owner : Accounts, pubKey : PubKeys, secret : Secrets]

Domain == [owner : Owners, pubKey : PubKeys \cup {NoPubKey},
           expiry : Nat, generation : Generations]

Record == [exists : BOOLEAN, generation : Generations, body : RecordInputs \cup {NoBody}]

NoRecord == [exists |-> FALSE, generation |-> 0, body |-> NoBody]

ASSUME NamespaceAssumption ==
    /\ NameShape \in [Names -> [length : Nat, charsOK : BOOLEAN, edgeHyphen : BOOLEAN]]
    /\ ZeroAddress \notin Accounts
    /\ treasurer \in Accounts
    /\ PubKeyLength \in [PubKeys -> Nat]
    /\ NoBody \notin RecordInputs
    /\ RecordInputs \subseteq
         [recordType : Types, selector : STRING, fieldNames : Seq(Fields),
          fieldValues : Seq(STRING), ttl : Nat, oversize : BOOLEAN]
    /\ Payments \subseteq Nat
    /\ basePrice \in Nat
    /\ REGISTRATION_PERIOD \in Nat /\ MIN_COMMITMENT_AGE \in Nat
    /\ MAX_COMMITMENT_AGE \in Nat /\ MAX_RECORD_FIELDS \in Nat
    /\ MaxTime \in Nat /\ MaxGeneration \in Nat /\ MaxExpiry \in Nat

-----------------------------------------------------------------------------
(* Views.                                                                  *)

(* The yearly fee, by the length of the name; other lengths revert.        *)
priceOf(n) ==
    LET len == NameShape[n].length
    IN  basePrice * (IF len \in 1..4 THEN <<16, 8, 4, 2>>[len] ELSE 1)

validLength(n) == NameShape[n].length \in 1..63

validateName(n) ==
    validLength(n) /\ ~NameShape[n].edgeHyphen /\ NameShape[n].charsOK

validPubKey(p) == PubKeyLength[p] \in 1..128

(* Faulty variant: the last second of the paid time is already free.       *)
availableEarly(n) == domains[n].owner = ZeroAddress \/ now >= domains[n].expiry

available(n) == domains[n].owner = ZeroAddress \/ now > domains[n].expiry

ownerOf(n) == IF available(n) THEN ZeroAddress ELSE domains[n].owner

(* A record resolves only if the domain is active and its slot was written *)
(* in the domain's current generation.                                     *)
lookup(n, k) ==
    IF /\ ~available(n)
       /\ records[n][k].exists
       /\ records[n][k].generation = domains[n].generation
      THEN records[n][k] ELSE NoRecord

resolve(n, k) ==
    [record |-> lookup(n, k),
     owner  |-> ownerOf(n),
     pubKey |-> IF available(n) THEN NoPubKey ELSE domains[n].pubKey]

listRecords(n) ==
    LET g    == domains[n].generation
        keys == recordKeys[n][g]
        live == {k \in Keys : records[n][k].exists /\ records[n][k].generation = g}
        out  == Subsequence(keys, live)
    IN  IF available(n) THEN <<>>
        ELSE [i \in 1..Len(out) |-> records[n][out[i]]]

-----------------------------------------------------------------------------
(* Time and registration.                                                  *)

Init ==
    /\ now = 1
    /\ domains = [n \in Names |-> [owner |-> ZeroAddress, pubKey |-> NoPubKey,
                                   expiry |-> 0, generation |-> 0]]
    /\ records = [n \in Names |-> [k \in Keys |-> NoRecord]]
    /\ recordKeys = [n \in Names |-> [g \in Generations |-> <<>>]]
    /\ recordKeyIndex = [n \in Names |-> [g \in Generations |-> [k \in Keys |-> 0]]]
    /\ commitments = [c \in Commitment |-> 0]
    /\ balance = 0
    /\ author = [n \in Names |-> [k \in Keys |-> ZeroAddress]]
    /\ collected = 0
    /\ withdrawn = 0
    /\ SchemaInit

(* The timestamp of the next block.                                        *)
Tick ==
    /\ now < MaxTime
    /\ now' = now + 1
    /\ UNCHANGED <<domains, storeVars, commitments, moneyVars, schemaVars>>

makeCommitment(n, a, p, s) == [name |-> n, owner |-> a, pubKey |-> p, secret |-> s]

(* Anybody may commit anything, again too.                                 *)
commit(c) ==
    /\ commitments' = [commitments EXCEPT ![c] = now]
    /\ UNCHANGED <<now, domains, storeVars, moneyVars, schemaVars>>

(* The payment is kept up to the price; the excess is sent back.           *)
keepPrice(n, value) ==
    /\ LET refund == value - priceOf(n)
       IN  balance' = balance + value - refund
    /\ collected' = collected + priceOf(n)
    /\ UNCHANGED withdrawn

(* Faulty variant: a commitment may be revealed at once.                   *)
mayRevealYoung(c) ==
    /\ commitments[c] # 0
    /\ now <= commitments[c] + MAX_COMMITMENT_AGE

(* The checks of register on its commitment...                             *)
mayReveal(c) ==
    /\ commitments[c] # 0
    /\ now >= commitments[c] + MIN_COMMITMENT_AGE
    /\ now <= commitments[c] + MAX_COMMITMENT_AGE

(* Faulty variant: the commitment stays usable.                            *)
revealKeeping(c) == UNCHANGED commitments

(* ... which it deletes.                                                   *)
reveal(c) == commitments' = [commitments EXCEPT ![c] = 0]

mayRegister(a, n, p, s, value) ==
    /\ validateName(n)
    /\ validPubKey(p)
    /\ mayReveal(makeCommitment(n, a, p, s))
    /\ available(n)
    /\ value >= priceOf(n)

register(a, n, p, s, value) ==
    /\ mayRegister(a, n, p, s, value)
    /\ domains[n].generation < MaxGeneration
    /\ reveal(makeCommitment(n, a, p, s))
    /\ domains' = [domains EXCEPT ![n] =
                     [owner |-> a, pubKey |-> p,
                      expiry |-> now + REGISTRATION_PERIOD,
                      generation |-> domains[n].generation + 1]]
    /\ keepPrice(n, value)
    /\ UNCHANGED <<now, storeVars, schemaVars>>

(* Anybody may pay.                                                        *)
mayRenew(n, value) ==
    /\ ~available(n)
    /\ validLength(n)
    /\ value >= priceOf(n)

renew(n, value) ==
    /\ mayRenew(n, value)
    /\ domains[n].expiry + REGISTRATION_PERIOD <= MaxExpiry
    /\ domains' = [domains EXCEPT ![n].expiry = @ + REGISTRATION_PERIOD]
    /\ keepPrice(n, value)
    /\ UNCHANGED <<now, storeVars, commitments, schemaVars>>

mayTransfer(a, n, newOwner, newPubKey) ==
    /\ newOwner # ZeroAddress
    /\ validPubKey(newPubKey)
    /\ ~available(n)
    /\ a = domains[n].owner

(* Faulty variant: the generation is not bumped.                           *)
transferInPlace(a, n, newOwner, newPubKey) ==
    /\ mayTransfer(a, n, newOwner, newPubKey)
    /\ domains' = [domains EXCEPT ![n].owner = newOwner, ![n].pubKey = newPubKey]
    /\ UNCHANGED <<now, storeVars, commitments, moneyVars, schemaVars>>

transfer(a, n, newOwner, newPubKey) ==
    /\ mayTransfer(a, n, newOwner, newPubKey)
    /\ domains[n].generation < MaxGeneration
    /\ domains' = [domains EXCEPT ![n] =
                     [owner |-> newOwner, pubKey |-> newPubKey,
                      expiry |-> domains[n].expiry,
                      generation |-> domains[n].generation + 1]]
    /\ UNCHANGED <<now, storeVars, commitments, moneyVars, schemaVars>>

mayWithdraw(a, to) == a = treasurer /\ to # ZeroAddress

withdraw(a, to) ==
    /\ mayWithdraw(a, to)
    /\ balance' = 0
    /\ withdrawn' = withdrawn + balance
    /\ UNCHANGED <<now, domains, storeVars, commitments, collected, schemaVars>>

-----------------------------------------------------------------------------
(* The record store.                                                       *)

checkMandatoryFields(in) ==
    \A f \in mandatoryFields(in.recordType) :
        \E j \in DOMAIN in.fieldNames : in.fieldNames[j] = f

(* The checks on the shape of the arguments; oversize stands for any       *)
(* string above its MAX_*_LENGTH.                                          *)
wellShaped(in) ==
    /\ Len(in.fieldNames) = Len(in.fieldValues)
    /\ Len(in.fieldNames) <= MAX_RECORD_FIELDS
    /\ ~in.oversize
    /\ in.ttl # 0

(* Faulty variant: a slot left over from an earlier generation counts as   *)
(* listed.                                                                 *)
listKeyOfEmptySlot(n, g, k) ==
    IF ~records[n][k].exists
      THEN /\ recordKeys' = [recordKeys EXCEPT ![n][g] = Append(@, k)]
           /\ recordKeyIndex' = [recordKeyIndex EXCEPT
                                   ![n][g][k] = Len(recordKeys[n][g]) + 1]
      ELSE UNCHANGED <<recordKeys, recordKeyIndex>>

(* A key that the generation does not list yet is appended to its list.    *)
listKey(n, g, k) ==
    IF recordKeyIndex[n][g][k] = 0
      THEN /\ recordKeys' = [recordKeys EXCEPT ![n][g] = Append(@, k)]
           /\ recordKeyIndex' = [recordKeyIndex EXCEPT
                                   ![n][g][k] = Len(recordKeys[n][g]) + 1]
      ELSE UNCHANGED <<recordKeys, recordKeyIndex>>

maySetRecord(a, n, in) ==
    /\ ~available(n)
    /\ a = domains[n].owner
    /\ wellShaped(in)
    /\ typeExists(in.recordType)
    /\ checkMandatoryFields(in)

setRecord(a, n, in) ==
    LET g == domains[n].generation
        k == recordKeyOf(in)
    IN  /\ maySetRecord(a, n, in)
        /\ records' = [records EXCEPT ![n][k] =
                         [exists |-> TRUE, generation |-> g, body |-> in]]
        /\ author' = [author EXCEPT ![n][k] = a]
        /\ listKey(n, g, k)
        /\ UNCHANGED <<now, domains, commitments, moneyVars, schemaVars>>

(* The list without position i: the last key moves there, then one pop.    *)
swapPop(keys, i) ==
    [j \in 1..(Len(keys) - 1) |-> IF j = i THEN keys[Len(keys)] ELSE keys[j]]

(* Faulty variant: the moved key keeps its old position.                   *)
dropIndex(index, keys, i, k) == [index EXCEPT ![k] = 0]

(* The index after the same removal: the moved key, if any, is at i.       *)
swapIndex(index, keys, i, k) ==
    [j \in Keys |-> IF j = k THEN 0
                    ELSE IF i # Len(keys) /\ j = keys[Len(keys)] THEN i
                    ELSE index[j]]

mayRemoveRecord(a, n, k) ==
    LET g == domains[n].generation
    IN  /\ ~available(n)
        /\ a = domains[n].owner
        /\ records[n][k].exists
        /\ records[n][k].generation = g
        /\ recordKeyIndex[n][g][k] \in 1..Len(recordKeys[n][g])   \* else a panic

removeRecord(a, n, k) ==
    LET g    == domains[n].generation
        keys == recordKeys[n][g]
        i    == recordKeyIndex[n][g][k]
    IN  /\ mayRemoveRecord(a, n, k)
        /\ records' = [records EXCEPT ![n][k] = NoRecord]
        /\ author' = [author EXCEPT ![n][k] = ZeroAddress]
        /\ recordKeys' = [recordKeys EXCEPT ![n][g] = swapPop(keys, i)]
        /\ recordKeyIndex' = [recordKeyIndex EXCEPT
                                ![n][g] = swapIndex(recordKeyIndex[n][g], keys, i, k)]
        /\ UNCHANGED <<now, domains, commitments, moneyVars, schemaVars>>

declare(t, m, o) ==
    /\ declareType(t, m, o)
    /\ UNCHANGED <<now, domains, storeVars, commitments, moneyVars>>

Next ==
    \/ Tick
    \/ \E c \in Commitment : commit(c)
    \/ \E a \in Accounts, n \in Names, p \in PubKeys, s \in Secrets, v \in Payments :
         register(a, n, p, s, v)
    \/ \E n \in Names, v \in Payments : renew(n, v)
    \/ \E a \in Accounts, n \in Names, b \in Owners, p \in PubKeys : transfer(a, n, b, p)
    \/ \E a \in Accounts, to \in Owners : withdraw(a, to)
    \/ \E a \in Accounts, n \in Names, in \in RecordInputs : setRecord(a, n, in)
    \/ \E a \in Accounts, n \in Names, k \in Keys : removeRecord(a, n, k)
    \/ \E t \in Types, m, o \in FieldLists : declare(t, m, o)

Spec == Init /\ [][Next]_vars

-----------------------------------------------------------------------------
(* Properties.                                                             *)

(* The storage holds values of its types; the balance is never negative.   *)
TypeOK ==
    /\ now \in Nat
    /\ domains \in [Names -> Domain]
    /\ records \in [Names -> [Keys -> Record]]
    /\ recordKeys \in [Names -> [Generations -> Seq(Keys)]]
    /\ recordKeyIndex \in [Names -> [Generations -> [Keys -> Nat]]]
    /\ commitments \in [Commitment -> Nat]
    /\ balance \in Nat /\ collected \in Nat /\ withdrawn \in Nat
    /\ author \in [Names -> [Keys -> Owners]]
    /\ schemas \in [Types -> Schema]
    /\ typeNames \in Seq(Types)

(* Every key of the list has its position as index, every other key 0.     *)
isInverse(index, keys) ==
    /\ \A i \in 1..Len(keys) : index[keys[i]] = i
    /\ \A k \in Keys : index[k] # 0 =>
         index[k] \in 1..Len(keys) /\ keys[index[k]] = k

(* After any sequence of setRecord and removeRecord (whose swap-with-last  *)
(* moves keys about), in every generation, the index map is exactly the    *)
(* inverse of the key list: no key is listed twice, none has a stale       *)
(* position.                                                               *)
KeyListExact ==
    \A n \in Names, g \in Generations :
        isInverse(recordKeyIndex[n][g], recordKeys[n][g])

(* A slot holds a record of the domain's current generation exactly when   *)
(* that generation's key list has its key: enumeration misses no record    *)
(* and shows none twice, although slots are shared by all generations and  *)
(* lists are not.                                                          *)
LiveIffListed ==
    \A n \in Names, k \in Keys :
        (/\ records[n][k].exists
         /\ records[n][k].generation = domains[n].generation)
        <=> recordKeyIndex[n][domains[n].generation][k] # 0

(* What listRecords returns is, record by record, what lookup returns,     *)
(* after any removals, which move the last key into the hole.              *)
ListAgreesWithLookup ==
    \A n \in Names :
        LET listed == listRecords(n)
            found  == {k \in Keys : lookup(n, k).exists}
        IN  /\ Len(listed) = Cardinality(found)
            /\ \A k \in found : \E i \in DOMAIN listed : listed[i] = lookup(n, k)

(* A record that resolves was written by the present owner of the name:    *)
(* neither transfer nor re-registration after expiry lets an earlier       *)
(* owner's record show through.                                            *)
ResolvedByOwner ==
    \A n \in Names, k \in Keys :
        lookup(n, k).exists => author[n][k] = ownerOf(n)

(* A record that resolves has every field its type makes mandatory now,    *)
(* not only when it was written: the registry never changes a schema.      *)
ResolvedMeetsSchema ==
    \A n \in Names, k \in Keys :
        lookup(n, k).exists =>
            /\ typeExists(lookup(n, k).body.recordType)
            /\ checkMandatoryFields(lookup(n, k).body)

(* The contract holds exactly the prices charged and not yet withdrawn:    *)
(* refunds never touch fees, nor do fees keep an overpayment.              *)
FeesConserved == balance + withdrawn = collected

(* A name that is not active passes only to an account whose own           *)
(* commitment to it is old enough and not too old, and that commitment is  *)
(* used up.                                                                *)
TakenByAgedCommitment ==
    [][\A n \in Names :
         available(n) /\ domains'[n] # domains[n] =>
           \E s \in Secrets :
             LET c == makeCommitment(n, domains'[n].owner, domains'[n].pubKey, s)
             IN  /\ commitments[c] # 0 /\ commitments'[c] = 0
                 /\ now - commitments[c] \in MIN_COMMITMENT_AGE..MAX_COMMITMENT_AGE]_vars

(* The contract is the namespace its users rely on: generations hide       *)
(* exactly the records that predate the last change of hands.              *)
liveBody(n) ==
    [k \in Keys |->
        IF records[n][k].exists /\ records[n][k].generation = domains[n].generation
          THEN records[n][k].body ELSE NoBody]

NS == INSTANCE Namespace WITH
        Bodies    <- RecordInputs,
        NoOwner   <- ZeroAddress,
        Period    <- REGISTRATION_PERIOD,
        holder    <- [n \in Names |-> domains[n].owner],
        holderKey <- [n \in Names |-> domains[n].pubKey],
        paidUntil <- [n \in Names |-> domains[n].expiry],
        live      <- [n \in Names |-> liveBody(n)]

ImplementsNamespace == NS!NSSpec
=============================================================================
