------------------------- MODULE NamespaceDAppProofs -------------------------
(***************************************************************************)
(* What NamespaceDApp guarantees for every set of names, accounts and      *)
(* records, every price, age and period.                                   *)
(***************************************************************************)
EXTENDS NamespaceDApp, LoopTheorems, FiniteSetTheorems

(* Leaves are for Zenon unless they name another prover.                   *)
USE ZenonT(20)

(* The periods and the bound of generations are numbers.                   *)
LEMMA Bounds ==
    /\ MaxGeneration \in Nat /\ REGISTRATION_PERIOD \in Nat
    /\ 0 \in Generations /\ \A g \in Generations : g \in Nat
<1>1. MaxGeneration \in Nat /\ REGISTRATION_PERIOD \in Nat
  BY NamespaceAssumption
<1>. QED BY SMT, <1>1 DEF Generations

(* register and transfer count a domain's generations one by one.          *)
LEMMA NextGeneration ==
    ASSUME NEW g \in Generations, g < MaxGeneration
    PROVE  g + 1 \in Generations
BY SMT, Bounds DEF Generations

(* The least and the greatest age of a commitment are lengths of time.     *)
LEMMA AgesAreTimes == MIN_COMMITMENT_AGE \in Nat /\ MAX_COMMITMENT_AGE \in Nat
BY NamespaceAssumption

(* A registration ends a period after it starts.                           *)
LEMMA PeriodLater ==
    ASSUME NEW t \in Nat
    PROVE  t + REGISTRATION_PERIOD \in Nat
BY SMT, Bounds

(* priceOf charges a natural number whatever the length of the name.       *)
LEMMA PriceIsNat == ASSUME NEW n \in Names PROVE priceOf(n) \in Nat
<1>1. basePrice \in Nat
  BY NamespaceAssumption
<1>2. CASE NameShape[n].length \in 1..4
  <2>1. <<16, 8, 4, 2>>[NameShape[n].length] \in {16, 8, 4, 2}
    BY SMT, <1>2
  <2>. QED BY SMT, <1>1, <1>2, <2>1 DEF priceOf
<1>3. CASE NameShape[n].length \notin 1..4
  BY SMT, <1>1, <1>3 DEF priceOf
<1>. QED BY <1>2, <1>3

(* register and renew keep the price of the name, no more and no less, so  *)
(* the books stay balanced.                                                *)
LEMMA PriceKept ==
    ASSUME NEW n \in Names, NEW v \in Payments, keepPrice(n, v),
           balance \in Nat, collected \in Nat, withdrawn \in Nat
    PROVE  /\ balance' \in Nat /\ collected' \in Nat /\ withdrawn' \in Nat
           /\ balance' = balance + priceOf(n)
           /\ collected' = collected + priceOf(n)
           /\ withdrawn' = withdrawn
<1>1. v \in Nat /\ priceOf(n) \in Nat
  BY PriceIsNat, NamespaceAssumption
<1>. QED BY SMT, <1>1 DEF keepPrice

(* The position that swapPop frees is filled, so a list of keys stays a    *)
(* list of keys.                                                           *)
LEMMA SwapPopSeq ==
    ASSUME NEW keys \in Seq(Keys), NEW i \in 1..Len(keys)
    PROVE  /\ swapPop(keys, i) \in Seq(Keys)
           /\ Len(swapPop(keys, i)) = Len(keys) - 1
           /\ \A j \in 1..(Len(keys) - 1) :
                swapPop(keys, i)[j] = IF j = i THEN keys[Len(keys)] ELSE keys[j]
BY SMT DEF swapPop

(* A stored schema is a list of field specifications.                      *)
LEMMA SpecsAreSchema ==
    ASSUME NEW m \in Seq(Fields), NEW o \in Seq(Fields)
    PROVE  specsOf(m, o) \in Seq(FieldSpec)
<1>1. \A i \in 1..(Len(m) + Len(o)) :
        /\ i <= Len(m) => m[i] \in Fields
        /\ ~(i <= Len(m)) => o[i - Len(m)] \in Fields
  BY SMT
<1>2. \A i \in 1..(Len(m) + Len(o)) : specsOf(m, o)[i] \in FieldSpec
  BY SMT, <1>1 DEF specsOf, FieldSpec
<1>3. DOMAIN specsOf(m, o) = 1..(Len(m) + Len(o)) /\ Len(m) + Len(o) \in Nat
  BY SMT DEF specsOf
<1>. QED BY SMT, <1>2, <1>3 DEF specsOf

-----------------------------------------------------------------------------
(* Types.                                                                  *)

(* The built-in schemas the constructor declares are schemas.              *)
LEMMA InitialSchemas == SchemaInit => schemas \in [Types -> Schema] /\ typeNames \in Seq(Types)
<1>1. BuiltInTypes \subseteq Types /\ BuiltInFields \subseteq Fields
  BY SchemaAssumption
<1>2. \A t \in BuiltInTypes :
        BuiltInMandatory[t] \in Seq(Fields) /\ BuiltInOptional[t] \in Seq(Fields)
  <2>. DEFINE Good(t) == BuiltInMandatory[t] \in Seq(Fields) /\ BuiltInOptional[t] \in Seq(Fields)
  <2>. USE <1>1 DEF BuiltInFields, BuiltInMandatory, BuiltInOptional
  <2>1. Good("A")
    BY SMT
  <2>2. Good("AAAA")
    BY SMT
  <2>3. Good("MX")
    BY SMT
  <2>4. Good("SVC")
    BY SMT
  <2>5. Good("ResourceRef")
    BY SMT
  <2>. HIDE DEF Good
  <2>6. \A t \in BuiltInTypes : Good(t)
    BY <2>1, <2>2, <2>3, <2>4, <2>5 DEF BuiltInTypes
  <2>. QED BY <2>6 DEF Good
<1>3. \A t \in BuiltInTypes :
        specsOf(BuiltInMandatory[t], BuiltInOptional[t]) \in Seq(FieldSpec)
  BY <1>2, SpecsAreSchema
<1>4. BuiltInOrder \in Seq(Types)
  BY SMT, <1>1 DEF BuiltInOrder, BuiltInTypes
<1>. QED BY SMT, <1>3, <1>4 DEF SchemaInit, Schema, NoSchema

(* The contract is deployed in a state of its types.                       *)
LEMMA TypeInit == Init => TypeOK
<1>. SUFFICES ASSUME Init PROVE TypeOK
  OBVIOUS
<1>1. schemas \in [Types -> Schema] /\ typeNames \in Seq(Types)
  BY InitialSchemas DEF Init
<1>2. 0 \in Generations
  BY Bounds
<1>3. NoRecord \in Record
  BY <1>2 DEF NoRecord, Record
<1>4. domains \in [Names -> Domain]
  BY <1>2 DEF Init, Domain, Owners
<1>. QED BY SMT, <1>1, <1>3, <1>4 DEF Init, TypeOK, Owners

(* Every transaction leaves a state of its types.                          *)
LEMMA TypeStep == TypeOK /\ [Next]_vars => TypeOK'
<1>. SUFFICES ASSUME TypeOK, [Next]_vars PROVE TypeOK'
  OBVIOUS
<1>. USE DEF storeVars, moneyVars, schemaVars
<1>1. CASE Tick
  BY SMT, <1>1 DEF TypeOK, Tick
<1>2. ASSUME NEW c \in Commitment, commit(c) PROVE TypeOK'
  BY <1>2 DEF TypeOK, commit
<1>3. ASSUME NEW a \in Accounts, NEW n \in Names, NEW p \in PubKeys, NEW s \in Secrets,
             NEW v \in Payments, register(a, n, p, s, v)
      PROVE  TypeOK'
  <2>1. balance' \in Nat /\ collected' \in Nat /\ withdrawn' \in Nat
    BY <1>3, PriceKept DEF register, TypeOK
  <2>2. domains[n].generation + 1 \in Generations /\ now + REGISTRATION_PERIOD \in Nat
    <3>1. /\ domains[n].generation \in Generations /\ domains[n].generation < MaxGeneration
          /\ now \in Nat
      BY <1>3 DEF register, TypeOK, Domain
    <3>. QED BY <3>1, NextGeneration, PeriodLater
  <2>3. domains' \in [Names -> Domain]
    BY <1>3, <2>2 DEF register, TypeOK, Domain, Owners
  <2>4. commitments' \in [Commitment -> Nat]
    BY <1>3 DEF register, reveal, TypeOK
  <2>. QED BY <1>3, <2>1, <2>3, <2>4 DEF register, TypeOK
<1>4. ASSUME NEW n \in Names, NEW v \in Payments, renew(n, v) PROVE TypeOK'
  <2>1. balance' \in Nat /\ collected' \in Nat /\ withdrawn' \in Nat
    BY <1>4, PriceKept DEF renew, TypeOK
  <2>2. domains' \in [Names -> Domain]
    <3>0. domains[n] \in Domain /\ domains[n].expiry \in Nat
      BY DEF TypeOK, Domain
    <3>1. domains[n] \in Domain /\ domains[n].expiry + REGISTRATION_PERIOD \in Nat
      BY <3>0, PeriodLater
    <3>2. [domains[n] EXCEPT !.expiry = domains[n].expiry + REGISTRATION_PERIOD] \in Domain
      BY <3>1 DEF Domain
    <3>3. domains' = [domains EXCEPT ![n] =
             [domains[n] EXCEPT !.expiry = domains[n].expiry + REGISTRATION_PERIOD]]
      BY <1>4 DEF renew
    <3>. QED BY <3>2, <3>3 DEF TypeOK
  <2>. QED BY <1>4, <2>1, <2>2 DEF renew, TypeOK
<1>5. ASSUME NEW a \in Accounts, NEW n \in Names, NEW b \in Owners, NEW p \in PubKeys,
             transfer(a, n, b, p)
      PROVE  TypeOK'
  <2>0. domains[n].generation \in Generations /\ domains[n].generation < MaxGeneration
    BY <1>5 DEF transfer, TypeOK, Domain
  <2>1. domains[n].generation + 1 \in Generations
    BY <2>0, NextGeneration
  <2>2. domains' \in [Names -> Domain]
    BY <1>5, <2>1 DEF transfer, TypeOK, Domain
  <2>. QED BY <1>5, <2>2 DEF transfer, TypeOK
<1>6. ASSUME NEW a \in Accounts, NEW to \in Owners, withdraw(a, to) PROVE TypeOK'
  BY SMT, <1>6 DEF TypeOK, withdraw
<1>7. ASSUME NEW a \in Accounts, NEW n \in Names, NEW in \in RecordInputs,
             setRecord(a, n, in)
      PROVE  TypeOK'
  <2>. DEFINE g == domains[n].generation
              k == recordKeyOf(in)
  <2>1. k \in Keys /\ g \in Generations
    BY DEF Keys, TypeOK, Domain
  <2>2. records' \in [Names -> [Keys -> Record]]
    <3>1. [exists |-> TRUE, generation |-> g, body |-> in] \in Record
      BY <2>1 DEF Record
    <3>. QED BY <1>7, <2>1, <3>1 DEF setRecord, TypeOK
  <2>3. author' \in [Names -> [Keys -> Owners]]
    BY <1>7, <2>1 DEF setRecord, TypeOK, Owners
  <2>4. listKey(n, g, k)
    BY <1>7 DEF setRecord
  <2>5. recordKeys[n][g] \in Seq(Keys) /\ Len(recordKeys[n][g]) + 1 \in Nat
    BY SMT, <2>1 DEF TypeOK
  <2>6. recordKeys' \in [Names -> [Generations -> Seq(Keys)]]
    <3>1. Append(recordKeys[n][g], k) \in Seq(Keys)
      BY SMT, <2>1, <2>5
    <3>2. CASE recordKeyIndex[n][g][k] = 0
      <4>1. recordKeys' = [recordKeys EXCEPT ![n][g] = Append(recordKeys[n][g], k)]
        BY <2>4, <3>2 DEF listKey
      <4>. QED BY <2>1, <3>1, <4>1 DEF TypeOK
    <3>3. CASE recordKeyIndex[n][g][k] # 0
      BY <2>4, <3>3 DEF listKey, TypeOK
    <3>. QED BY <3>2, <3>3
  <2>7. recordKeyIndex' \in [Names -> [Generations -> [Keys -> Nat]]]
    <3>1. CASE recordKeyIndex[n][g][k] = 0
      <4>1. recordKeyIndex' = [recordKeyIndex EXCEPT
                                 ![n][g][k] = Len(recordKeys[n][g]) + 1]
        BY <2>4, <3>1 DEF listKey
      <4>. QED BY <2>1, <2>5, <4>1 DEF TypeOK
    <3>2. CASE recordKeyIndex[n][g][k] # 0
      BY <2>4, <3>2 DEF listKey, TypeOK
    <3>. QED BY <3>1, <3>2
  <2>. QED BY <1>7, <2>2, <2>3, <2>6, <2>7 DEF setRecord, TypeOK
<1>8. ASSUME NEW a \in Accounts, NEW n \in Names, NEW k \in Keys, removeRecord(a, n, k)
      PROVE  TypeOK'
  <2>. DEFINE g    == domains[n].generation
              keys == recordKeys[n][g]
              i    == recordKeyIndex[n][g][k]
  <2>1. g \in Generations /\ keys \in Seq(Keys) /\ i \in 1..Len(keys)
    BY SMT, <1>8 DEF removeRecord, mayRemoveRecord, TypeOK, Domain
  <2>2. records' \in [Names -> [Keys -> Record]]
    <3>1. NoRecord \in Record
      BY Bounds DEF NoRecord, Record
    <3>. QED BY <1>8, <3>1 DEF removeRecord, TypeOK
  <2>3. author' \in [Names -> [Keys -> Owners]]
    BY <1>8 DEF removeRecord, TypeOK, Owners
  <2>4. recordKeys' \in [Names -> [Generations -> Seq(Keys)]]
    <3>1. swapPop(keys, i) \in Seq(Keys)
      BY <2>1, SwapPopSeq
    <3>. QED BY <1>8, <2>1, <3>1 DEF removeRecord, TypeOK
  <2>5. recordKeyIndex' \in [Names -> [Generations -> [Keys -> Nat]]]
    <3>1. swapIndex(recordKeyIndex[n][g], keys, i, k) \in [Keys -> Nat]
      BY SMT, <2>1 DEF swapIndex, TypeOK
    <3>. QED BY <1>8, <2>1, <3>1 DEF removeRecord, TypeOK
  <2>. QED BY <1>8, <2>2, <2>3, <2>4, <2>5 DEF removeRecord, TypeOK
<1>9. ASSUME NEW t \in Types, NEW m \in FieldLists, NEW o \in FieldLists, declare(t, m, o)
      PROVE  TypeOK'
  <2>1. specsOf(m, o) \in Seq(FieldSpec)
    BY SchemaAssumption, SpecsAreSchema
  <2>2. schemas' \in [Types -> Schema] /\ typeNames' \in Seq(Types)
    BY SMT, <1>9, <2>1 DEF declare, declareType, TypeOK, Schema
  <2>. QED BY <1>9, <2>2 DEF declare, TypeOK
<1>10. CASE UNCHANGED vars
  BY <1>10 DEF TypeOK, vars
<1>. QED
  BY <1>1, <1>2, <1>3, <1>4, <1>5, <1>6, <1>7, <1>8, <1>9, <1>10 DEF Next

(* The contract's storage always has its types, and its balance is never   *)
(* negative: withdraw pays out no more than there is.                      *)
THEOREM TypeCorrect == Spec => []TypeOK
BY TypeInit, TypeStep, PTL DEF Spec

(* The contract holds exactly the prices charged and not yet withdrawn.    *)
THEOREM FeesAreConserved == Spec => []FeesConserved
<1>1. Init => FeesConserved
  BY SMT DEF Init, FeesConserved
<1>2. TypeOK /\ FeesConserved /\ [Next]_vars => FeesConserved'
  <2>. SUFFICES ASSUME TypeOK, FeesConserved, [Next]_vars PROVE FeesConserved'
    OBVIOUS
  <2>. USE DEF moneyVars
  <2>1. ASSUME NEW n \in Names, NEW v \in Payments, keepPrice(n, v) PROVE FeesConserved'
    BY SMT, <2>1, PriceKept, PriceIsNat DEF TypeOK, FeesConserved
  <2>2. ASSUME NEW a \in Accounts, NEW to \in Owners, withdraw(a, to) PROVE FeesConserved'
    BY SMT, <2>2 DEF withdraw, TypeOK, FeesConserved
  <2>3. CASE UNCHANGED moneyVars
    BY <2>3 DEF FeesConserved
  <2>. QED
    BY <2>1, <2>2, <2>3
    DEF Next, Tick, commit, register, renew, transfer, setRecord, removeRecord, declare, vars
<1>. QED BY <1>1, <1>2, TypeCorrect, PTL DEF Spec

-----------------------------------------------------------------------------
(* The record store.                                                       *)

(* No record and no position belongs to a generation still to come.        *)
NothingAhead ==
    \A n \in Names, k \in Keys :
        /\ records[n][k].exists => records[n][k].generation <= domains[n].generation
        /\ \A g \in Generations :
             g > domains[n].generation => recordKeyIndex[n][g][k] = 0

(* The records of the current generation were written by the owner.        *)
WrittenByOwner ==
    \A n \in Names, k \in Keys :
        records[n][k].exists /\ records[n][k].generation = domains[n].generation
            => author[n][k] = domains[n].owner

StoreInv == KeyListExact /\ LiveIffListed /\ NothingAhead /\ WrittenByOwner

(* setRecord's push keeps the index the inverse of the list.               *)
LEMMA AppendInverse ==
    ASSUME NEW keys \in Seq(Keys), NEW index \in [Keys -> Nat], NEW k \in Keys,
           isInverse(index, keys), index[k] = 0
    PROVE  isInverse([index EXCEPT ![k] = Len(keys) + 1], Append(keys, k))
<1>. DEFINE longer == Append(keys, k)
            index2 == [index EXCEPT ![k] = Len(keys) + 1]
<1>1. /\ Len(longer) = Len(keys) + 1 /\ Len(keys) \in Nat
      /\ \A i \in 1..Len(keys) : longer[i] = keys[i] /\ keys[i] \in Keys
      /\ longer[Len(keys) + 1] = k
  BY SMT
<1>2. \A i \in 1..Len(keys) : keys[i] # k
  BY SMT DEF isInverse
<1>3. ASSUME NEW i \in 1..Len(longer) PROVE index2[longer[i]] = i
  BY SMT, <1>1, <1>2 DEF isInverse
<1>4. ASSUME NEW j \in Keys, index2[j] # 0
      PROVE  index2[j] \in 1..Len(longer) /\ longer[index2[j]] = j
  BY SMT, <1>1, <1>4 DEF isInverse
<1>. HIDE DEF longer, index2
<1>5. isInverse(index2, longer)
  BY <1>3, <1>4 DEF isInverse
<1>. QED BY <1>5 DEF longer, index2

(* removeRecord's swap with the last key and pop keep it so.               *)
LEMMA SwapPopInverse ==
    ASSUME NEW keys \in Seq(Keys), NEW index \in [Keys -> Nat], NEW k \in Keys,
           isInverse(index, keys), index[k] # 0
    PROVE  isInverse(swapIndex(index, keys, index[k], k), swapPop(keys, index[k]))
<1>. DEFINE i       == index[k]
            last    == keys[Len(keys)]
            shorter == swapPop(keys, i)
            index2  == swapIndex(index, keys, i, k)
<1>1. i \in 1..Len(keys) /\ keys[i] = k /\ Len(keys) \in Nat /\ last \in Keys
  BY SMT DEF isInverse
<1>2. /\ Len(shorter) = Len(keys) - 1
      /\ \A j \in 1..(Len(keys) - 1) : shorter[j] = IF j = i THEN last ELSE keys[j]
  BY <1>1, SwapPopSeq
<1>3. \A j \in Keys : index2[j] = IF j = k THEN 0
                                  ELSE IF i # Len(keys) /\ j = last THEN i ELSE index[j]
  BY DEF swapIndex
<1>4. index[last] = Len(keys)
  BY SMT, <1>1 DEF isInverse
<1>. HIDE DEF i, last, shorter, index2
<1>5. ASSUME NEW j \in 1..Len(shorter) PROVE index2[shorter[j]] = j
  <2>1. j \in 1..Len(keys) /\ j # Len(keys) /\ keys[j] \in Keys /\ index[keys[j]] = j
    BY SMT, <1>1, <1>2 DEF isInverse
  <2>2. CASE j = i
    <3>1. last # k
      BY <1>1, <1>4, <2>1, <2>2 DEF i
    <3>. QED BY <1>1, <1>2, <1>3, <2>1, <2>2, <3>1
  <2>3. CASE j # i
    <3>1. keys[j] # k /\ keys[j] # last
      BY <1>1, <1>4, <2>1, <2>3 DEF i
    <3>. QED BY <1>2, <1>3, <2>1, <2>3, <3>1
  <2>. QED BY <2>2, <2>3
<1>6. ASSUME NEW j \in Keys, index2[j] # 0
      PROVE  index2[j] \in 1..Len(shorter) /\ shorter[index2[j]] = j
  <2>1. CASE i # Len(keys) /\ j = last
    BY SMT, <1>1, <1>2, <1>3, <1>6, <2>1
  <2>2. CASE ~(i # Len(keys) /\ j = last)
    <3>1. j # k /\ index2[j] = index[j]
      BY <1>3, <1>6, <2>2
    <3>2. index[j] \in 1..Len(keys) /\ keys[index[j]] = j
      BY <1>6, <3>1 DEF isInverse
    <3>3. index[j] # i /\ index[j] # Len(keys)
      BY <1>1, <2>2, <3>1, <3>2 DEF last
    <3>4. index[j] \in 1..(Len(keys) - 1)
      BY SMT, <1>1, <3>2, <3>3
    <3>5. shorter[index[j]] = keys[index[j]]
      BY <1>2, <3>3, <3>4
    <3>. QED BY <1>2, <3>1, <3>2, <3>4, <3>5
  <2>. QED BY <2>1, <2>2
<1>7. isInverse(index2, shorter)
  BY <1>5, <1>6 DEF isInverse
<1>. QED BY <1>7 DEF i, shorter, index2

(* A fresh contract has no records.                                        *)
LEMMA StoreInit == Init => StoreInv
<1>. SUFFICES ASSUME Init PROVE StoreInv
  OBVIOUS
<1>1. KeyListExact
  BY SMT DEF Init, KeyListExact, isInverse
<1>2. LiveIffListed /\ NothingAhead /\ WrittenByOwner
  BY SMT, Bounds
  DEF Init, LiveIffListed, NothingAhead, WrittenByOwner, NoRecord, Generations
<1>. QED BY <1>1, <1>2 DEF StoreInv

(* A change of hands (register, transfer) starts a new generation, in      *)
(* which nothing is live and nothing is listed.                            *)
LEMMA StoreNewGeneration ==
    ASSUME TypeOK, StoreInv, NEW n \in Names, NEW d \in Domain,
           d.generation = domains[n].generation + 1,
           domains' = [domains EXCEPT ![n] = d], UNCHANGED storeVars
    PROVE  StoreInv'
<1>0. records' = records /\ recordKeys' = recordKeys /\ recordKeyIndex' = recordKeyIndex
      /\ author' = author
  BY DEF storeVars
<1>1. KeyListExact'
  <2>1. KeyListExact
    BY DEF StoreInv
  <2>. QED BY SMT, <1>0, <2>1 DEF KeyListExact, isInverse
<1>2. \A m \in Names : /\ domains[m].generation \in Generations
                        /\ domains'[m].generation \in Generations
                        /\ domains'[m] = IF m = n THEN d ELSE domains[m]
  BY DEF TypeOK, Domain
<1>3. \A m \in Names, k \in Keys : records[m][k].generation \in Generations
  BY SMT DEF TypeOK, Record
<1>4. \A g \in Generations : g \in Nat
  BY Bounds
<1>5. ASSUME NEW k \in Keys
      PROVE  /\ ~(records[n][k].exists /\ records[n][k].generation = d.generation)
             /\ recordKeyIndex[n][d.generation][k] = 0
             /\ records[n][k].exists => records[n][k].generation <= d.generation
             /\ \A g \in Generations :
                  g > d.generation => recordKeyIndex[n][g][k] = 0
  <2>1. /\ domains[n].generation \in Generations /\ domains[n].generation \in Nat
        /\ d.generation \in Generations /\ records[n][k].generation \in Nat
    BY <1>2, <1>3, <1>4 DEF Domain
  <2>2. /\ records[n][k].exists => records[n][k].generation <= domains[n].generation
        /\ \A g \in Generations :
             g > domains[n].generation => recordKeyIndex[n][g][k] = 0
    BY DEF StoreInv, NothingAhead
  <2>. QED BY SMT, <1>4, <2>1, <2>2
<1>9. \A m \in Names : m # n => domains'[m] = domains[m]
  BY <1>2
<1>10. domains'[n] = d
  BY <1>2
<1>6. LiveIffListed'
  <2>. SUFFICES ASSUME NEW m \in Names, NEW k \in Keys
                PROVE  (/\ records[m][k].exists
                        /\ records[m][k].generation = domains'[m].generation)
                       <=> recordKeyIndex[m][domains'[m].generation][k] # 0
    BY <1>0 DEF LiveIffListed
  <2>1. CASE m # n
    <3>1. domains'[m] = domains[m]
      BY <1>9, <2>1
    <3>2. (/\ records[m][k].exists
           /\ records[m][k].generation = domains[m].generation)
          <=> recordKeyIndex[m][domains[m].generation][k] # 0
      BY SMT DEF StoreInv, LiveIffListed
    <3>. QED BY <3>1, <3>2
  <2>2. CASE m = n
    BY <1>5, <1>10, <2>2
  <2>. QED BY <2>1, <2>2
<1>7. NothingAhead'
  <2>. SUFFICES ASSUME NEW m \in Names, NEW k \in Keys
                PROVE  /\ records[m][k].exists => records[m][k].generation <= domains'[m].generation
                       /\ \A g \in Generations :
                            g > domains'[m].generation => recordKeyIndex[m][g][k] = 0
    BY <1>0 DEF NothingAhead
  <2>1. CASE m # n
    BY <1>9, <2>1 DEF StoreInv, NothingAhead
  <2>2. CASE m = n
    BY <1>5, <1>10, <2>2
  <2>. QED BY <2>1, <2>2
<1>8. WrittenByOwner'
  <2>. SUFFICES ASSUME NEW m \in Names, NEW k \in Keys,
                       records[m][k].exists, records[m][k].generation = domains'[m].generation
                PROVE  author[m][k] = domains'[m].owner
    BY <1>0 DEF WrittenByOwner
  <2>1. m # n
    BY <1>5, <1>10
  <2>. QED BY <1>9, <2>1 DEF StoreInv, WrittenByOwner
<1>. QED BY <1>1, <1>6, <1>7, <1>8 DEF StoreInv

(* Nothing changes for the store when owners, generations and slots stay.  *)
LEMMA StoreUntouched ==
    ASSUME TypeOK, StoreInv, UNCHANGED storeVars,
           \A n \in Names : /\ domains'[n].owner = domains[n].owner
                            /\ domains'[n].generation = domains[n].generation
    PROVE  StoreInv'
BY SMT DEF StoreInv, KeyListExact, isInverse, LiveIffListed, NothingAhead, WrittenByOwner, storeVars

(* setRecord.                                                              *)
LEMMA StoreSet ==
    ASSUME TypeOK, StoreInv, NEW a \in Accounts, NEW n \in Names, NEW in \in RecordInputs,
           setRecord(a, n, in)
    PROVE  StoreInv'
<1>. DEFINE g == domains[n].generation
            k == recordKeyOf(in)
<1>1. k \in Keys /\ g \in Generations /\ g \in Nat
  <2>1. k \in Keys /\ g \in Generations
    BY DEF Keys, TypeOK, Domain
  <2>. QED BY <2>1, Bounds
<1>2. /\ recordKeys[n][g] \in Seq(Keys)
      /\ recordKeyIndex[n][g] \in [Keys -> Nat]
      /\ isInverse(recordKeyIndex[n][g], recordKeys[n][g])
  BY SMT, <1>1 DEF TypeOK, StoreInv, KeyListExact
<1>3. /\ a = domains[n].owner /\ listKey(n, g, k) /\ domains' = domains
      /\ records' = [records EXCEPT ![n][k] = [exists |-> TRUE, generation |-> g, body |-> in]]
      /\ author' = [author EXCEPT ![n][k] = a]
  BY DEF setRecord, maySetRecord
<1>. HIDE DEF g, k
<1>4. \A m \in Names, j \in Keys :
        /\ records'[m][j] = IF m = n /\ j = k
                              THEN [exists |-> TRUE, generation |-> g, body |-> in]
                              ELSE records[m][j]
        /\ author'[m][j] = IF m = n /\ j = k THEN a ELSE author[m][j]
  BY <1>1, <1>3 DEF TypeOK
<1>5. CASE recordKeyIndex[n][g][k] = 0
  <2>. DEFINE index2 == [recordKeyIndex[n][g] EXCEPT ![k] = Len(recordKeys[n][g]) + 1]
  <2>1. isInverse(index2, Append(recordKeys[n][g], k))
    BY <1>1, <1>2, <1>5, AppendInverse
  <2>2. /\ recordKeys' = [recordKeys EXCEPT ![n][g] = Append(recordKeys[n][g], k)]
        /\ recordKeyIndex' = [recordKeyIndex EXCEPT ![n][g][k] = Len(recordKeys[n][g]) + 1]
    BY <1>3, <1>5 DEF listKey
  <2>3. \A m \in Names, h \in Generations :
          /\ recordKeys'[m][h] = IF m = n /\ h = g THEN Append(recordKeys[n][g], k)
                                                   ELSE recordKeys[m][h]
          /\ recordKeyIndex'[m][h] = IF m = n /\ h = g THEN index2 ELSE recordKeyIndex[m][h]
    BY <1>1, <2>2 DEF TypeOK
  <2>4. index2[k] # 0 /\ \A j \in Keys : j # k => index2[j] = recordKeyIndex[n][g][j]
    BY SMT, <1>1, <1>2
  <2>. HIDE DEF index2
  <2>5. KeyListExact'
    <3>. SUFFICES ASSUME NEW m \in Names, NEW h \in Generations
                  PROVE  isInverse(recordKeyIndex'[m][h], recordKeys'[m][h])
      BY DEF KeyListExact, isInverse
    <3>. QED BY SMT, <2>1, <2>3 DEF StoreInv, KeyListExact
  <2>6. LiveIffListed'
    <3>. SUFFICES ASSUME NEW m \in Names, NEW j \in Keys
                  PROVE  (/\ records'[m][j].exists
                          /\ records'[m][j].generation = domains[m].generation)
                         <=> recordKeyIndex'[m][domains[m].generation][j] # 0
      BY SMT, <1>3 DEF LiveIffListed
    <3>1. domains[m].generation \in Generations
      BY DEF TypeOK, Domain
    <3>2. CASE m = n /\ j = k
      <4>1. recordKeyIndex'[n][g] = index2 /\ g = domains[n].generation
        BY <1>1, <2>3 DEF g
      <4>2. records'[n][k] = [exists |-> TRUE, generation |-> g, body |-> in]
        BY <1>1, <1>4
      <4>3. records'[n][k].exists /\ records'[n][k].generation = g
        BY SMT, <4>2
      <4>. QED BY <2>4, <3>2, <4>1, <4>3
    <3>3. CASE ~(m = n /\ j = k)
      <4>1. recordKeyIndex'[m][domains[m].generation][j]
              = recordKeyIndex[m][domains[m].generation][j]
        BY <2>3, <2>4, <3>1, <3>3
      <4>2. records'[m][j] = records[m][j]
        BY <1>4, <3>3
      <4>. QED BY SMT, <4>1, <4>2 DEF StoreInv, LiveIffListed
    <3>. QED BY <3>2, <3>3
  <2>7. NothingAhead'
    BY SMT, <1>1, <1>3, <1>4, <2>3 DEF StoreInv, NothingAhead, g
  <2>8. WrittenByOwner'
    BY SMT, <1>3, <1>4 DEF StoreInv, WrittenByOwner
  <2>. QED BY <2>5, <2>6, <2>7, <2>8 DEF StoreInv
<1>6. CASE recordKeyIndex[n][g][k] # 0
  <2>1. recordKeys' = recordKeys /\ recordKeyIndex' = recordKeyIndex
    BY <1>3, <1>6 DEF listKey
  <2>2. KeyListExact'
    <3>1. KeyListExact
      BY DEF StoreInv
    <3>. SUFFICES ASSUME NEW m \in Names, NEW h \in Generations
                  PROVE  isInverse(recordKeyIndex'[m][h], recordKeys'[m][h])
      BY DEF KeyListExact, isInverse
    <3>. QED BY <2>1, <3>1 DEF KeyListExact
  <2>3. LiveIffListed'
    BY SMT, <1>3, <1>4, <1>6, <2>1 DEF StoreInv, LiveIffListed, g
  <2>4. NothingAhead'
    BY SMT, <1>1, <1>3, <1>4, <2>1 DEF StoreInv, NothingAhead, g
  <2>5. WrittenByOwner'
    BY SMT, <1>3, <1>4 DEF StoreInv, WrittenByOwner
  <2>. QED BY <2>2, <2>3, <2>4, <2>5 DEF StoreInv
<1>. QED BY <1>5, <1>6

(* removeRecord.                                                           *)
LEMMA StoreRemove ==
    ASSUME TypeOK, StoreInv, NEW a \in Accounts, NEW n \in Names, NEW k \in Keys,
           removeRecord(a, n, k)
    PROVE  StoreInv'
<1>. DEFINE g      == domains[n].generation
            keys   == recordKeys[n][g]
            index  == recordKeyIndex[n][g]
            keys2  == swapPop(keys, index[k])
            index2 == swapIndex(index, keys, index[k], k)
<1>1. g \in Generations
  BY DEF TypeOK, Domain
<1>2. keys \in Seq(Keys) /\ index \in [Keys -> Nat] /\ isInverse(index, keys)
  BY SMT, <1>1 DEF TypeOK, StoreInv, KeyListExact
<1>3. /\ index[k] \in 1..Len(keys) /\ domains' = domains
      /\ records' = [records EXCEPT ![n][k] = NoRecord]
      /\ author' = [author EXCEPT ![n][k] = ZeroAddress]
      /\ recordKeys' = [recordKeys EXCEPT ![n][g] = keys2]
      /\ recordKeyIndex' = [recordKeyIndex EXCEPT ![n][g] = index2]
  BY DEF removeRecord, mayRemoveRecord
<1>. HIDE DEF g, keys, index, keys2, index2
<1>4. isInverse(index2, keys2)
  <2>1. index[k] # 0
    BY SMT, <1>2, <1>3
  <2>. QED BY <1>2, <2>1, SwapPopInverse DEF keys2, index2
<1>5. /\ index2[k] = 0
      /\ \A j \in Keys : j # k => (index2[j] # 0 <=> index[j] # 0)
  <2>1. index[keys[Len(keys)]] = Len(keys) /\ Len(keys) \in Nat /\ Len(keys) # 0
    <3>1. Len(keys) \in Nat /\ Len(keys) \in 1..Len(keys)
      BY SMT, <1>2, <1>3
    <3>. QED BY SMT, <1>2, <3>1 DEF isInverse
  <2>. QED BY SMT, <1>2, <1>3, <2>1 DEF swapIndex, index2
<1>6. \A m \in Names, j \in Keys :
        /\ records'[m][j] = IF m = n /\ j = k THEN NoRecord ELSE records[m][j]
        /\ author'[m][j] = IF m = n /\ j = k THEN ZeroAddress ELSE author[m][j]
  BY <1>3 DEF TypeOK
<1>7. \A m \in Names, h \in Generations :
        /\ recordKeys'[m][h] = IF m = n /\ h = g THEN keys2 ELSE recordKeys[m][h]
        /\ recordKeyIndex'[m][h] = IF m = n /\ h = g THEN index2 ELSE recordKeyIndex[m][h]
  BY <1>1, <1>3 DEF TypeOK
<1>8. KeyListExact'
  <2>. SUFFICES ASSUME NEW m \in Names, NEW h \in Generations
                PROVE  isInverse(recordKeyIndex'[m][h], recordKeys'[m][h])
    BY DEF KeyListExact, isInverse
  <2>. QED BY SMT, <1>4, <1>7 DEF StoreInv, KeyListExact
<1>9. LiveIffListed'
  <2>. SUFFICES ASSUME NEW m \in Names, NEW j \in Keys
                PROVE  (/\ records'[m][j].exists
                        /\ records'[m][j].generation = domains[m].generation)
                       <=> recordKeyIndex'[m][domains[m].generation][j] # 0
    BY SMT, <1>3 DEF LiveIffListed
  <2>1. domains[m].generation \in Generations
    BY DEF TypeOK, Domain
  <2>2. CASE m = n /\ j = k
    <3>1. recordKeyIndex'[n][g] = index2 /\ g = domains[n].generation
      BY <1>1, <1>7 DEF g
    <3>2. records'[n][k] = NoRecord
      BY <1>6
    <3>3. ~records'[n][k].exists
      BY SMT, <3>2 DEF NoRecord
    <3>. QED BY <1>5, <2>2, <3>1, <3>3
  <2>3. CASE ~(m = n /\ j = k)
    <3>1. recordKeyIndex'[m][domains[m].generation][j] # 0
            <=> recordKeyIndex[m][domains[m].generation][j] # 0
      BY SMT, <1>5, <1>7, <2>1, <2>3 DEF g, index
    <3>2. records'[m][j] = records[m][j]
      BY <1>6, <2>3
    <3>. QED BY SMT, <3>1, <3>2 DEF StoreInv, LiveIffListed
  <2>. QED BY <2>2, <2>3
<1>10. NothingAhead'
  <2>1. \A h \in Generations : h > domains[n].generation => h # g
    BY SMT, Bounds, <1>1 DEF g
  <2>. QED BY SMT, <1>3, <1>6, <1>7, <2>1 DEF StoreInv, NothingAhead, NoRecord
<1>11. WrittenByOwner'
  BY SMT, <1>3, <1>6 DEF StoreInv, WrittenByOwner, NoRecord
<1>. QED BY <1>8, <1>9, <1>10, <1>11 DEF StoreInv

(* Every transaction keeps the store's invariant.                          *)
LEMMA StoreStep == TypeOK /\ StoreInv /\ [Next]_vars => StoreInv'
<1>. SUFFICES ASSUME TypeOK, StoreInv, [Next]_vars PROVE StoreInv'
  OBVIOUS
<1>1. CASE UNCHANGED <<domains, storeVars>>
  BY <1>1, StoreUntouched
<1>2. ASSUME NEW a \in Accounts, NEW n \in Names, NEW p \in PubKeys, NEW s \in Secrets,
             NEW v \in Payments, register(a, n, p, s, v)
      PROVE  StoreInv'
  <2>. DEFINE d == [owner |-> a, pubKey |-> p, expiry |-> now + REGISTRATION_PERIOD,
                    generation |-> domains[n].generation + 1]
  <2>0. /\ domains[n].generation \in Generations /\ domains[n].generation < MaxGeneration
        /\ now \in Nat
    BY <1>2 DEF register, TypeOK, Domain
  <2>1. d \in Domain
    BY <2>0, NextGeneration, PeriodLater DEF Domain, Owners
  <2>2. domains' = [domains EXCEPT ![n] = d] /\ UNCHANGED storeVars
    BY <1>2 DEF register
  <2>3. d.generation = domains[n].generation + 1
    OBVIOUS
  <2>. HIDE DEF d
  <2>. QED BY <2>1, <2>2, <2>3, StoreNewGeneration
<1>3. ASSUME NEW a \in Accounts, NEW n \in Names, NEW b \in Owners, NEW p \in PubKeys,
             transfer(a, n, b, p)
      PROVE  StoreInv'
  <2>. DEFINE d == [owner |-> b, pubKey |-> p, expiry |-> domains[n].expiry,
                    generation |-> domains[n].generation + 1]
  <2>0. /\ domains[n].generation \in Generations /\ domains[n].generation < MaxGeneration
        /\ domains[n].expiry \in Nat
    BY <1>3 DEF transfer, TypeOK, Domain
  <2>1. d \in Domain
    BY <2>0, NextGeneration DEF Domain
  <2>2. domains' = [domains EXCEPT ![n] = d] /\ UNCHANGED storeVars
    BY <1>3 DEF transfer
  <2>3. d.generation = domains[n].generation + 1
    OBVIOUS
  <2>. HIDE DEF d
  <2>. QED BY <2>1, <2>2, <2>3, StoreNewGeneration
<1>4. ASSUME NEW n \in Names, NEW v \in Payments, renew(n, v) PROVE StoreInv'
  <2>1. \A m \in Names : /\ domains'[m].owner = domains[m].owner
                          /\ domains'[m].generation = domains[m].generation
    BY <1>4 DEF renew, TypeOK, Domain
  <2>. QED BY <1>4, <2>1, StoreUntouched DEF renew
<1>5. ASSUME NEW a \in Accounts, NEW n \in Names, NEW in \in RecordInputs,
             setRecord(a, n, in)
      PROVE  StoreInv'
  BY <1>5, StoreSet
<1>6. ASSUME NEW a \in Accounts, NEW n \in Names, NEW k \in Keys, removeRecord(a, n, k)
      PROVE  StoreInv'
  BY <1>6, StoreRemove
<1>. QED
  BY <1>1, <1>2, <1>3, <1>4, <1>5, <1>6 DEF Next, Tick, commit, withdraw, declare, vars

(* The inductive invariant of setRecord, removeRecord, register and        *)
(* transfer.                                                               *)
THEOREM StoreInvariant == Spec => []StoreInv
BY StoreInit, StoreStep, TypeCorrect, PTL DEF Spec

(* The index of record keys is always the inverse of their lists.          *)
THEOREM KeyListsAreExact == Spec => []KeyListExact
<1>1. StoreInv => KeyListExact
  BY DEF StoreInv
<1>. QED BY <1>1, StoreInvariant, PTL

(* Enumeration shows exactly the live records, each once.                  *)
THEOREM ListedAreLive == Spec => []LiveIffListed
<1>1. StoreInv => LiveIffListed
  BY DEF StoreInv
<1>. QED BY <1>1, StoreInvariant, PTL

(* Under StoreInv every listed key passes the test of listRecords, so its  *)
(* loops copy the whole list.                                              *)
LEMMA ListIsWhole ==
    ASSUME TypeOK, StoreInv, NEW n \in Names, ~available(n)
    PROVE  LET keys == recordKeys[n][domains[n].generation]
           IN  /\ listRecords(n) = [i \in 1..Len(keys) |-> records[n][keys[i]]]
               /\ ExistsBijection(1..Len(keys), {k \in Keys : lookup(n, k).exists})
               /\ \A k \in Keys : lookup(n, k).exists =>
                    \E i \in 1..Len(keys) : keys[i] = k /\ lookup(n, k) = records[n][k]
<1>. DEFINE g     == domains[n].generation
            keys  == recordKeys[n][g]
            index == recordKeyIndex[n][g]
            live  == {k \in Keys : records[n][k].exists /\ records[n][k].generation = g}
            found == {k \in Keys : lookup(n, k).exists}
<1>1. g \in Generations /\ keys \in Seq(Keys) /\ Len(keys) \in Nat
  BY SMT DEF TypeOK, Domain
<1>2. isInverse(index, keys)
  BY <1>1 DEF StoreInv, KeyListExact
<1>3. \A k \in Keys : k \in live <=> index[k] # 0
  BY SMT DEF StoreInv, LiveIffListed
<1>4. \A k \in Keys :
        /\ lookup(n, k).exists <=> k \in live
        /\ k \in live => lookup(n, k) = records[n][k]
  BY DEF lookup, NoRecord
<1>. HIDE DEF g, keys, index, live
<1>5. \A i \in 1..Len(keys) : keys[i] \in Keys /\ index[keys[i]] = i /\ keys[i] \in live
  <2>. SUFFICES ASSUME NEW i \in 1..Len(keys)
                PROVE  keys[i] \in Keys /\ index[keys[i]] = i /\ keys[i] \in live
    OBVIOUS
  <2>1. keys[i] \in Keys /\ i # 0
    BY SMT, <1>1
  <2>2. index[keys[i]] = i
    BY <1>2 DEF isInverse
  <2>. QED BY <1>3, <2>1, <2>2
<1>6. Subsequence(keys, live) = keys
  BY <1>1, <1>5, SubsequenceWhole
<1>7. listRecords(n) = [i \in 1..Len(keys) |-> records[n][keys[i]]]
  BY <1>6 DEF listRecords, live, keys, g
<1>8. found = live
  <2>1. live \subseteq Keys
    BY DEF live
  <2>. QED BY <1>4, <2>1
<1>9. \A k \in live : k \in Keys => \E i \in 1..Len(keys) : keys[i] = k
  BY <1>2, <1>3 DEF isInverse
<1>. HIDE DEF found
<1>10. ExistsBijection(1..Len(keys), found)
  <2>1. keys \in [1..Len(keys) -> found]
    BY SMT, <1>1, <1>5, <1>8
  <2>2. \A i, j \in 1..Len(keys) : keys[i] = keys[j] => i = j
    BY <1>5
  <2>3. \A k \in found : \E i \in 1..Len(keys) : keys[i] = k
    BY <1>8, <1>9 DEF live
  <2>4. keys \in Injection(1..Len(keys), found) /\ keys \in Surjection(1..Len(keys), found)
    BY <2>1, <2>2, <2>3 DEF Injection, Surjection, IsInjective
  <2>. QED BY <2>4 DEF ExistsBijection, Bijection
<1>11. \A k \in Keys : lookup(n, k).exists =>
         \E i \in 1..Len(keys) : keys[i] = k /\ lookup(n, k) = records[n][k]
  BY <1>4, <1>9
<1>. QED BY <1>7, <1>10, <1>11 DEF keys, g, found

(* listRecords and lookup agree, record by record.                         *)
THEOREM ListsWhatResolves == Spec => []ListAgreesWithLookup
<1>1. ASSUME TypeOK, StoreInv PROVE ListAgreesWithLookup
  <2>. SUFFICES ASSUME NEW n \in Names
                PROVE  /\ Len(listRecords(n)) = Cardinality({k \in Keys : lookup(n, k).exists})
                       /\ \A k \in Keys : lookup(n, k).exists =>
                            \E i \in DOMAIN listRecords(n) : listRecords(n)[i] = lookup(n, k)
    BY DEF ListAgreesWithLookup
  <2>. DEFINE keys  == recordKeys[n][domains[n].generation]
              found == {k \in Keys : lookup(n, k).exists}
  <2>1. CASE available(n)
    <3>1. listRecords(n) = << >> /\ found = {}
      BY <2>1 DEF listRecords, lookup, NoRecord
    <3>. QED BY <3>1, FS_EmptySet
  <2>2. CASE ~available(n)
    <3>1. Len(keys) \in Nat
      BY SMT, <1>1 DEF TypeOK, Domain
    <3>2. /\ listRecords(n) = [i \in 1..Len(keys) |-> records[n][keys[i]]]
          /\ ExistsBijection(1..Len(keys), found)
          /\ \A k \in Keys : lookup(n, k).exists =>
                \E i \in 1..Len(keys) : keys[i] = k /\ lookup(n, k) = records[n][k]
      BY <1>1, <2>2, ListIsWhole
    <3>. HIDE DEF keys, found
    <3>3. Cardinality(found) = Len(keys)
      BY <3>1, <3>2, FS_CountingElements
    <3>4. Len(listRecords(n)) = Len(keys) /\ DOMAIN listRecords(n) = 1..Len(keys)
      BY SMT, <3>1, <3>2
    <3>. QED BY SMT, <3>2, <3>3, <3>4 DEF found
  <2>. QED BY <2>1, <2>2
<1>. QED BY <1>1, TypeCorrect, StoreInvariant, PTL

(* No record outlives its author's ownership: what resolves was written by *)
(* the present owner.                                                      *)
THEOREM OwnersRecordsResolve == Spec => []ResolvedByOwner
<1>1. StoreInv => ResolvedByOwner
  BY DEF StoreInv, WrittenByOwner, ResolvedByOwner, lookup, ownerOf, NoRecord
<1>. QED BY <1>1, StoreInvariant, PTL

-----------------------------------------------------------------------------
(* Commitments and schemas.                                                *)

(* A name that is free changes only in a register whose commitment is of   *)
(* the right age and is used up.                                           *)
THEOREM TakenOnlyByCommitment == Spec => TakenByAgedCommitment
<1>. DEFINE aged(n) ==
       \E s \in Secrets :
         LET c == makeCommitment(n, domains'[n].owner, domains'[n].pubKey, s)
         IN  /\ commitments[c] # 0 /\ commitments'[c] = 0
             /\ now - commitments[c] \in MIN_COMMITMENT_AGE..MAX_COMMITMENT_AGE
<1>1. ASSUME TypeOK, [Next]_vars, NEW n \in Names, available(n), domains'[n] # domains[n]
      PROVE  aged(n)
  <2>1. ASSUME NEW a \in Accounts, NEW m \in Names, NEW p \in PubKeys, NEW s \in Secrets,
               NEW v \in Payments, register(a, m, p, s, v)
        PROVE  aged(n)
    <3>. DEFINE c == makeCommitment(m, a, p, s)
    <3>1. m = n /\ domains'[m].owner = a /\ domains'[m].pubKey = p
      BY <1>1, <2>1 DEF register, TypeOK
    <3>2. c \in Commitment
      BY DEF makeCommitment, Commitment
    <3>3. /\ commitments[c] # 0 /\ commitments' = [commitments EXCEPT ![c] = 0]
          /\ now >= commitments[c] + MIN_COMMITMENT_AGE
          /\ now <= commitments[c] + MAX_COMMITMENT_AGE
      BY <2>1 DEF register, mayRegister, mayReveal, reveal
    <3>. HIDE DEF c
    <3>4. commitments'[c] = 0 /\ commitments[c] \in Nat /\ now \in Nat
      BY <1>1, <3>2, <3>3 DEF TypeOK
    <3>5. now - commitments[c] \in MIN_COMMITMENT_AGE..MAX_COMMITMENT_AGE
      BY SMT, <3>3, <3>4, AgesAreTimes
    <3>. QED BY <3>1, <3>3, <3>4, <3>5 DEF c
  <2>2. ASSUME NEW m \in Names, NEW v \in Payments, renew(m, v) PROVE FALSE
    BY <1>1, <2>2 DEF renew, mayRenew, TypeOK
  <2>3. ASSUME NEW a \in Accounts, NEW m \in Names, NEW b \in Owners, NEW p \in PubKeys,
               transfer(a, m, b, p)
        PROVE  FALSE
    BY <1>1, <2>3 DEF transfer, mayTransfer, TypeOK
  <2>4. ~UNCHANGED domains
    BY <1>1
  <2>. HIDE DEF aged
  <2>. QED
    BY <1>1, <2>1, <2>2, <2>3, <2>4
    DEF Next, Tick, commit, withdraw, setRecord, removeRecord, declare, vars
<1>2. TypeOK /\ [Next]_vars
        => [\A n \in Names : available(n) /\ domains'[n] # domains[n] => aged(n)]_vars
  BY <1>1
<1>. QED BY <1>2, TypeCorrect, PTL DEF Spec, TakenByAgedCommitment

(* Every record slot in use meets the schema its type has now.             *)
SlotsMeetSchema ==
    \A n \in Names, k \in Keys :
        records[n][k].exists =>
            /\ records[n][k].body \in RecordInputs
            /\ typeExists(records[n][k].body.recordType)
            /\ checkMandatoryFields(records[n][k].body)

(* A declaration leaves the schemas that exist as they are.                *)
LEMMA SchemasImmutable ==
    ASSUME TypeOK, [Next]_vars, NEW t \in Types, typeExists(t)
    PROVE  schemas'[t] = schemas[t]
<1>1. ASSUME NEW name \in Types, NEW m \in FieldLists, NEW o \in FieldLists, declare(name, m, o)
      PROVE  schemas'[t] = schemas[t]
  BY <1>1 DEF declare, declareType, mayDeclare, typeExists, TypeOK
<1>2. CASE UNCHANGED schemas
  BY <1>2
<1>. QED
  BY <1>1, <1>2
  DEF Next, Tick, commit, register, renew, transfer, withdraw, setRecord, removeRecord,
      vars, schemaVars

(* What resolves has every field its type makes mandatory.                 *)
THEOREM RecordsMeetSchema == Spec => []ResolvedMeetsSchema
<1>1. Init => SlotsMeetSchema
  BY SMT DEF Init, SlotsMeetSchema, NoRecord
<1>2. ASSUME TypeOK, SlotsMeetSchema, [Next]_vars PROVE SlotsMeetSchema'
  <2>1. ASSUME NEW in \in RecordInputs, typeExists(in.recordType), checkMandatoryFields(in)
        PROVE  typeExists(in.recordType)' /\ checkMandatoryFields(in)'
    <3>1. in.recordType \in Types
      BY NamespaceAssumption
    <3>2. schemas'[in.recordType] = schemas[in.recordType]
      BY <1>2, <2>1, <3>1, SchemasImmutable
    <3>. QED BY SMT, <2>1, <3>2 DEF typeExists, checkMandatoryFields, mandatoryFields
  <2>2. ASSUME NEW n \in Names, NEW k \in Keys, records'[n][k].exists
        PROVE  /\ records'[n][k].body \in RecordInputs
               /\ typeExists(records'[n][k].body.recordType)
               /\ checkMandatoryFields(records'[n][k].body)
    <3>1. CASE records'[n][k] = records[n][k]
      BY <1>2, <2>2, <3>1 DEF SlotsMeetSchema
    <3>2. ASSUME NEW a \in Accounts, NEW m \in Names, NEW in \in RecordInputs,
                 setRecord(a, m, in), records'[n][k] # records[n][k]
          PROVE  records'[n][k].body = in /\ typeExists(in.recordType) /\ checkMandatoryFields(in)
      BY <1>2, <3>2 DEF setRecord, maySetRecord, TypeOK
    <3>3. ASSUME NEW a \in Accounts, NEW m \in Names, NEW j \in Keys,
                 removeRecord(a, m, j), records'[n][k] # records[n][k]
          PROVE  FALSE
      BY <1>2, <2>2, <3>3 DEF removeRecord, TypeOK, NoRecord
    <3>4. CASE \E a \in Accounts, m \in Names, in \in RecordInputs : setRecord(a, m, in)
      BY <3>1, <3>2, <3>4
    <3>5. CASE \E a \in Accounts, m \in Names, j \in Keys : removeRecord(a, m, j)
      BY <3>1, <3>3, <3>5
    <3>6. CASE UNCHANGED records
      BY <3>1, <3>6
    <3>. QED
      BY <1>2, <3>4, <3>5, <3>6
      DEF Next, Tick, commit, register, renew, transfer, withdraw, declare, vars, storeVars
  <2>. QED BY <2>1, <2>2 DEF SlotsMeetSchema
<1>3. SlotsMeetSchema => ResolvedMeetsSchema
  BY DEF SlotsMeetSchema, ResolvedMeetsSchema, lookup, NoRecord
<1>. QED BY <1>1, <1>2, <1>3, TypeCorrect, PTL DEF Spec

-----------------------------------------------------------------------------
(* The contract implements the abstract namespace.                         *)

(* A domain the contract calls available is one the abstract namespace     *)
(* calls inactive.                                                         *)
LEMMA ActiveIsTaken == ASSUME TypeOK, NEW n \in Names PROVE NS!Active(n) <=> ~available(n)
BY SMT DEF NS!Active, available, TypeOK, Domain

(* A change of hands clears exactly the records of its name.               *)
LEMMA LiveAfterNewGeneration ==
    ASSUME TypeOK, StoreInv, NEW n \in Names, NEW d,
           d.generation = domains[n].generation + 1,
           domains' = [domains EXCEPT ![n] = d], UNCHANGED records
    PROVE  [m \in Names |-> liveBody(m)]'
             = [[m \in Names |-> liveBody(m)] EXCEPT ![n] = NS!NoRecords]
<1>1. \A k \in Keys : ~(records[n][k].exists /\ records[n][k].generation = d.generation)
  <2>0. \A k \in Keys : records[n][k] \in Record
    BY DEF TypeOK
  <2>1. domains[n].generation \in Nat /\ \A k \in Keys : records[n][k].generation \in Nat
    BY <2>0, Bounds DEF TypeOK, Domain, Record
  <2>. QED BY SMT, <2>1 DEF StoreInv, NothingAhead
<1>2. liveBody(n)' = NS!NoRecords
  BY <1>1 DEF liveBody, NS!NoRecords, TypeOK
<1>3. \A m \in Names : m # n => liveBody(m)' = liveBody(m)
  BY DEF liveBody, TypeOK
<1>. QED BY <1>2, <1>3

(* Writing or deleting one slot of an active name changes one live record. *)
LEMMA LiveAfterWrite ==
    ASSUME TypeOK, NEW n \in Names, NEW k \in Keys, NEW r \in Record,
           IF r.exists THEN r.generation = domains[n].generation ELSE r.body = NoBody,
           records' = [records EXCEPT ![n][k] = r], UNCHANGED domains
    PROVE  [m \in Names |-> liveBody(m)]'
             = [[m \in Names |-> liveBody(m)] EXCEPT ![n][k] = r.body]
<1>1. \A m \in Names, j \in Keys :
        records'[m][j] = IF m = n /\ j = k THEN r ELSE records[m][j]
  BY DEF TypeOK
<1>2. \A m \in Names : m # n => liveBody(m)' = liveBody(m)
  BY SMT, <1>1 DEF liveBody
<1>3. liveBody(n)' = [liveBody(n) EXCEPT ![k] = r.body]
  <2>1. \A j \in Keys : liveBody(n)'[j] = IF j = k THEN r.body ELSE liveBody(n)[j]
    BY SMT, <1>1 DEF liveBody
  <2>2. /\ liveBody(n)' = [j \in Keys |-> liveBody(n)'[j]]
        /\ liveBody(n) = [j \in Keys |-> liveBody(n)[j]]
    BY SMT DEF liveBody
  <2>. QED BY <2>1, <2>2
<1>. QED BY <1>2, <1>3

(* Every behaviour of the contract is one of the abstract namespace, under *)
(* the mapping that shows the records of the current generation only.      *)
THEOREM ContractImplementsNamespace == Spec => ImplementsNamespace
<1>1. Init => NS!NSInit
  BY SMT DEF Init, NS!NSInit, NS!NoRecords, liveBody, NoRecord
<1>2. ASSUME TypeOK, StoreInv, [Next]_vars PROVE [NS!NSNext]_(NS!nsVars)
  <2>. DEFINE step == [NS!NSNext]_(NS!nsVars)
  <2>1. CASE UNCHANGED <<now, domains, records>>
    BY <2>1 DEF NS!nsVars, liveBody
  <2>2. CASE Tick
    BY <2>2 DEF Tick, NS!NSNext, NS!NSTick, liveBody, storeVars
  <2>3. ASSUME NEW a \in Accounts, NEW n \in Names, NEW p \in PubKeys, NEW s \in Secrets,
               NEW v \in Payments, register(a, n, p, s, v)
        PROVE  step
    <3>. DEFINE d == [owner |-> a, pubKey |-> p, expiry |-> now + REGISTRATION_PERIOD,
                      generation |-> domains[n].generation + 1]
    <3>1. domains' = [domains EXCEPT ![n] = d] /\ UNCHANGED <<now, records>> /\ available(n)
      BY <2>3 DEF register, mayRegister, storeVars
    <3>2. [m \in Names |-> liveBody(m)]'
            = [[m \in Names |-> liveBody(m)] EXCEPT ![n] = NS!NoRecords]
      BY <1>2, <3>1, LiveAfterNewGeneration
    <3>3. /\ [m \in Names |-> domains[m].owner]'
               = [[m \in Names |-> domains[m].owner] EXCEPT ![n] = a]
          /\ [m \in Names |-> domains[m].pubKey]'
               = [[m \in Names |-> domains[m].pubKey] EXCEPT ![n] = p]
          /\ [m \in Names |-> domains[m].expiry]'
               = [[m \in Names |-> domains[m].expiry] EXCEPT ![n] = now + REGISTRATION_PERIOD]
      BY <1>2, <3>1 DEF TypeOK
    <3>4. NS!Take(n, a, p)
      BY <1>2, <3>1, <3>2, <3>3, ActiveIsTaken DEF NS!Take
    <3>. QED BY <3>4 DEF NS!NSNext
  <2>4. ASSUME NEW n \in Names, NEW v \in Payments, renew(n, v) PROVE step
    <3>1. /\ domains' = [domains EXCEPT ![n].expiry = domains[n].expiry + REGISTRATION_PERIOD]
          /\ UNCHANGED <<now, records>> /\ ~available(n)
      BY <2>4 DEF renew, mayRenew, storeVars
    <3>2. \A m \in Names :
            /\ domains'[m].owner = domains[m].owner
            /\ domains'[m].pubKey = domains[m].pubKey
            /\ domains'[m].generation = domains[m].generation
            /\ domains'[m].expiry = IF m = n THEN domains[n].expiry + REGISTRATION_PERIOD
                                             ELSE domains[m].expiry
      BY SMT, <1>2, <3>1 DEF TypeOK, Domain
    <3>3. \A m \in Names : liveBody(m)' = liveBody(m)
      BY <3>1, <3>2 DEF liveBody
    <3>4. [m \in Names |-> domains[m].expiry]'
            = [[m \in Names |-> domains[m].expiry] EXCEPT ![n] = @ + REGISTRATION_PERIOD]
      BY <3>2
    <3>5. NS!Extend(n)
      BY SMT, <1>2, <3>1, <3>2, <3>3, <3>4, ActiveIsTaken DEF NS!Extend
    <3>. QED BY <3>5 DEF NS!NSNext
  <2>5. ASSUME NEW a \in Accounts, NEW n \in Names, NEW b \in Owners, NEW p \in PubKeys,
               transfer(a, n, b, p)
        PROVE  step
    <3>. DEFINE d == [owner |-> b, pubKey |-> p, expiry |-> domains[n].expiry,
                      generation |-> domains[n].generation + 1]
    <3>1. /\ domains' = [domains EXCEPT ![n] = d] /\ UNCHANGED <<now, records>>
          /\ ~available(n) /\ b \in Accounts
      BY <2>5 DEF transfer, mayTransfer, storeVars, Owners
    <3>2. [m \in Names |-> liveBody(m)]'
            = [[m \in Names |-> liveBody(m)] EXCEPT ![n] = NS!NoRecords]
      BY <1>2, <3>1, LiveAfterNewGeneration
    <3>3. /\ [m \in Names |-> domains[m].owner]'
               = [[m \in Names |-> domains[m].owner] EXCEPT ![n] = b]
          /\ [m \in Names |-> domains[m].pubKey]'
               = [[m \in Names |-> domains[m].pubKey] EXCEPT ![n] = p]
          /\ [m \in Names |-> domains[m].expiry]' = [m \in Names |-> domains[m].expiry]
      BY <1>2, <3>1 DEF TypeOK
    <3>4. NS!HandOver(n, b, p)
      BY <1>2, <3>1, <3>2, <3>3, ActiveIsTaken DEF NS!HandOver
    <3>. QED BY <3>1, <3>4 DEF NS!NSNext
  <2>6. ASSUME NEW a \in Accounts, NEW n \in Names, NEW in \in RecordInputs,
               setRecord(a, n, in)
        PROVE  step
    <3>. DEFINE k == recordKeyOf(in)
                r == [exists |-> TRUE, generation |-> domains[n].generation, body |-> in]
    <3>1. k \in Keys /\ r \in Record
      BY <1>2 DEF Keys, Record, TypeOK, Domain
    <3>2. records' = [records EXCEPT ![n][k] = r] /\ UNCHANGED <<now, domains>> /\ ~available(n)
      BY <2>6 DEF setRecord, maySetRecord
    <3>3. [m \in Names |-> liveBody(m)]'
            = [[m \in Names |-> liveBody(m)] EXCEPT ![n][k] = in]
      <4>1. r.exists /\ r.generation = domains[n].generation /\ r.body = in
        OBVIOUS
      <4>. HIDE DEF k, r
      <4>. QED BY <1>2, <3>1, <3>2, <4>1, LiveAfterWrite
    <3>4. NS!Publish(n, k, in)
      BY <1>2, <3>2, <3>3, ActiveIsTaken DEF NS!Publish
    <3>. QED BY <3>1, <3>4 DEF NS!NSNext
  <2>7. ASSUME NEW a \in Accounts, NEW n \in Names, NEW k \in Keys, removeRecord(a, n, k)
        PROVE  step
    <3>1. /\ records' = [records EXCEPT ![n][k] = NoRecord] /\ UNCHANGED <<now, domains>>
          /\ ~available(n) /\ records[n][k].exists
          /\ records[n][k].generation = domains[n].generation
      BY <2>7 DEF removeRecord, mayRemoveRecord
    <3>2. NoRecord \in Record /\ NoRecord.body = NoBody /\ ~NoRecord.exists
      BY Bounds DEF NoRecord, Record
    <3>3. [m \in Names |-> liveBody(m)]'
            = [[m \in Names |-> liveBody(m)] EXCEPT ![n][k] = NoBody]
      BY <1>2, <3>1, <3>2, LiveAfterWrite
    <3>4. CASE liveBody(n)[k] # NoBody
      <4>1. NS!Unpublish(n, k)
        BY <1>2, <3>1, <3>3, <3>4, ActiveIsTaken DEF NS!Unpublish
      <4>. QED BY <4>1 DEF NS!NSNext
    <3>5. CASE liveBody(n)[k] = NoBody
      <4>1. [m \in Names |-> liveBody(m)]' = [m \in Names |-> liveBody(m)]
        <5>1. [liveBody(n) EXCEPT ![k] = NoBody] = liveBody(n)
          BY <3>5 DEF liveBody
        <5>. QED BY <3>3, <5>1
      <4>. QED BY <3>1, <4>1 DEF NS!nsVars
    <3>. QED BY <3>4, <3>5
  <2>. QED
    BY <1>2, <2>1, <2>2, <2>3, <2>4, <2>5, <2>6, <2>7
    DEF Next, commit, withdraw, declare, vars, storeVars
<1>. QED
  BY <1>1, <1>2, TypeCorrect, StoreInvariant, PTL DEF Spec, ImplementsNamespace, NS!NSSpec

=============================================================================
