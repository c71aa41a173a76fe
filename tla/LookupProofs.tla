---------------------------- MODULE LookupProofs ----------------------------
(***************************************************************************)
(* The directory enumerates each operator once, and a lookup accepts only  *)
(* what the chain answered, from an identity the directory gave, for any   *)
(* operators, keys, endpoints and records and any order of steps.  What    *)
(* both sides of a query depend on: the resolver and the commands find the *)
(* same contracts in their settings, and a selector means the same however *)
(* it is written.                                                          *)
(***************************************************************************)
EXTENDS Lookup, Configuration, QuerySelector, LoopTheorems, FiniteSetTheorems

(* Leaves are for Zenon unless they name another prover.                   *)
USE ZenonT(20)

(* updatedAt = 0 is how announce tells a new operator: it is 0 exactly as  *)
(* long as the operator has never announced, because time is never 0.      *)
SentinelExact == \A op \in Operators : resolvers[op].updatedAt = 0 <=> announced[op] = {}

RegistryInv ==
    /\ RegistryTypeOK
    /\ announced \in [Operators -> SUBSET (IdentityKeys \X Endpoints)]
    /\ SentinelExact
    /\ OperatorsExact

(* Announcing, for the first time or again.                                *)
LEMMA AnnounceStep ==
    ASSUME RegistryInv, NEW op \in Operators, NEW key \in IdentityKeys, NEW e \in Endpoints,
           announce(op, key, e)
    PROVE  RegistryInv'
<1>1. /\ now \in 1..MaxTime /\ now' = now
      /\ operators \in Seq(Operators)
      /\ operators' = listed(op)
  BY DEF announce, RegistryInv, RegistryTypeOK
<1>2. /\ announced' = [announced EXCEPT ![op] = announced[op] \cup {<<key, e>>}]
      /\ announced' \in [Operators -> SUBSET (IdentityKeys \X Endpoints)]
  BY SMT DEF announce, RegistryInv
<1>3. /\ announced'[op] # {}
      /\ \A o \in Operators : o # op => announced'[o] = announced[o]
  BY <1>2 DEF RegistryInv
<1>4. /\ resolvers'[op].updatedAt = now
      /\ \A o \in Operators : o # op => resolvers'[o] = resolvers[o]
  BY DEF announce, RegistryInv, RegistryTypeOK
<1>5. RegistryTypeOK'
  <2>1. [pubKey |-> key, endpoint |-> e, updatedAt |-> now, active |-> TRUE] \in
          [pubKey : IdentityKeys \cup {ZeroKey}, endpoint : Endpoints \cup {NoEndpoint},
           updatedAt : 0..MaxTime, active : BOOLEAN]
    BY SMT, <1>1
  <2>2. listed(op) \in Seq(Operators)
    BY SMT, <1>1 DEF listed
  <2>. QED BY <1>1, <2>1, <2>2 DEF announce, RegistryInv, RegistryTypeOK
<1>6. SentinelExact'
  BY SMT, <1>1, <1>3, <1>4 DEF RegistryInv, SentinelExact
<1>7. OperatorsExact'
  <2>1. CASE resolvers[op].updatedAt = 0
    <3>1. announced[op] = {}
      BY <2>1 DEF RegistryInv, SentinelExact
    <3>2. \A i \in 1..Len(operators) : operators[i] # op
      BY <3>1 DEF RegistryInv, OperatorsExact
    <3>3. /\ Len(operators') = Len(operators) + 1 /\ Len(operators) \in Nat
          /\ \A i \in 1..Len(operators) : operators'[i] = operators[i]
          /\ operators'[Len(operators) + 1] = op
      BY SMT, <1>1, <2>1 DEF listed
    <3>4. \A i, j \in 1..Len(operators') : operators'[i] = operators'[j] => i = j
      BY SMT, <3>2, <3>3 DEF RegistryInv, OperatorsExact
    <3>5. ASSUME NEW o \in Operators
          PROVE  announced'[o] # {} <=> \E i \in 1..Len(operators') : operators'[i] = o
      <4>1. CASE o = op
        BY SMT, <1>3, <3>3, <4>1
      <4>2. CASE o # op
        BY SMT, <1>3, <3>3, <4>2 DEF RegistryInv, OperatorsExact
      <4>. QED BY <4>1, <4>2
    <3>. QED BY <3>4, <3>5 DEF OperatorsExact
  <2>2. CASE resolvers[op].updatedAt # 0
    <3>1. announced[op] # {} /\ operators' = operators
      BY <1>1, <2>2 DEF RegistryInv, SentinelExact, listed
    <3>2. \A o \in Operators : announced'[o] # {} <=> announced[o] # {}
      BY <1>3, <3>1
    <3>. QED BY <3>1, <3>2 DEF RegistryInv, OperatorsExact
  <2>. QED BY <2>1, <2>2
<1>. QED BY <1>2, <1>5, <1>6, <1>7 DEF RegistryInv

(* Revoking keeps the operator's place and its timestamp.                  *)
LEMMA RevokeStep ==
    ASSUME RegistryInv, NEW op \in Operators, revoke(op)
    PROVE  RegistryInv'
<1>1. /\ now' = now /\ operators' = operators /\ announced' = announced
      /\ resolvers' = [resolvers EXCEPT ![op].active = FALSE]
  BY DEF revoke
<1>2. RegistryTypeOK' /\ \A o \in Operators : resolvers'[o].updatedAt = resolvers[o].updatedAt
  BY <1>1 DEF RegistryInv, RegistryTypeOK
<1>3. SentinelExact'
  BY <1>1, <1>2 DEF RegistryInv, SentinelExact
<1>4. OperatorsExact'
  BY SMT, <1>1 DEF RegistryInv, OperatorsExact
<1>. QED BY <1>1, <1>2, <1>3, <1>4 DEF RegistryInv

(* An empty directory.                                                     *)
LEMMA RegistryStarts ==
    ASSUME RegistryInit
    PROVE  RegistryInv
<1>1. RegistryTypeOK
  BY SMT, RegistryAssumption DEF RegistryInit, RegistryTypeOK, NoResolver
<1>2. operators = << >> /\ \A op \in Operators : announced[op] = {}
  BY DEF RegistryInit
<1>3. OperatorsExact
  BY SMT, <1>2 DEF OperatorsExact
<1>4. SentinelExact
  BY <1>2 DEF SentinelExact, RegistryInit, NoResolver
<1>5. announced \in [Operators -> SUBSET (IdentityKeys \X Endpoints)]
  BY DEF RegistryInit
<1>. QED BY <1>1, <1>3, <1>4, <1>5 DEF RegistryInv

(* The invariant holds of every behaviour.                                 *)
LEMMA RegistryInvariant == RegistrySpec => []RegistryInv
<1>1. RegistryInit => RegistryInv
  BY RegistryStarts
<1>2. RegistryInv /\ RegistryTick => RegistryInv'
  <2>. SUFFICES ASSUME RegistryInv, RegistryTick PROVE RegistryInv'
    OBVIOUS
  <2>1. now' \in 1..MaxTime
    BY SMT, RegistryAssumption DEF RegistryTick, RegistryInv, RegistryTypeOK
  <2>2. UNCHANGED <<resolvers, operators, announced>>
    BY DEF RegistryTick
  <2>3. RegistryTypeOK'
    BY <2>1, <2>2 DEF RegistryInv, RegistryTypeOK
  <2>4. SentinelExact' /\ OperatorsExact'
    BY SMT, <2>2 DEF RegistryInv, SentinelExact, OperatorsExact
  <2>. QED BY <2>2, <2>3, <2>4 DEF RegistryInv
<1>3. RegistryInv /\ UNCHANGED registryVars => RegistryInv'
  BY DEF registryVars, RegistryInv, RegistryTypeOK, SentinelExact, OperatorsExact
<1>4. RegistryInv /\ [RegistryNext]_registryVars => RegistryInv'
  BY <1>2, <1>3, AnnounceStep, RevokeStep DEF RegistryNext, Registration
<1>. QED BY <1>1, <1>4, PTL DEF RegistrySpec

(* announce and revoke keep _operators an enumeration, without repetition, *)
(* of the operators that ever announced.                                   *)
THEOREM DirectoryEnumerates == RegistrySpec => []OperatorsExact
BY RegistryInvariant, PTL DEF RegistryInv

-----------------------------------------------------------------------------
(* The lookup.                                                             *)

Envelopes ==
    [key : IdentityKeys \cup {ZeroKey}, intact : BOOLEAN,
     result : Results \cup {NoResult}, proof : Proofs \cup {NoProof}]

LookupTypeOK ==
    /\ serving \in [Endpoints -> IdentityKeys \cup {ZeroKey}]
    /\ look \in [pc : {"idle", "asking", "crossCheck", "done"}, discover : BOOLEAN,
                 pinned : IdentityKeys \cup {ZeroKey}, endpoint : Endpoints \cup {NoEndpoint},
                 env : Envelopes, ok : BOOLEAN]

(* What the directory lists now, its operator has announced.               *)
ActiveAnnounced ==
    \A op \in Operators :
        resolvers[op].active => <<resolvers[op].pubKey, resolvers[op].endpoint>> \in announced[op]

pinnedAnnounced == \E op \in Operators : <<look.pinned, look.endpoint>> \in announced[op]

(* The three facts a lookup carries along: the chain's present answer is   *)
(* among those it has shown, the pair asked is an announced one, and the   *)
(* answer kept is of the pinned key.                                       *)
LookupInv ==
    /\ RegistryInv
    /\ LookupTypeOK
    /\ ActiveAnnounced
    /\ look.pc = "asking" => look.endpoint \in Endpoints
    /\ underWay => onchain \in shown
    /\ look.discover /\ (underWay \/ accepted) => pinnedAnnounced
    /\ look.discover /\ (look.pc = "crossCheck" \/ accepted) => look.env.key = look.pinned
    /\ AcceptedIsOnChain

(* The first entry activeResolvers returns is one that was announced.      *)
LEMMA ListedAnnounced ==
    ASSUME RegistryInv, ActiveAnnounced, activeResolvers # << >>
    PROVE  \E op \in Operators :
             /\ activeResolvers[1].pubKey \in IdentityKeys \cup {ZeroKey}
             /\ activeResolvers[1].endpoint \in Endpoints \cup {NoEndpoint}
             /\ <<activeResolvers[1].pubKey, activeResolvers[1].endpoint>> \in announced[op]
<1>. DEFINE active == {op \in Operators : resolvers[op].active}
            ops    == Subsequence(operators, active)
<1>1. operators \in Seq(Operators)
  BY DEF RegistryInv, RegistryTypeOK
<1>2. ops \in Seq(Operators \cap active)
  BY <1>1, SubsequenceKeeps
<1>3. activeResolvers =
        [i \in 1..Len(ops) |-> [operator |-> ops[i], pubKey |-> resolvers[ops[i]].pubKey,
                               endpoint |-> resolvers[ops[i]].endpoint]]
  BY DEF activeResolvers
<1>. HIDE DEF ops
<1>4. Len(ops) \in Nat /\ Len(ops) # 0
  <2>1. Len(ops) = 0 => 1..Len(ops) = {}
    BY SMT
  <2>. QED BY SMT, <1>2, <1>3, <2>1
<1>5. 1 \in 1..Len(ops) /\ ops[1] \in Operators /\ resolvers[ops[1]].active
  BY SMT, <1>2, <1>4
<1>6. /\ activeResolvers[1].pubKey = resolvers[ops[1]].pubKey
      /\ activeResolvers[1].endpoint = resolvers[ops[1]].endpoint
  BY <1>3, <1>5
<1>7. /\ resolvers[ops[1]].pubKey \in IdentityKeys \cup {ZeroKey}
      /\ resolvers[ops[1]].endpoint \in Endpoints \cup {NoEndpoint}
  BY <1>5 DEF RegistryInv, RegistryTypeOK
<1>. QED BY <1>5, <1>6, <1>7 DEF ActiveAnnounced

(* The steps of the directory: what was announced stays announced.         *)
LEMMA DirectoryStep ==
    ASSUME LookupInv, Directory
    PROVE  LookupInv'
<1>1. UNCHANGED lookupVars /\ RegistryInv
  BY DEF Directory, LookupInv
<1>2. RegistryInv'
  BY <1>1, AnnounceStep, RevokeStep DEF Directory, Registration
<1>3. ActiveAnnounced' /\ \A op \in Operators : announced[op] \subseteq announced'[op]
  <2>1. ASSUME NEW op \in Operators, NEW key \in IdentityKeys, NEW e \in Endpoints,
               announce(op, key, e)
        PROVE  ActiveAnnounced' /\ \A o \in Operators : announced[o] \subseteq announced'[o]
    <3>1. /\ resolvers' = [resolvers EXCEPT ![op] =
                             [pubKey |-> key, endpoint |-> e, updatedAt |-> now, active |-> TRUE]]
          /\ announced' = [announced EXCEPT ![op] = announced[op] \cup {<<key, e>>}]
      BY <2>1 DEF announce
    <3>2. /\ resolvers'[op].pubKey = key /\ resolvers'[op].endpoint = e
          /\ \A o \in Operators : o # op => resolvers'[o] = resolvers[o]
      BY <1>1, <3>1 DEF RegistryInv, RegistryTypeOK
    <3>3. /\ <<key, e>> \in announced'[op] /\ announced[op] \subseteq announced'[op]
          /\ \A o \in Operators : o # op => announced'[o] = announced[o]
      BY <1>1, <3>1 DEF RegistryInv
    <3>. QED BY <3>2, <3>3 DEF LookupInv, ActiveAnnounced
  <2>2. ASSUME NEW op \in Operators, revoke(op)
        PROVE  ActiveAnnounced' /\ \A o \in Operators : announced[o] \subseteq announced'[o]
    <3>1. announced' = announced /\ resolvers' = [resolvers EXCEPT ![op].active = FALSE]
      BY <2>2 DEF revoke
    <3>2. /\ ~resolvers'[op].active
          /\ \A o \in Operators : o # op => resolvers'[o] = resolvers[o]
      BY <1>1, <3>1 DEF RegistryInv, RegistryTypeOK
    <3>. QED BY <3>1, <3>2 DEF LookupInv, ActiveAnnounced
  <2>. QED BY <2>1, <2>2 DEF Directory, Registration
<1>4. pinnedAnnounced => pinnedAnnounced'
  BY <1>1, <1>3 DEF pinnedAnnounced, lookupVars
<1>. QED BY <1>1, <1>2, <1>3, <1>4
         DEF LookupInv, LookupTypeOK, lookupVars, underWay, accepted, AcceptedIsOnChain

(* The chain's answer changes, or a resolver does.                         *)
LEMMA WorldStep ==
    ASSUME LookupInv,
           \/ \E r \in Results \cup {NoResult} : ChainChanges(r)
           \/ \E e \in Endpoints, key \in IdentityKeys \cup {ZeroKey} : Serve(e, key)
    PROVE  LookupInv'
<1>1. UNCHANGED <<registryVars, look>>
  BY DEF ChainChanges, Serve
<1>2. RegistryInv' /\ ActiveAnnounced' /\ (pinnedAnnounced' <=> pinnedAnnounced)
  <2>1. UNCHANGED <<now, resolvers, operators, announced>>
    BY <1>1 DEF registryVars
  <2>2. RegistryInv'
    BY <2>1 DEF LookupInv, RegistryInv, RegistryTypeOK, SentinelExact, OperatorsExact
  <2>3. ActiveAnnounced' /\ (pinnedAnnounced' <=> pinnedAnnounced)
    BY <1>1, <2>1 DEF LookupInv, ActiveAnnounced, pinnedAnnounced
  <2>. QED BY <2>2, <2>3
<1>3. LookupTypeOK'
  <2>1. serving' \in [Endpoints -> IdentityKeys \cup {ZeroKey}]
    BY DEF ChainChanges, Serve, LookupInv, LookupTypeOK
  <2>. QED BY <1>1, <2>1 DEF LookupInv, LookupTypeOK
<1>4. /\ (underWay' <=> underWay) /\ (accepted' <=> accepted)
      /\ underWay => onchain' \in shown'
      /\ ~underWay => shown' = shown
  BY <1>1 DEF ChainChanges, Serve, LookupInv, underWay, accepted
<1>5. accepted => ~underWay
  BY DEF accepted, underWay
<1>. QED BY <1>1, <1>2, <1>3, <1>4, <1>5 DEF LookupInv, AcceptedIsOnChain

(* The lookup's own steps leave the directory and the chain alone.         *)
LEMMA OwnStep ==
    ASSUME LookupInv, UNCHANGED <<registryVars, serving>>
    PROVE  RegistryInv' /\ ActiveAnnounced'
           /\ serving' \in [Endpoints -> IdentityKeys \cup {ZeroKey}]
<1>1. UNCHANGED <<now, resolvers, operators, announced, serving>>
  BY DEF registryVars
<1>2. RegistryInv /\ ActiveAnnounced /\ serving \in [Endpoints -> IdentityKeys \cup {ZeroKey}]
  BY DEF LookupInv, LookupTypeOK
<1>3. RegistryInv'
  BY <1>1, <1>2 DEF RegistryInv, RegistryTypeOK, SentinelExact, OperatorsExact
<1>4. ActiveAnnounced'
  BY <1>1, <1>2 DEF ActiveAnnounced
<1>. QED BY <1>1, <1>2, <1>3, <1>4

(* Choosing whom to ask.                                                   *)
LEMMA BeginStep ==
    ASSUME LookupInv, Begin \/ DiscoverFails
    PROVE  LookupInv'
<1>0. UNCHANGED <<registryVars, onchain, serving>>
  BY DEF Begin, DiscoverFails
<1>1. RegistryInv' /\ ActiveAnnounced' /\ serving' \in [Endpoints -> IdentityKeys \cup {ZeroKey}]
  BY <1>0, OwnStep
<1>2. announced' = announced
  BY <1>0 DEF registryVars
<1>3. NoEnvelope \in Envelopes
  BY DEF NoEnvelope, Envelopes
<1>4. CASE DiscoverFails
  <2>1. look' = [pc |-> "done", discover |-> TRUE, pinned |-> ZeroKey, endpoint |-> NoEndpoint,
                 env |-> NoEnvelope, ok |-> FALSE]
    BY <1>4 DEF DiscoverFails, asking
  <2>2. LookupTypeOK'
    BY <1>1, <1>3, <2>1 DEF LookupTypeOK
  <2>3. ~underWay' /\ ~accepted' /\ look'.pc = "done"
    BY <2>1 DEF underWay, accepted
  <2>. QED BY <1>1, <2>2, <2>3 DEF LookupInv, AcceptedIsOnChain
<1>5. ASSUME NEW e \in Endpoints, look' = asking(FALSE, ZeroKey, e), Begin
      PROVE  LookupInv'
  <2>1. look' = [pc |-> "asking", discover |-> FALSE, pinned |-> ZeroKey, endpoint |-> e,
                 env |-> NoEnvelope, ok |-> FALSE]
    BY <1>5 DEF asking
  <2>2. LookupTypeOK'
    BY <1>1, <1>3, <2>1 DEF LookupTypeOK
  <2>3. onchain' \in shown'
    BY <1>0, <1>5 DEF Begin
  <2>. QED BY <1>1, <2>1, <2>2, <2>3 DEF LookupInv, AcceptedIsOnChain
<1>6. ASSUME activeResolvers # << >>, Begin,
             look' = asking(TRUE, activeResolvers[1].pubKey, activeResolvers[1].endpoint)
      PROVE  LookupInv'
  <2>1. look' = [pc |-> "asking", discover |-> TRUE, pinned |-> activeResolvers[1].pubKey,
                 endpoint |-> activeResolvers[1].endpoint, env |-> NoEnvelope, ok |-> FALSE]
    BY <1>6 DEF asking
  <2>2. PICK op \in Operators :
           /\ activeResolvers[1].pubKey \in IdentityKeys \cup {ZeroKey}
           /\ activeResolvers[1].endpoint \in Endpoints \cup {NoEndpoint}
           /\ <<activeResolvers[1].pubKey, activeResolvers[1].endpoint>> \in announced[op]
    BY <1>6, ListedAnnounced DEF LookupInv
  <2>3. LookupTypeOK'
    BY <1>1, <1>3, <2>1, <2>2 DEF LookupTypeOK
  <2>4. pinnedAnnounced' /\ look'.endpoint \in Endpoints
    BY SMT, <1>2, <2>1, <2>2 DEF pinnedAnnounced, LookupInv, RegistryInv
  <2>5. onchain' \in shown'
    BY <1>0, <1>6 DEF Begin
  <2>6. look'.pc = "asking" /\ ~accepted'
    BY <2>1 DEF accepted
  <2>. QED BY <1>1, <2>3, <2>4, <2>5, <2>6 DEF LookupInv, AcceptedIsOnChain
<1>. QED BY <1>4, <1>5, <1>6 DEF Begin

(* The program gives up, or prints an answer.                              *)
LEMMA EndedStep ==
    ASSUME LookupInv, UNCHANGED <<registryVars, onchain, shown, serving>>,
           underWay, NEW env \in Envelopes, NEW ok \in BOOLEAN, look' = ended(env, ok),
           ok /\ look.discover => env.key = look.pinned /\ env.result = onchain
    PROVE  LookupInv'
<1>1. RegistryInv' /\ ActiveAnnounced' /\ serving' \in [Endpoints -> IdentityKeys \cup {ZeroKey}]
  BY OwnStep
<1>2. NoEnvelope \in Envelopes
  BY DEF NoEnvelope, Envelopes
<1>3. /\ look'.pc = "done" /\ look'.ok = ok
      /\ look'.discover = look.discover
      /\ look'.pinned = look.pinned /\ look'.endpoint = look.endpoint
      /\ look'.env = IF ok THEN env ELSE NoEnvelope
      /\ LookupTypeOK'
  BY <1>1, <1>2 DEF ended, LookupInv, LookupTypeOK
<1>4. pinnedAnnounced' <=> pinnedAnnounced
  BY <1>3 DEF pinnedAnnounced, registryVars
<1>5. ~underWay' /\ (accepted' <=> ok) /\ look'.pc # "crossCheck"
  BY <1>3 DEF underWay, accepted
<1>6. onchain \in shown
  BY DEF LookupInv
<1>. QED BY <1>1, <1>3, <1>4, <1>5, <1>6 DEF LookupInv, AcceptedIsOnChain

(* An answer, or none.                                                     *)
LEMMA AnswerStep ==
    ASSUME LookupInv, Answer \/ NoAnswer
    PROVE  LookupInv'
<1>1. look.pc = "asking" /\ underWay /\ UNCHANGED <<registryVars, onchain, shown, serving>>
  BY DEF Answer, NoAnswer, underWay
<1>2. NoEnvelope \in Envelopes
  BY DEF NoEnvelope, Envelopes
<1>3. CASE NoAnswer
  BY <1>1, <1>2, <1>3, EndedStep DEF NoAnswer
<1>4. CASE Answer
  <2>1. PICK r \in Results \cup {NoResult}, p \in Proofs, intact \in BOOLEAN :
           /\ serving[look.endpoint] # ZeroKey
           /\ look' = afterAnswer([key |-> serving[look.endpoint], intact |-> intact,
                                  result |-> r, proof |-> p])
    BY <1>4 DEF Answer
  <2>. DEFINE env == [key |-> serving[look.endpoint], intact |-> intact,
                      result |-> r, proof |-> p]
  <2>2. env \in Envelopes
    BY <1>1 DEF LookupInv, LookupTypeOK, Envelopes
  <2>. HIDE DEF env
  <2>3. look' = ended(env, FALSE) => LookupInv'
    BY <1>1, <2>2, EndedStep
  <2>4. ASSUME fromPinned(env), look.discover, look' = [look EXCEPT !.pc = "crossCheck", !.env = env]
        PROVE  LookupInv'
    <3>1. /\ look'.pc = "crossCheck" /\ look'.env = env /\ look'.discover = look.discover
          /\ look'.pinned = look.pinned /\ look'.endpoint = look.endpoint
      BY <2>4 DEF LookupInv, LookupTypeOK
    <3>2. RegistryInv' /\ ActiveAnnounced'
          /\ serving' \in [Endpoints -> IdentityKeys \cup {ZeroKey}]
      BY <1>1, OwnStep
    <3>3. LookupTypeOK'
      BY <2>2, <2>4, <3>2 DEF LookupInv, LookupTypeOK
    <3>4. pinnedAnnounced' <=> pinnedAnnounced
      BY <1>1, <3>1 DEF pinnedAnnounced, registryVars
    <3>5. env.key = look.pinned
      BY <2>4 DEF fromPinned
    <3>6. underWay' /\ ~accepted' /\ onchain \in shown
      BY <1>1, <3>1 DEF underWay, accepted, LookupInv
    <3>. QED BY <1>1, <3>1, <3>2, <3>3, <3>4, <3>5, <3>6 DEF LookupInv, AcceptedIsOnChain
  <2>5. ~look.discover /\ look' = ended(env, env.result = NoResult \/ proofOK(env)) => LookupInv'
    <3>1. (env.result = NoResult \/ proofOK(env)) \in BOOLEAN
      BY DEF proofOK, verifyZK
    <3>. QED BY <1>1, <2>2, <3>1, EndedStep
  <2>. QED BY <2>1, <2>3, <2>4, <2>5 DEF afterAnswer, env
<1>. QED BY <1>3, <1>4

(* The comparison with the chain, or no chain to compare with.             *)
LEMMA CrossCheckStep ==
    ASSUME LookupInv, crossCheck \/ CrossCheckFails
    PROVE  LookupInv'
<1>1. look.pc = "crossCheck" /\ underWay /\ UNCHANGED <<registryVars, onchain, shown, serving>>
  BY DEF crossCheck, CrossCheckFails, underWay
<1>2. look.env \in Envelopes
  BY DEF LookupInv, LookupTypeOK
<1>3. CASE CrossCheckFails
  BY <1>1, <1>2, <1>3, EndedStep DEF CrossCheckFails
<1>4. CASE crossCheck
  <2>. DEFINE ok == /\ diffAgainstChain(onchain, look.env.result)
                    /\ look.env.result = NoResult \/ proofOK(look.env)
  <2>1. look' = ended(look.env, ok) /\ ok \in BOOLEAN
    BY <1>4 DEF crossCheck
  <2>2. look.discover => look.env.key = look.pinned
    BY <1>1 DEF LookupInv
  <2>3. ok => look.env.result = onchain
    BY DEF diffAgainstChain
  <2>. HIDE DEF ok
  <2>. QED BY <1>1, <1>2, <2>1, <2>2, <2>3, EndedStep
<1>. QED BY <1>3, <1>4

(* The invariant holds of every behaviour.                                 *)
LEMMA LookupInvariant == Spec => []LookupInv
<1>1. Init => LookupInv
  <2>. SUFFICES ASSUME Init PROVE LookupInv
    OBVIOUS
  <2>1. RegistryInv
    BY RegistryStarts DEF Init
  <2>2. look = [pc |-> "idle", discover |-> FALSE, pinned |-> ZeroKey, endpoint |-> NoEndpoint,
                env |-> NoEnvelope, ok |-> FALSE]
    BY DEF Init, asking
  <2>3. LookupTypeOK
    <3>1. NoEnvelope \in Envelopes
      BY DEF NoEnvelope, Envelopes
    <3>2. serving \in [Endpoints -> IdentityKeys \cup {ZeroKey}]
      BY DEF Init
    <3>. QED BY <2>2, <3>1, <3>2 DEF LookupTypeOK
  <2>4. ActiveAnnounced
    BY DEF Init, RegistryInit, ActiveAnnounced, NoResolver
  <2>. QED BY <2>1, <2>2, <2>3, <2>4 DEF LookupInv, underWay, accepted, AcceptedIsOnChain
<1>2. LookupInv /\ UNCHANGED vars => LookupInv'
  <2>. SUFFICES ASSUME LookupInv, UNCHANGED vars PROVE LookupInv'
    OBVIOUS
  <2>1. UNCHANGED <<registryVars, serving>> /\ UNCHANGED <<onchain, shown, look, announced>>
    BY DEF vars, lookupVars, registryVars
  <2>2. RegistryInv' /\ ActiveAnnounced'
    BY <2>1, OwnStep
  <2>. QED BY <2>1, <2>2 DEF LookupInv, LookupTypeOK, pinnedAnnounced, underWay, accepted,
                             AcceptedIsOnChain
<1>3. LookupInv /\ [Next]_vars => LookupInv'
  BY <1>2, DirectoryStep, WorldStep, BeginStep, AnswerStep, CrossCheckStep DEF Next
<1>. QED BY <1>1, <1>3, PTL DEF Spec

(* crossCheck: what a lookup that found its resolver in the directory      *)
(* accepts, the chain answered during the lookup.                          *)
THEOREM FailsClosed == Spec => []AcceptedIsOnChain
BY LookupInvariant, PTL DEF LookupInv

(* The key pinned by --discover: the answer accepted is of an identity     *)
(* that some operator announced for the endpoint asked.                    *)
THEOREM Attributed == Spec => []AcceptedIsAnnounced
<1>1. LookupInv => AcceptedIsAnnounced
  BY DEF LookupInv, AcceptedIsAnnounced, pinnedAnnounced
<1>. QED BY <1>1, LookupInvariant, PTL

(* crossCheck and checkEnvelope: an honest answer about a record that does *)
(* not change passes the comparison with the chain and the proof's check.  *)
THEOREM HonestPasses == Spec => []NoFalseAlarm
<1>1. LookupInv => NoFalseAlarm
  <2>. SUFFICES ASSUME LookupInv, look.pc = "crossCheck", shown = {look.env.result},
                       look.env.proof = proveRecord(theName, look.env.result)
                PROVE  diffAgainstChain(onchain, look.env.result) /\ proofOK(look.env)
    BY DEF NoFalseAlarm
  <2>1. onchain = look.env.result
    BY DEF LookupInv, underWay
  <2>2. look.env.proof # NoProof => look.env.proof.of = look.env.result.commitment
    BY SMT DEF proveRecord
  <2>. QED BY <2>1, <2>2 DEF diffAgainstChain, proofOK, verifyZK
<1>. QED BY <1>1, LookupInvariant, PTL

-----------------------------------------------------------------------------
(* Configuration: the commands and the resolver are about the same         *)
(* contracts, for any environment, .env file and artifacts.                *)

(* What the first n lines of the file leave in a variable.                 *)
assignedWithin(v, n) == {k \in 1..n : dotEnv[k][1] = v}

afterLines(v, n) ==
    IF given[v] # Unset THEN given[v]
    ELSE IF assignedWithin(v, n) = {} THEN Unset
    ELSE dotEnv[least(assignedWithin(v, n))][2]

(* The addresses that FromEnv makes of the environment and the artifacts.  *)
named == getEnv("DEPLOYMENTS", getEnv("DDNS_DEPLOYMENTS", Empty))
own(c) == getEnv(variable[c], Empty)
needed ==
    \/ own("NamespaceDApp") = Empty \/ own("RecordSchemaRegistry") = Empty
    \/ getEnvBool("ENABLE_SHOWCASE")
fromArtifact ==
    IF needed THEN loadDeployments(IF named = Empty THEN firstExisting ELSE named)
              ELSE noAddresses
addresses ==
    [c \in Contracts |->
        IF c \in {"NamespaceDApp", "RecordSchemaRegistry"} /\ own(c) # Empty
          THEN own(c) ELSE fromArtifact[c]]

(* loadDotEnv lets the environment win over the file and an earlier line   *)
(* over a later one, and the configuration is made when it is done.        *)
ConfInv ==
    /\ given \in Environments
    /\ DOMAIN environ = variables
    /\ dotEnv \in Seq(Lines)
    /\ line \in 0..Len(dotEnv)
    /\ artifacts \in SUBSET Paths
    /\ \A v \in variables : environ[v] = afterLines(v, line)
    /\ cfg # unknown => line = Len(dotEnv) /\ cfg \in {refused, addresses}

(* The least of a set of numbers is in it and is not above any other.      *)
LEMMA LeastIsLeast ==
    ASSUME NEW T \in SUBSET Nat, T # {}
    PROVE  least(T) \in T /\ \A k \in T : least(T) <= k
<1>1. \E m \in T : \A k \in T : m <= k
  BY LeastNumber
<1>. QED BY <1>1 DEF least

(* No variable has been read from the file, and no address is known.       *)
LEMMA ConfStarts ==
    ASSUME ConfInit
    PROVE  ConfInv
<1>1. /\ given \in Environments /\ environ = given /\ line = 0 /\ cfg = unknown
      /\ artifacts \in SUBSET Paths
  BY DEF ConfInit
<1>2. DOMAIN environ = variables
  BY <1>1, ConfAssumption
<1>3. dotEnv \in Seq(Lines) /\ 0 \in 0..Len(dotEnv)
  <2>1. PICK n \in 0..MaxLines : dotEnv \in [1..n -> Lines]
    BY DEF ConfInit
  <2>2. n \in Nat
    BY SMT, ConfAssumption
  <2>. QED BY SMT, <2>1, <2>2
<1>4. ASSUME NEW v \in variables PROVE environ[v] = afterLines(v, 0)
  <2>1. assignedWithin(v, 0) = {}
    BY SMT DEF assignedWithin
  <2>. QED BY <1>1, <2>1 DEF afterLines
<1>. QED BY <1>1, <1>2, <1>3, <1>4 DEF ConfInv

(* A line counts if nothing was said of its variable before.               *)
LEMMA LineRead ==
    ASSUME ConfInv, loadDotEnv
    PROVE  ConfInv'
<1>. DEFINE l == dotEnv[line + 1]
<1>1. /\ line < Len(dotEnv) /\ line' = line + 1
      /\ environ' = IF unset(l[1]) THEN [environ EXCEPT ![l[1]] = l[2]] ELSE environ
      /\ given' = given /\ dotEnv' = dotEnv /\ artifacts' = artifacts /\ cfg' = cfg
  BY DEF loadDotEnv
<1>2. /\ given \in Environments /\ DOMAIN environ = variables /\ dotEnv \in Seq(Lines)
      /\ line \in 0..Len(dotEnv) /\ artifacts \in SUBSET Paths
      /\ \A v \in variables : environ[v] = afterLines(v, line)
      /\ cfg # unknown => line = Len(dotEnv)
  BY DEF ConfInv
<1>3. /\ l \in Lines /\ line \in Nat /\ line + 1 \in 1..Len(dotEnv) /\ Len(dotEnv) \in Nat
  BY SMT, <1>1, <1>2
<1>4. l[1] \in variables /\ l[2] # Unset
  BY <1>3, ConfAssumption
<1>. HIDE DEF l
<1>5. cfg' = unknown
  BY SMT, <1>1, <1>2 DEF unknown
<1>6. line' \in 0..Len(dotEnv') /\ DOMAIN environ' = variables
  BY SMT, <1>1, <1>2, <1>3
<1>7. ASSUME NEW v \in variables PROVE environ'[v] = afterLines(v, line)'
  <2>. DEFINE A == assignedWithin(v, line)
              B == assignedWithin(v, line + 1)
  <2>1. afterLines(v, line)' = IF given[v] # Unset THEN given[v]
                               ELSE IF B = {} THEN Unset ELSE dotEnv[least(B)][2]
    BY <1>1 DEF afterLines, assignedWithin
  <2>2. environ[v] = IF given[v] # Unset THEN given[v]
                     ELSE IF A = {} THEN Unset ELSE dotEnv[least(A)][2]
    BY <1>2 DEF afterLines
  <2>3. B = IF l[1] = v THEN A \cup {line + 1} ELSE A
    BY SMT, <1>3 DEF assignedWithin, l
  <2>4. A \in SUBSET Nat /\ B \in SUBSET Nat /\ \A k \in A : k <= line
    BY SMT, <1>3 DEF assignedWithin
  <2>5. \A k \in A : k \in 1..Len(dotEnv)
    BY SMT, <1>3 DEF assignedWithin
  <2>. HIDE DEF A, B
  <2>6. A # {} => dotEnv[least(A)][2] # Unset
    <3>. SUFFICES ASSUME A # {} PROVE dotEnv[least(A)][2] # Unset
      OBVIOUS
    <3>1. least(A) \in A
      BY <2>4, LeastIsLeast
    <3>2. dotEnv[least(A)] \in Lines
      BY SMT, <1>2, <2>5, <3>1
    <3>. QED BY <3>2, ConfAssumption
  <2>7. environ[v] = Unset <=> given[v] = Unset /\ A = {}
    BY <2>2, <2>6
  <2>8. CASE l[1] # v
    BY <1>1, <1>2, <1>4, <2>1, <2>2, <2>3, <2>8
  <2>9. CASE l[1] = v /\ environ[v] # Unset
    <3>1. environ'[v] = environ[v]
      BY <1>1, <2>9 DEF unset
    <3>2. given[v] = Unset => A # {} /\ B # {} /\ least(B) = least(A)
      <4>. SUFFICES ASSUME given[v] = Unset PROVE A # {} /\ B # {} /\ least(B) = least(A)
        OBVIOUS
      <4>1. A # {} /\ B # {} /\ B = A \cup {line + 1}
        BY <2>3, <2>7, <2>9
      <4>2. least(A) \in A /\ \A k \in A : least(A) <= k
        BY <2>4, <4>1, LeastIsLeast
      <4>3. least(B) \in B /\ \A k \in B : least(B) <= k
        BY <2>4, <4>1, LeastIsLeast
      <4>4. least(B) <= least(A) /\ least(A) <= line /\ least(A) \in Nat /\ least(B) \in Nat
        BY <2>4, <4>1, <4>2, <4>3
      <4>5. least(B) # line + 1
        BY SMT, <1>3, <4>4
      <4>6. least(A) <= least(B)
        BY <4>1, <4>2, <4>3, <4>5
      <4>. QED BY SMT, <4>1, <4>4, <4>6
    <3>. QED BY <2>1, <2>2, <3>1, <3>2
  <2>10. CASE l[1] = v /\ environ[v] = Unset
    <3>1. environ'[v] = l[2]
      BY <1>1, <1>2, <2>10 DEF unset
    <3>2. given[v] = Unset /\ B = {line + 1}
      BY <2>3, <2>7, <2>10
    <3>3. least(B) = line + 1
      BY <2>4, <3>2, LeastIsLeast
    <3>. QED BY <2>1, <3>1, <3>2, <3>3 DEF l
  <2>. QED BY <2>8, <2>9, <2>10
<1>. QED BY <1>1, <1>2, <1>5, <1>6, <1>7 DEF ConfInv

(* The configuration is made of the environment as the file left it.       *)
LEMMA ConfigurationMade ==
    ASSUME ConfInv, FromEnv
    PROVE  ConfInv'
<1>0. line = Len(dotEnv)
  BY DEF FromEnv
<1>1. UNCHANGED <<given, environ, dotEnv, line, artifacts>>
  BY DEF FromEnv
<1>2. addresses' = addresses
  <2>1. named' = named /\ needed' = needed /\ \A c : own(c)' = own(c)
    BY <1>1 DEF named, needed, own, getEnv, getEnvBool
  <2>2. firstExisting' = firstExisting
    BY <1>1 DEF firstExisting, candidates, forSepolia
  <2>3. \A p : loadDeployments(p)' = loadDeployments(p)
    BY <1>1 DEF loadDeployments
  <2>4. fromArtifact' = fromArtifact
    BY <2>1, <2>2, <2>3 DEF fromArtifact
  <2>. QED BY <2>1, <2>4 DEF addresses
<1>3. cfg' \in {refused, addresses}
  BY DEF FromEnv, addresses, fromArtifact, named, needed, own
<1>4. \A v \in variables : environ'[v] = afterLines(v, line)'
  BY <1>1 DEF ConfInv, afterLines, assignedWithin
<1>5. /\ given' \in Environments /\ DOMAIN environ' = variables /\ dotEnv' \in Seq(Lines)
      /\ line' \in 0..Len(dotEnv') /\ artifacts' \in SUBSET Paths /\ line' = Len(dotEnv')
  BY <1>0, <1>1 DEF ConfInv
<1>. QED BY <1>2, <1>3, <1>4, <1>5 DEF ConfInv

(* The invariant holds of every behaviour.                                 *)
LEMMA ConfInvariant == ConfSpec => []ConfInv
<1>1. ConfInit => ConfInv
  BY ConfStarts
<1>2. ConfInv /\ UNCHANGED confVars => ConfInv'
  <2>. SUFFICES ASSUME ConfInv, UNCHANGED confVars PROVE ConfInv'
    OBVIOUS
  <2>1. UNCHANGED <<given, environ, dotEnv, line, artifacts, cfg>>
    BY DEF confVars
  <2>2. addresses' = addresses
    <3>1. named' = named /\ needed' = needed /\ \A c : own(c)' = own(c)
      BY <2>1 DEF named, needed, own, getEnv, getEnvBool
    <3>2. firstExisting' = firstExisting /\ \A p : loadDeployments(p)' = loadDeployments(p)
      BY <2>1 DEF firstExisting, candidates, forSepolia, loadDeployments
    <3>. QED BY <3>1, <3>2 DEF addresses, fromArtifact
  <2>3. \A v \in variables : environ'[v] = afterLines(v, line)'
    BY <2>1 DEF ConfInv, afterLines, assignedWithin
  <2>. QED BY <2>1, <2>2, <2>3 DEF ConfInv
<1>3. ConfInv /\ [ConfNext]_confVars => ConfInv'
  BY <1>2, LineRead, ConfigurationMade DEF ConfNext
<1>. QED BY <1>1, <1>3, PTL DEF ConfSpec

(* Once the file is read, the environment holds what the resolver was      *)
(* told, and nothing where it was told nothing.                            *)
LEMMA EnvironIsTold ==
    ASSUME ConfInv, line = Len(dotEnv), NEW v \in variables
    PROVE  /\ environ[v] = told(v) \/ (environ[v] = Unset /\ told(v) = Empty)
           /\ told(v) # Unset
           /\ assignedInFile(v) = {} => environ[v] = given[v]
           /\ told(v) = Empty => given[v] \in {Unset, Empty}
<1>1. dotEnv \in Seq(Lines)
  BY DEF ConfInv
<1>2. assignedInFile(v) = assignedWithin(v, line)
  BY SMT, <1>1 DEF assignedInFile, assignedWithin
<1>3. environ[v] = afterLines(v, line)
  BY DEF ConfInv
<1>4. assignedInFile(v) # {} => dotEnv[least(assignedInFile(v))][2] # Unset
  <2>. SUFFICES ASSUME assignedInFile(v) # {} PROVE dotEnv[least(assignedInFile(v))][2] # Unset
    OBVIOUS
  <2>. DEFINE A == assignedInFile(v)
  <2>1. A \in SUBSET Nat /\ A \subseteq 1..Len(dotEnv)
    BY SMT, <1>1 DEF assignedInFile
  <2>. HIDE DEF A
  <2>2. least(A) \in A
    BY <2>1, LeastIsLeast DEF A
  <2>3. \A k \in 1..Len(dotEnv) : dotEnv[k] \in Lines
    BY SMT, <1>1
  <2>4. dotEnv[least(A)] \in Lines
    BY <2>1, <2>2, <2>3
  <2>. QED BY <2>4, ConfAssumption DEF A
<1>. QED BY <1>2, <1>3, <1>4, ConfAssumption DEF told, afterLines

(* The artifact that is taken if none is named.                            *)
LEMMA FirstOfTheNetwork ==
    ASSUME artifacts \in SUBSET Paths
    PROVE  /\ firstExisting \in artifacts \cup {Empty}
           /\ ~forSepolia /\ local \in artifacts => firstExisting = local
           /\ forSepolia /\ {sepolia, upDown[sepolia]} \cap artifacts # {}
                => firstExisting \in {sepolia, upDown[sepolia]}
<1>. DEFINE there == {n \in DOMAIN candidates : candidates[n] \in artifacts}
<1>1. /\ DOMAIN candidates = 1..4
      /\ ~forSepolia => candidates[1] = local
      /\ forSepolia => candidates[1] = sepolia /\ candidates[2] = upDown[sepolia]
  BY SMT DEF candidates
<1>2. there \in SUBSET Nat /\ there \in SUBSET (1..4)
  BY SMT, <1>1
<1>3. firstExisting = IF there = {} THEN Empty ELSE candidates[least(there)]
  BY DEF firstExisting
<1>4. there # {} => least(there) \in there /\ \A k \in there : least(there) <= k
  BY <1>2, LeastIsLeast
<1>5. \A n \in 1..4 : n \in there <=> candidates[n] \in artifacts
  BY <1>1
<1>. DEFINE m == least(there)
<1>. HIDE DEF there, m
<1>6. firstExisting \in artifacts \cup {Empty}
  BY <1>2, <1>3, <1>4, <1>5
<1>0. there # {} => m \in 1..4 /\ \A k \in there : m <= k
  BY <1>2, <1>4 DEF m
<1>7. ~forSepolia /\ local \in artifacts => firstExisting = local
  <2>. SUFFICES ASSUME ~forSepolia, local \in artifacts PROVE firstExisting = local
    OBVIOUS
  <2>1. 1 \in 1..4
    BY SMT
  <2>2. 1 \in there
    BY <1>1, <1>5, <2>1
  <2>3. m = 1
    BY SMT, <1>0, <2>2
  <2>. QED BY <1>1, <1>3, <2>2, <2>3 DEF m
<1>8. ASSUME forSepolia, {sepolia, upDown[sepolia]} \cap artifacts # {}
      PROVE  firstExisting \in {sepolia, upDown[sepolia]}
  <2>1. 1 \in there \/ 2 \in there
    BY SMT, <1>1, <1>5, <1>8
  <2>2. m = 1 \/ m = 2
    BY SMT, <1>0, <2>1
  <2>. QED BY <1>1, <1>3, <1>8, <2>1, <2>2 DEF m
<1>. QED BY <1>6, <1>7, <1>8

(* What is loaded from an artifact is one artifact's.                      *)
LEMMA LoadedFromOne ==
    ASSUME artifacts \in SUBSET Paths, NEW path
    PROVE  \E p \in artifacts \cup {Empty} :
             /\ loadDeployments(path) = IF p = Empty THEN noAddresses ELSE contents[p]
             /\ path \in artifacts \cup {Empty} => p = path
<1>0. Empty \notin artifacts
  BY ConfAssumption
<1>1. CASE path = Empty
  BY <1>1 DEF loadDeployments
<1>2. CASE path # Empty /\ path \in artifacts
  <2>1. loadDeployments(path) = contents[path]
    BY <1>2 DEF loadDeployments
  <2>. QED BY <1>2, <2>1
<1>3. CASE path # Empty /\ path \notin artifacts /\ upDown[path] \in artifacts
  <2>1. loadDeployments(path) = contents[upDown[path]]
    BY <1>3 DEF loadDeployments
  <2>. QED BY <1>0, <1>3, <2>1
<1>4. CASE path # Empty /\ path \notin artifacts /\ upDown[path] \notin artifacts
  <2>1. loadDeployments(path) = noAddresses
    BY <1>4 DEF loadDeployments
  <2>. QED BY <1>4, <2>1
<1>. QED BY <1>1, <1>2, <1>3, <1>4

(* The invariant is enough.                                                *)
LEMMA ConfInvImplies ==
    ASSUME ConfInv
    PROVE  SameDeployment
<1>. SUFFICES ASSUME configured PROVE SameDeployment
  BY DEF SameDeployment
<1>1. line = Len(dotEnv) /\ cfg = addresses /\ artifacts \in SUBSET Paths
  BY DEF ConfInv, configured
<1>. DEFINE Told(v) == told(v)
            path == IF named = Empty THEN firstExisting ELSE named
            both == {"NamespaceDApp", "RecordSchemaRegistry"}
<1>2. \A v \in variables :
        /\ environ[v] = Told(v) \/ (environ[v] = Unset /\ Told(v) = Empty)
        /\ Told(v) # Unset
        /\ assignedInFile(v) = {} => environ[v] = given[v]
        /\ Told(v) = Empty => given[v] \in {Unset, Empty}
  BY <1>1, EnvironIsTold
<1>3. /\ \A c \in Contracts : variable[c] \in variables
      /\ {"DEPLOYMENTS", "DDNS_DEPLOYMENTS", "RPC_URL"} \subseteq variables
      /\ both \subseteq Contracts /\ {"ResolverRegistry", "ResolverIncentives"} \subseteq Contracts
  BY DEF variables, Contracts
<1>. HIDE DEF Told, path
<1>4. \A v \in variables : \A d : getEnv(v, d) = IF Told(v) = Empty THEN d ELSE Told(v)
  BY <1>2, ConfAssumption DEF getEnv
<1>5. \A c \in Contracts : own(c) = Told(variable[c])
  BY <1>3, <1>4 DEF own
<1>6. named = IF Told("DEPLOYMENTS") # Empty THEN Told("DEPLOYMENTS") ELSE Told("DDNS_DEPLOYMENTS")
  BY <1>3, <1>4 DEF named
<1>7. \A c \in Contracts :
        cfg[c] = IF c \in both /\ own(c) # Empty THEN own(c) ELSE fromArtifact[c]
  BY <1>1 DEF addresses
<1>8. ASSUME \A c \in Contracts : Told(variable[c]) = Empty,
             Told("DEPLOYMENTS") = Empty, assignedInFile("DDNS_DEPLOYMENTS") = {},
             given["DDNS_DEPLOYMENTS"] \notin {Unset, Empty} \/ ~forSepolia,
             NEW c \in Contracts
      PROVE  addressOf(c, Empty) \in {Empty, cfg[c]}
  <2>1. needed /\ own(c) = Empty
    BY <1>3, <1>5, <1>8 DEF needed
  <2>2. cfg[c] = loadDeployments(path)[c]
    BY <1>7, <2>1 DEF fromArtifact, path
  <2>3. deploymentsFlag \in artifacts => path = deploymentsFlag
    <3>1. environ["DDNS_DEPLOYMENTS"] = given["DDNS_DEPLOYMENTS"]
      BY <1>2, <1>3, <1>8
    <3>2. CASE given["DDNS_DEPLOYMENTS"] \notin {Unset, Empty}
      <4>1. Told("DDNS_DEPLOYMENTS") = given["DDNS_DEPLOYMENTS"]
        BY <1>2, <1>3, <3>1, <3>2
      <4>. QED BY <1>6, <1>8, <3>2, <4>1 DEF deploymentsFlag, orElse, path
    <3>3. CASE given["DDNS_DEPLOYMENTS"] \in {Unset, Empty}
      <4>1. Told("DDNS_DEPLOYMENTS") = Empty
        BY <1>2, <1>3, <3>1, <3>3
      <4>2. deploymentsFlag = local /\ named = Empty /\ ~forSepolia
        BY <1>6, <1>8, <3>3, <4>1 DEF deploymentsFlag, orElse
      <4>. QED BY <1>1, <4>2, FirstOfTheNetwork DEF path
    <3>. QED BY <3>2, <3>3
  <2>4. Empty \notin artifacts
    BY <1>1, ConfAssumption
  <2>5. deploymentsFlag \in artifacts => cfg[c] = contents[deploymentsFlag][c]
    BY <2>2, <2>3, <2>4 DEF loadDeployments
  <2>6. given[variable[c]] \in {Unset, Empty}
    BY <1>2, <1>3, <1>8
  <2>. QED BY <2>5, <2>6 DEF addressOf, orElse
<1>9. ASSUME NEW c \in both, Told(variable[c]) # Empty PROVE cfg[c] = Told(variable[c])
  BY <1>3, <1>5, <1>7, <1>9
<1>10. \E p \in artifacts \cup {Empty} :
         /\ \A c \in Contracts :
              cfg[c] \in {Told(variable[c]), IF p = Empty THEN Empty ELSE contents[p][c]}
         /\ /\ p # Empty /\ Told("DEPLOYMENTS") = Empty /\ Told("DDNS_DEPLOYMENTS") = Empty
            /\ Told("RPC_URL") = "sepolia"
            /\ {sepolia, upDown[sepolia]} \cap artifacts # {}
            => p \in {sepolia, upDown[sepolia]}
  <2>1. CASE ~needed
    <3>1. \A c \in Contracts : fromArtifact[c] = Empty
      BY <2>1 DEF fromArtifact, noAddresses
    <3>. QED BY <1>5, <1>7, <3>1
  <2>2. CASE needed
    <3>1. fromArtifact = loadDeployments(path)
      BY <2>2 DEF fromArtifact, path
    <3>2. PICK p \in artifacts \cup {Empty} :
             /\ loadDeployments(path) = IF p = Empty THEN noAddresses ELSE contents[p]
             /\ path \in artifacts \cup {Empty} => p = path
      BY <1>1, LoadedFromOne
    <3>3. \A c \in Contracts : fromArtifact[c] = IF p = Empty THEN Empty ELSE contents[p][c]
      BY <3>1, <3>2 DEF noAddresses
    <3>4. \A c \in Contracts :
            cfg[c] \in {Told(variable[c]), IF p = Empty THEN Empty ELSE contents[p][c]}
      BY <1>5, <1>7, <3>3
    <3>5. ASSUME Told("DEPLOYMENTS") = Empty, Told("DDNS_DEPLOYMENTS") = Empty,
                 Told("RPC_URL") = "sepolia", {sepolia, upDown[sepolia]} \cap artifacts # {}
          PROVE  p \in {sepolia, upDown[sepolia]}
      <4>1. environ["RPC_URL"] = "sepolia"
        BY <1>2, <1>3, <3>5, ConfAssumption
      <4>2. forSepolia /\ path = firstExisting
        BY <1>6, <3>5, <4>1 DEF forSepolia, path
      <4>3. /\ firstExisting \in artifacts \cup {Empty}
            /\ firstExisting \in {sepolia, upDown[sepolia]}
        BY <1>1, <3>5, <4>2, FirstOfTheNetwork
      <4>. QED BY <3>2, <4>2, <4>3
    <3>. QED BY <3>4, <3>5
  <2>. QED BY <2>1, <2>2
<1>. QED
  BY <1>3, <1>8, <1>9, <1>10
  DEF SameDeployment, resolveAddrs, namespaceAddr, resolverRegistryAddr, incentivesAddr, Told

(* FromEnv, loadDotEnv and the commands' addressOf agree on the contracts. *)
THEOREM OneDeployment == ConfSpec => []SameDeployment
<1>1. ConfInv => SameDeployment
  BY ConfInvImplies
<1>. QED BY <1>1, ConfInvariant, PTL

-----------------------------------------------------------------------------
(* QuerySelector: however a selector is written, the same is made of it,   *)
(* for any keys and values and any number of fragments.                    *)

(* What CanonicalSelector demands of a pair, and what it makes of it.      *)
good(k, v) == canonKey(k) \in selKey /\ canonValue(canonKey(k), v) # Error

(* The canonical key of a key, and of one that ParsePairs has lowered.     *)
LEMMA CanonKey ==
    ASSUME NEW k \in RawKeys
    PROVE  /\ lower[k] \in RawKeys /\ canonKey(k) \in RawKeys
           /\ canonKey(lower[k]) = canonKey(k)
           /\ k \in selKey => lower[k] = k /\ canonKey(k) = k
<1>1. lower \in [RawKeys -> RawKeys] /\ trimKey \in [RawKeys -> RawKeys]
  BY SelectorAssumption
<1>2. lower[k] \in RawKeys /\ trimKey[k] \in RawKeys
  BY <1>1
<1>3. lower[lower[k]] = lower[k] /\ lower[trimKey[k]] = trimKey[lower[k]]
      /\ lower[trimKey[lower[k]]] = trimKey[lower[lower[k]]]
  BY <1>2, SelectorAssumption
<1>4. k \in selKey => lower[k] = k /\ trimKey[k] = k
  BY SelectorAssumption
<1>. QED BY <1>1, <1>2, <1>3, <1>4 DEF canonKey

(* The four cases of canonValue.                                           *)
LEMMA CanonValue ==
    ASSUME NEW k, NEW x
    PROVE  /\ k = "port" => canonValue(k, x) = IF atoi[trim[x]] \in Ports THEN itoa[atoi[trim[x]]]
                                               ELSE Error
           /\ k = "transport" =>
                canonValue(k, x) = IF upper[trim[x]] \in KnownTransports THEN upper[trim[x]] ELSE Error
           /\ k = "service" =>
                canonValue(k, x) = IF upper[trim[x]] \in KnownServices THEN upper[trim[x]] ELSE Error
           /\ k \notin Known => canonValue(k, x) = IF trim[x] \in selVal THEN trim[x] ELSE Error
<1>1. CASE k = "port"
  BY <1>1 DEF canonValue, Known
<1>2. CASE k = "transport"
  BY <1>2 DEF canonValue, Known
<1>3. CASE k = "service"
  BY <1>3 DEF canonValue, Known
<1>4. CASE k \notin Known
  BY <1>4 DEF canonValue, Known
<1>. QED BY <1>1, <1>2, <1>3, <1>4 DEF Known

(* A canonical value is a value, and it is its own canonical value.        *)
LEMMA CanonValueStays ==
    ASSUME NEW k, NEW x \in RawValues, canonValue(k, x) # Error
    PROVE  /\ canonValue(k, x) \in RawValues
           /\ canonValue(k, canonValue(k, x)) = canonValue(k, x)
<1>. DEFINE w == canonValue(k, x)
            v == trim[x]
<1>1. v \in RawValues /\ trim[v] = v /\ upper[v] \in RawValues
  BY SelectorAssumption
<1>2. CASE k = "port"
  <2>1. atoi[v] \in Ports /\ w = itoa[atoi[v]]
    BY <1>2, CanonValue
  <2>0. \A u \in RawValues : atoi[u] \in Ports =>
          /\ itoa[atoi[u]] \in RawValues /\ trim[itoa[atoi[u]]] = itoa[atoi[u]]
          /\ atoi[itoa[atoi[u]]] = atoi[u]
    BY SelectorAssumption
  <2>. HIDE DEF w, v
  <2>2. w \in RawValues /\ trim[w] = w /\ atoi[w] = atoi[v]
    BY <1>1, <2>0, <2>1
  <2>3. atoi[trim[w]] \in Ports /\ itoa[atoi[trim[w]]] = w
    BY <2>1, <2>2
  <2>4. canonValue(k, w) = w
    BY <1>2, <2>3, CanonValue
  <2>. QED BY <2>2, <2>4 DEF w
<1>3. CASE k = "transport"
  <2>1. w \in KnownTransports
    BY <1>3, CanonValue
  <2>2. w \in RawValues /\ trim[w] = w /\ upper[w] = w
    BY <2>1, SelectorAssumption
  <2>. HIDE DEF w
  <2>3. canonValue(k, w) = w
    BY <1>3, <2>1, <2>2, CanonValue
  <2>. QED BY <2>2, <2>3 DEF w
<1>4. CASE k = "service"
  <2>1. w \in KnownServices
    BY <1>4, CanonValue
  <2>2. w \in RawValues /\ trim[w] = w /\ upper[w] = w
    BY <2>1, SelectorAssumption
  <2>. HIDE DEF w
  <2>3. canonValue(k, w) = w
    BY <1>4, <2>1, <2>2, CanonValue
  <2>. QED BY <2>2, <2>3 DEF w
<1>5. CASE k \notin Known
  <2>1. w = v /\ v \in selVal
    BY <1>5, CanonValue
  <2>. HIDE DEF w, v
  <2>2. canonValue(k, w) = w
    BY <1>1, <1>5, <2>1, CanonValue
  <2>. QED BY <1>1, <2>1, <2>2 DEF w
<1>. QED BY <1>2, <1>3, <1>4, <1>5 DEF Known

(* Fragments that ask for the same have the same canonical key and value.  *)
LEMMA SameMeaning ==
    ASSUME NEW f \in Fragments, NEW g \in Fragments, meaning(f) = meaning(g)
    PROVE  /\ f = Bare <=> g = Bare
           /\ f # Bare => /\ canonKey(f[1]) = canonKey(g[1])
                          /\ canonValue(canonKey(f[1]), f[2]) = canonValue(canonKey(g[1]), g[2])
<1>. DEFINE m(h) == LET k == canonKey(h[1])
                        v == trim[h[2]]
                    IN  CASE k = "port" -> <<atoi[v]>>
                          [] k \in {"transport", "service"} -> upper[v]
                          [] OTHER -> v
<1>1. \A h : h # Bare => meaning(h) = <<canonKey(h[1]), m(h)>>
  BY DEF meaning
<1>2. meaning(Bare) = <<Bare>>
  BY DEF meaning
<1>. HIDE DEF m
<1>3. f = Bare <=> g = Bare
  <2>1. \A a, b : <<Bare>> # <<a, b>>
    BY SMT
  <2>. QED BY <1>1, <1>2, <2>1
<1>. SUFFICES ASSUME f # Bare, g # Bare
              PROVE  /\ canonKey(f[1]) = canonKey(g[1])
                     /\ canonValue(canonKey(f[1]), f[2]) = canonValue(canonKey(g[1]), g[2])
  BY <1>3
<1>. DEFINE k == canonKey(f[1])
<1>4. canonKey(g[1]) = k /\ m(f) = m(g)
  <2>1. \A a, b, c, d : <<a, b>> = <<c, d>> => a = c /\ b = d
    BY SMT
  <2>2. meaning(f) = <<k, m(f)>> /\ meaning(g) = <<canonKey(g[1]), m(g)>>
    BY <1>1
  <2>3. <<k, m(f)>> = <<canonKey(g[1]), m(g)>>
    BY <2>2
  <2>. HIDE DEF k
  <2>. QED BY <2>1, <2>3
<1>. HIDE DEF k
<1>5. canonValue(k, f[2]) = canonValue(k, g[2])
  <2>0. /\ k = "port" => m(f) = <<atoi[trim[f[2]]]>> /\ m(g) = <<atoi[trim[g[2]]]>>
        /\ k \in {"transport", "service"} => m(f) = upper[trim[f[2]]] /\ m(g) = upper[trim[g[2]]]
        /\ k \notin Known => m(f) = trim[f[2]] /\ m(g) = trim[g[2]]
    BY <1>4 DEF k, m, Known
  <2>1. CASE k = "port"
    <3>1. \A a, b : <<a>> = <<b>> => a = b
      BY SMT
    <3>2. atoi[trim[f[2]]] = atoi[trim[g[2]]]
      BY <1>4, <2>0, <2>1, <3>1
    <3>. QED BY <2>1, <3>2, CanonValue
  <2>2. CASE k = "transport"
    <3>1. k \in {"transport", "service"}
      BY <2>2
    <3>2. upper[trim[f[2]]] = upper[trim[g[2]]]
      BY <1>4, <2>0, <3>1
    <3>3. \A h : canonValue(k, h) =
                   IF upper[trim[h]] \in KnownTransports THEN upper[trim[h]] ELSE Error
      BY <2>2, CanonValue
    <3>. QED BY <3>2, <3>3
  <2>3. CASE k = "service"
    <3>1. k \in {"transport", "service"}
      BY <2>3
    <3>2. upper[trim[f[2]]] = upper[trim[g[2]]]
      BY <1>4, <2>0, <3>1
    <3>3. \A h : canonValue(k, h) =
                   IF upper[trim[h]] \in KnownServices THEN upper[trim[h]] ELSE Error
      BY <2>3, CanonValue
    <3>. QED BY <3>2, <3>3
  <2>4. CASE k \notin Known
    <3>1. trim[f[2]] = trim[g[2]]
      BY <1>4, <2>0, <2>4
    <3>2. \A h : canonValue(k, h) = IF trim[h] \in selVal THEN trim[h] ELSE Error
      BY <2>4, CanonValue
    <3>. QED BY <3>1, <3>2
  <2>. QED BY <2>1, <2>2, <2>3, <2>4 DEF Known
<1>. QED BY <1>4, <1>5 DEF k

(* What the loop has made of the keys S of the map m.                      *)
fine(m, S) ==
    /\ \A k \in S : good(k, m[k])
    /\ \A j, k \in S : canonKey(j) = canonKey(k) => j = k

isCanon(c, m, S) ==
    /\ c \in [{canonKey(k) : k \in S} -> RawValues]
    /\ \A k \in S : c[canonKey(k)] = canonValue(canonKey(k), m[k])

soFar(c, m, S) == IF fine(m, S) THEN isCanon(c, m, S) ELSE c = Error

(* A map is not an error, and what the loop makes is determined.           *)
LEMMA CanonMap ==
    ASSUME NEW m, NEW S \in SUBSET RawKeys, NEW c, isCanon(c, m, S)
    PROVE  /\ c # Error
           /\ \A d : isCanon(d, m, S) => d = c
<1>. DEFINE K == {canonKey(k) : k \in S}
<1>1. K \in SUBSET RawKeys
  BY CanonKey
<1>2. c \in [K -> RawValues]
  BY DEF isCanon
<1>3. c # Error
  <2>. HIDE DEF K
  <2>1. Error \notin [K -> RawValues]
    BY <1>1, SelectorAssumption
  <2>. QED BY <1>2, <2>1
<1>4. ASSUME NEW d, isCanon(d, m, S) PROVE d = c
  <2>1. d \in [K -> RawValues]
    BY <1>4 DEF isCanon
  <2>2. ASSUME NEW x \in K PROVE d[x] = c[x]
    BY <1>4 DEF isCanon
  <2>. HIDE DEF K
  <2>3. d = [x \in K |-> d[x]] /\ c = [x \in K |-> c[x]]
    BY <1>2, <2>1
  <2>. QED BY SMT, <2>2, <2>3
<1>. QED BY <1>3, <1>4

(* One round of the loop.                                                  *)
LEMMA AddPair ==
    ASSUME NEW D \in SUBSET RawKeys, NEW m \in [D -> RawValues], NEW S \in SUBSET D,
           NEW k \in D, k \notin S, NEW c, soFar(c, m, S)
    PROVE  soFar(addPair(c, k, m[k]), m, S \cup {k})
<1>. DEFINE x == canonKey(k)
            v == canonValue(x, m[k])
            K == {canonKey(j) : j \in S}
            d == addPair(c, k, m[k])
<1>1. d = IF c = Error \/ x \notin selKey \/ v = Error THEN Error
          ELSE IF x \in DOMAIN c THEN Error ELSE extended(c, x, v)
  BY DEF addPair, noErr
<1>2. CASE ~fine(m, S)
  <2>1. c = Error
    BY <1>2 DEF soFar
  <2>2. ~fine(m, S \cup {k})
    BY <1>2 DEF fine
  <2>. QED BY <1>1, <2>1, <2>2 DEF soFar
<1>3. CASE fine(m, S)
  <2>1. isCanon(c, m, S)
    BY <1>3 DEF soFar
  <2>2. c # Error /\ c \in [K -> RawValues]
    <3>1. S \in SUBSET RawKeys
      OBVIOUS
    <3>. QED BY <2>1, <3>1, CanonMap DEF isCanon
  <2>3. fine(m, S \cup {k}) <=> good(k, m[k]) /\ x \notin K
    BY <1>3 DEF fine
  <2>4. good(k, m[k]) <=> x \in selKey /\ v # Error
    BY DEF good
  <2>5. DOMAIN c = K
    BY <2>2
  <2>6. CASE fine(m, S \cup {k})
    <3>1. d = extended(c, x, v) /\ x \notin K /\ v # Error
      BY <1>1, <2>2, <2>3, <2>4, <2>5, <2>6
    <3>2. v \in RawValues
      BY <3>1, CanonValueStays
    <3>3. d = [y \in K \cup {x} |-> IF y = x THEN v ELSE c[y]]
      BY <2>5, <3>1 DEF extended
    <3>4. d \in [K \cup {x} -> RawValues] /\ d[x] = v /\ \A y \in K : d[y] = c[y]
      <4>. HIDE DEF d, x, v, K
      <4>. QED BY <2>2, <3>1, <3>2, <3>3
    <3>5. K \cup {x} = {canonKey(j) : j \in S \cup {k}}
      OBVIOUS
    <3>6. ASSUME NEW j \in S PROVE d[canonKey(j)] = canonValue(canonKey(j), m[j])
      <4>1. canonKey(j) \in K
        OBVIOUS
      <4>. HIDE DEF d, K
      <4>. QED BY <2>1, <3>4, <4>1 DEF isCanon
    <3>7. isCanon(d, m, S \cup {k})
      <4>. HIDE DEF d
      <4>. QED BY <3>4, <3>5, <3>6 DEF isCanon
    <3>. QED BY <2>6, <3>7 DEF soFar
  <2>7. CASE ~fine(m, S \cup {k})
    <3>1. d = Error
      BY <1>1, <2>2, <2>3, <2>4, <2>5, <2>7
    <3>. QED BY <2>7, <3>1 DEF soFar
  <2>. QED BY <2>6, <2>7
<1>. QED BY <1>2, <1>3

(* The maps the loop may pass through, and the error.                      *)
mapOrError == (UNION {[K -> RawValues] : K \in SUBSET RawKeys}) \cup {Error}

(* CanonicalSelector starts from the empty map.                            *)
LEMMA NoPairs ==
    << >> \in [{} -> RawValues]
<1>. DEFINE V == RawValues
<1>. HIDE DEF V
<1>1. << >> \in Seq(V) /\ Len(<< >>) = 0
  BY SMT
<1>2. << >> \in [1..0 -> V]
  BY SMT, <1>1
<1>3. 1..0 = {}
  BY SMT
<1>. QED BY <1>2, <1>3 DEF V

(* A round of CanonicalSelector ends with a map of strings or an error.    *)
LEMMA AddPairType ==
    ASSUME NEW c \in mapOrError, NEW k \in RawKeys, NEW w \in RawValues
    PROVE  addPair(c, k, w) \in mapOrError
<1>. DEFINE x == canonKey(k)
            v == canonValue(x, w)
<1>1. addPair(c, k, w) = IF c = Error \/ x \notin selKey \/ v = Error THEN Error
                         ELSE IF x \in DOMAIN c THEN Error ELSE extended(c, x, v)
  BY DEF addPair, noErr
<1>2. ASSUME c # Error, v # Error PROVE extended(c, x, v) \in mapOrError
  <2>1. PICK K \in SUBSET RawKeys : c \in [K -> RawValues]
    <3>1. c \in UNION {[K -> RawValues] : K \in SUBSET RawKeys}
      BY <1>2 DEF mapOrError
    <3>. QED BY <3>1
  <2>2. x \in RawKeys /\ v \in RawValues
    BY <1>2, CanonKey, CanonValueStays
  <2>. HIDE DEF x, v
  <2>3. extended(c, x, v) = [y \in K \cup {x} |-> IF y = x THEN v ELSE c[y]]
    BY <2>1 DEF extended
  <2>4. extended(c, x, v) \in [K \cup {x} -> RawValues]
    BY <2>1, <2>2, <2>3
  <2>5. K \cup {x} \in SUBSET RawKeys
    BY <2>2
  <2>. QED BY <2>4, <2>5 DEF mapOrError
<1>3. Error \in mapOrError
  BY DEF mapOrError
<1>. HIDE DEF x, v
<1>. QED BY <1>1, <1>2, <1>3

(* Ranging over all keys of a map, in any order, makes its canonical map,  *)
(* or an error if there is one.                                            *)
LEMMA AlongOrder ==
    ASSUME NEW D \in SUBSET RawKeys, NEW m \in [D -> RawValues],
           Cardinality(D) \in Nat, NEW o \in orders(D)
    PROVE  \E c : /\ soFar(c, m, D)
                  /\ canonicalAlong(o, m) = IF fine(m, D) THEN join(c) ELSE Error
<1>. DEFINE n == Cardinality(D)
            round(g) == [i \in 0..Len(o) |->
                           IF i = 0 THEN << >> ELSE addPair(g[i - 1], o[i], m[o[i]])]
            body == [i \in 1..n |-> [c \in mapOrError |-> addPair(c, o[i], m[o[i]])]]
<1>1. /\ o \in [1..n -> D]
      /\ \A e \in D : \E j \in 1..n : o[j] = e
      /\ \A i, j \in 1..n : o[i] = o[j] => i = j
  BY DEF orders
<1>2. n \in Nat
  OBVIOUS
<1>. HIDE DEF n
<1>3. Len(o) = n
  BY SMT, <1>1, <1>2
<1>4. << >> \in mapOrError
  BY NoPairs DEF mapOrError
<1>5. ASSUME NEW i \in 1..n PROVE o[i] \in D /\ o[i] \in RawKeys /\ m[o[i]] \in RawValues
  BY <1>1
<1>6. body \in [1..n -> [mapOrError -> mapOrError]]
  BY <1>5, AddPairType
<1>. HIDE DEF body
<1>7. PICK f : IsRun(f, n, mapOrError, << >>, body)
  BY <1>2, <1>4, <1>6, LoopRuns
<1>8. f = round(f)
  <2>1. f \in [0..n -> mapOrError] /\ f[0] = << >> /\ \A i \in 1..n : f[i] = body[i][f[i - 1]]
    BY <1>7 DEF IsRun
  <2>2. ASSUME NEW i \in 0..n, i # 0 PROVE f[i] = addPair(f[i - 1], o[i], m[o[i]])
    <3>1. i \in 1..n /\ i - 1 \in 0..n
      BY SMT, <1>2, <2>2
    <3>2. f[i - 1] \in mapOrError
      BY <2>1, <3>1
    <3>. QED BY <2>1, <3>1, <3>2 DEF body
  <2>3. f = [i \in 0..n |-> f[i]]
    BY <2>1
  <2>. QED BY <1>3, <2>1, <2>2, <2>3
<1>. DEFINE k == CHOOSE g : g = round(g)
<1>9. k = round(k)
  BY <1>8
<1>10. canonicalAlong(o, m) = IF k[n] # Error THEN join(k[n]) ELSE Error
  <2>1. canonicalAlong(o, m) = IF k[Len(o)] # Error THEN join(k[Len(o)]) ELSE Error
    BY DEF canonicalAlong, noErr
  <2>. HIDE DEF k
  <2>. QED BY <1>3, <2>1
<1>. HIDE DEF k
<1>11. k[0] = << >>
  BY SMT, <1>2, <1>3, <1>9
<1>12. ASSUME NEW i \in 1..n PROVE k[i] = addPair(k[i - 1], o[i], m[o[i]])
  <2>1. i \in 0..Len(o) /\ i # 0
    BY SMT, <1>2, <1>3
  <2>. QED BY <1>9, <2>1
<1>. DEFINE S(i) == {o[j] : j \in 1..i}
            T == {i \in 0..n : soFar(k[i], m, S(i))}
<1>13. 0 \in T
  <2>1. S(0) = {}
    BY SMT
  <2>2. soFar(<< >>, m, {})
    BY NoPairs DEF soFar, fine, isCanon
  <2>3. 0 \in 0..n
    BY SMT, <1>2
  <2>. QED BY <1>11, <2>1, <2>2, <2>3
<1>14. ASSUME NEW i \in 1..n, i - 1 \in T PROVE i \in T
  <2>1. /\ i \in 0..n /\ i - 1 \in Nat
        /\ \A j \in 1..i : j \in 1..n
        /\ \A j \in 1..(i - 1) : j \in 1..n /\ j # i
        /\ 1..i = 1..(i - 1) \cup {i}
    BY SMT, <1>2
  <2>2. S(i) = S(i - 1) \cup {o[i]}
    BY <2>1
  <2>3. o[i] \notin S(i - 1) /\ S(i - 1) \in SUBSET D
    <3>1. ASSUME NEW j \in 1..(i - 1) PROVE o[j] # o[i] /\ o[j] \in D
      BY <1>1, <2>1
    <3>. QED BY <3>1
  <2>4. soFar(k[i - 1], m, S(i - 1))
    BY <1>14
  <2>. HIDE DEF S
  <2>5. soFar(addPair(k[i - 1], o[i], m[o[i]]), m, S(i - 1) \cup {o[i]})
    BY <1>5, <2>3, <2>4, AddPair
  <2>. QED BY <1>12, <2>1, <2>2, <2>5
<1>. HIDE DEF T
<1>15. \A i \in 0..n : i \in T
  BY <1>2, <1>13, <1>14, SetInduction
<1>16. n \in T /\ S(n) = D
  <2>1. n \in 0..n
    BY SMT, <1>2
  <2>2. ASSUME NEW e \in D PROVE e \in S(n)
    BY <1>1
  <2>3. S(n) = D
    BY <1>5, <2>2
  <2>. QED BY <1>15, <2>1, <2>3
<1>. HIDE DEF S
<1>17. soFar(k[n], m, D)
  BY <1>16 DEF T
<1>18. fine(m, D) <=> k[n] # Error
  BY <1>17, CanonMap DEF soFar
<1>. QED BY <1>10, <1>17, <1>18

(* What is made of a sequence of fragments.                                *)
fineFragments(s) ==
    /\ \A i \in DOMAIN s : s[i] # Bare /\ good(s[i][1], s[i][2])
    /\ \A i, j \in DOMAIN s : canonKey(s[i][1]) = canonKey(s[j][1]) => i = j

canonOf(c, s) ==
    /\ c \in [{canonKey(s[i][1]) : i \in DOMAIN s} -> RawValues]
    /\ \A i \in DOMAIN s : c[canonKey(s[i][1])] = canonValue(canonKey(s[i][1]), s[i][2])

distinct(s) ==
    /\ \A i \in DOMAIN s : s[i] # Bare
    /\ \A i, j \in DOMAIN s : keyOf(s[i]) = keyOf(s[j]) => i = j

(* A way to list a set tells how many elements it has.                     *)
LEMMA Listed ==
    ASSUME NEW D, NEW n \in Nat, NEW o \in [1..n -> D],
           \A e \in D : \E i \in 1..n : o[i] = e,
           \A i, j \in 1..n : o[i] = o[j] => i = j
    PROVE  Cardinality(D) = n /\ o \in orders(D)
<1>1. DOMAIN o = 1..n
  OBVIOUS
<1>2. o \in Injection(1..n, D)
  BY <1>1 DEF Injection, IsInjective
<1>3. o \in Surjection(1..n, D)
  BY DEF Surjection
<1>4. ExistsBijection(1..n, D)
  BY <1>2, <1>3 DEF ExistsBijection, Bijection
<1>5. Cardinality(D) = n
  BY <1>4, FS_CountingElements
<1>. QED BY <1>1, <1>5 DEF orders

(* ParsePairs makes a map of fragments whose keys differ.                  *)
LEMMA PairsMade ==
    ASSUME NEW s \in Seq(Fragments), distinct(s)
    PROVE  \E D \in SUBSET RawKeys :
             /\ ParsePairs(s) \in [D -> RawValues]
             /\ D = {keyOf(s[i]) : i \in DOMAIN s} /\ Cardinality(D) = Len(s)
             /\ \E o : o \in orders(D)
             /\ \A i \in DOMAIN s : /\ s[i][1] \in RawKeys /\ s[i][2] \in RawValues
                                    /\ ParsePairs(s)[keyOf(s[i])] = s[i][2]
             /\ ParsePairs(s) # Error
<1>. DEFINE D == {keyOf(s[i]) : i \in DOMAIN s}
            m == ParsePairs(s)
            n == Len(s)
<1>1. n \in Nat /\ DOMAIN s = 1..n /\ \A i \in DOMAIN s : s[i] \in Fragments
  <2>. DEFINE F == Fragments
  <2>. HIDE DEF F
  <2>1. s \in Seq(F)
    BY DEF F
  <2>2. n \in Nat /\ DOMAIN s = 1..n /\ \A i \in DOMAIN s : s[i] \in F
    BY SMT, <2>1
  <2>. QED BY <2>2 DEF F
<1>2. /\ \A i \in DOMAIN s : s[i] # Bare
      /\ \A i, j \in DOMAIN s : keyOf(s[i]) = keyOf(s[j]) => i = j
      /\ m = [k \in D |-> s[CHOOSE i \in DOMAIN s : keyOf(s[i]) = k][2]]
  BY DEF ParsePairs, distinct
<1>3. ASSUME NEW i \in DOMAIN s PROVE s[i][1] \in RawKeys /\ s[i][2] \in RawValues
  <2>1. s[i] \in RawKeys \X RawValues
    BY <1>1, <1>2 DEF Fragments
  <2>. QED BY <2>1
<1>4. ASSUME NEW i \in DOMAIN s PROVE keyOf(s[i]) \in RawKeys
  BY <1>3, CanonKey DEF keyOf
<1>5. D \in SUBSET RawKeys
  BY <1>4
<1>6. ASSUME NEW i \in DOMAIN s PROVE m[keyOf(s[i])] = s[i][2]
  <2>. DEFINE j == CHOOSE h \in DOMAIN s : keyOf(s[h]) = keyOf(s[i])
  <2>1. j \in DOMAIN s /\ keyOf(s[j]) = keyOf(s[i])
    OBVIOUS
  <2>2. j = i
    BY <1>2, <2>1
  <2>3. m[keyOf(s[i])] = s[j][2]
    BY <1>2
  <2>. HIDE DEF j
  <2>. QED BY <2>2, <2>3
<1>7. m \in [D -> RawValues]
  <2>1. ASSUME NEW k \in D PROVE m[k] \in RawValues
    <3>1. PICK i \in DOMAIN s : k = keyOf(s[i])
      OBVIOUS
    <3>. QED BY <1>3, <1>6, <3>1
  <2>2. m = [k \in D |-> m[k]]
    BY <1>2
  <2>. HIDE DEF m, D
  <2>. QED BY <2>1, <2>2
<1>. DEFINE o == [i \in 1..n |-> keyOf(s[i])]
<1>8. /\ o \in [1..n -> D]
      /\ \A e \in D : \E i \in 1..n : o[i] = e
      /\ \A i, j \in 1..n : o[i] = o[j] => i = j
  <2>1. o \in [1..n -> D]
    BY <1>1
  <2>2. \A i \in 1..n : o[i] = keyOf(s[i])
    OBVIOUS
  <2>. HIDE DEF o
  <2>3. ASSUME NEW e \in D PROVE \E i \in 1..n : o[i] = e
    <3>1. PICK i \in DOMAIN s : e = keyOf(s[i])
      OBVIOUS
    <3>. QED BY <1>1, <2>2, <3>1
  <2>4. ASSUME NEW i \in 1..n, NEW j \in 1..n, o[i] = o[j] PROVE i = j
    <3>1. keyOf(s[i]) = keyOf(s[j])
      BY <2>2, <2>4
    <3>. QED BY <1>1, <1>2, <3>1
  <2>. QED BY <2>1, <2>3, <2>4
<1>. HIDE DEF o, D, m
<1>9. Cardinality(D) = n /\ o \in orders(D)
  BY <1>1, <1>8, Listed
<1>10. m # Error
  <2>1. Error \notin [D -> RawValues]
    BY <1>5, SelectorAssumption
  <2>. QED BY <1>7, <2>1
<1>. QED BY <1>3, <1>5, <1>6, <1>7, <1>9, <1>10 DEF D, m

(* ParseSelectorString joins the canonical map of its fragments, or fails  *)
(* if a fragment is bad or two have the same canonical key.                *)
LEMMA Parsed ==
    ASSUME NEW s \in Seq(Fragments)
    PROVE  /\ ~fineFragments(s) => ParseSelectorString(s) = Error
           /\ fineFragments(s) => \E c : canonOf(c, s) /\ ParseSelectorString(s) = join(c)
<1>1. \A i \in DOMAIN s : s[i] \in Fragments
  <2>. DEFINE F == Fragments
  <2>. HIDE DEF F
  <2>1. s \in Seq(F)
    BY DEF F
  <2>2. \A i \in DOMAIN s : s[i] \in F
    BY SMT, <2>1
  <2>. QED BY <2>2 DEF F
<1>2. CASE ~distinct(s)
  <2>1. ParsePairs(s) = Error
    BY <1>2 DEF ParsePairs, distinct
  <2>2. ParseSelectorString(s) = Error
    BY <2>1 DEF ParseSelectorString, noErr
  <2>3. ASSUME fineFragments(s) PROVE FALSE
    <3>1. PICK i \in DOMAIN s, j \in DOMAIN s : keyOf(s[i]) = keyOf(s[j]) /\ i # j
      BY <1>2, <2>3 DEF distinct, fineFragments
    <3>2. s[i][1] \in RawKeys /\ s[j][1] \in RawKeys
      <4>1. s[i] \in RawKeys \X RawValues /\ s[j] \in RawKeys \X RawValues
        BY <1>1, <2>3 DEF fineFragments, Fragments
      <4>. QED BY <4>1
    <3>3. canonKey(s[i][1]) = canonKey(s[j][1])
      BY <3>1, <3>2, CanonKey DEF keyOf
    <3>. QED BY <2>3, <3>1, <3>3 DEF fineFragments
  <2>. QED BY <2>2, <2>3
<1>3. CASE distinct(s)
  <2>. DEFINE m == ParsePairs(s)
  <2>1. PICK D \in SUBSET RawKeys :
          /\ m \in [D -> RawValues]
          /\ D = {keyOf(s[i]) : i \in DOMAIN s} /\ Cardinality(D) = Len(s)
          /\ \E o : o \in orders(D)
          /\ \A i \in DOMAIN s : /\ s[i][1] \in RawKeys /\ s[i][2] \in RawValues
                                 /\ m[keyOf(s[i])] = s[i][2]
          /\ m # Error
    BY <1>3, PairsMade
  <2>. HIDE DEF m
  <2>. DEFINE p == CHOOSE order \in orders(DOMAIN m) : TRUE
  <2>2. p \in orders(D) /\ ParseSelectorString(s) = canonicalAlong(p, m)
    <3>1. DOMAIN m = D
      BY <2>1
    <3>2. ParseSelectorString(s) = CanonicalSelector(m)
      BY <2>1 DEF ParseSelectorString, noErr, m
    <3>. QED BY <2>1, <3>1, <3>2 DEF CanonicalSelector
  <2>. HIDE DEF p
  <2>3. Cardinality(D) \in Nat
    <3>. DEFINE F == Fragments
    <3>. HIDE DEF F
    <3>1. s \in Seq(F)
      BY DEF F
    <3>2. Len(s) \in Nat
      BY SMT, <3>1
    <3>. QED BY <2>1, <3>2
  <2>4. PICK c : /\ soFar(c, m, D)
                 /\ canonicalAlong(p, m) = IF fine(m, D) THEN join(c) ELSE Error
    BY <2>1, <2>2, <2>3, AlongOrder
  <2>5. ASSUME NEW i \in DOMAIN s
        PROVE  /\ keyOf(s[i]) \in D /\ canonKey(keyOf(s[i])) = canonKey(s[i][1])
               /\ m[keyOf(s[i])] = s[i][2]
    BY <2>1, CanonKey DEF keyOf
  <2>6. ASSUME NEW k \in D PROVE \E i \in DOMAIN s : k = keyOf(s[i])
    BY <2>1
  <2>7. fine(m, D) <=> fineFragments(s)
    <3>1. ASSUME fine(m, D) PROVE fineFragments(s)
      <4>1. ASSUME NEW i \in DOMAIN s PROVE s[i] # Bare /\ good(s[i][1], s[i][2])
        BY <1>3, <2>5, <3>1 DEF fine, good, distinct
      <4>2. ASSUME NEW i \in DOMAIN s, NEW j \in DOMAIN s,
                   canonKey(s[i][1]) = canonKey(s[j][1])
            PROVE  i = j
        <5>1. /\ keyOf(s[i]) \in D /\ canonKey(keyOf(s[i])) = canonKey(s[i][1])
              /\ keyOf(s[j]) \in D /\ canonKey(keyOf(s[j])) = canonKey(s[j][1])
          BY <2>5
        <5>2. \A x, y \in D : canonKey(x) = canonKey(y) => x = y
          BY <3>1 DEF fine
        <5>3. canonKey(keyOf(s[i])) = canonKey(keyOf(s[j]))
          BY <4>2, <5>1
        <5>4. keyOf(s[i]) = keyOf(s[j])
          BY <5>1, <5>2, <5>3
        <5>. QED BY <1>3, <5>4 DEF distinct
      <4>. QED BY <4>1, <4>2 DEF fineFragments
    <3>2. ASSUME fineFragments(s) PROVE fine(m, D)
      <4>1. ASSUME NEW k \in D PROVE good(k, m[k])
        <5>1. PICK i \in DOMAIN s : k = keyOf(s[i])
          BY <2>6
        <5>2. good(s[i][1], s[i][2])
          BY <3>2 DEF fineFragments
        <5>. QED BY <2>5, <5>1, <5>2 DEF good
      <4>2. ASSUME NEW j \in D, NEW k \in D, canonKey(j) = canonKey(k) PROVE j = k
        <5>1. PICK a \in DOMAIN s : j = keyOf(s[a])
          BY <2>6
        <5>2. PICK b \in DOMAIN s : k = keyOf(s[b])
          BY <2>6
        <5>3. canonKey(s[a][1]) = canonKey(s[b][1])
          BY <2>5, <4>2, <5>1, <5>2
        <5>4. a = b
          BY <3>2, <5>3 DEF fineFragments
        <5>. QED BY <5>1, <5>2, <5>4
      <4>. QED BY <4>1, <4>2 DEF fine
    <3>. QED BY <3>1, <3>2
  <2>8. ASSUME isCanon(c, m, D) PROVE canonOf(c, s)
    <3>1. {canonKey(k) : k \in D} = {canonKey(s[i][1]) : i \in DOMAIN s}
      <4>1. ASSUME NEW k \in D PROVE \E i \in DOMAIN s : canonKey(k) = canonKey(s[i][1])
        BY <2>5, <2>6
      <4>2. ASSUME NEW i \in DOMAIN s PROVE \E k \in D : canonKey(s[i][1]) = canonKey(k)
        BY <2>5
      <4>. DEFINE X == {canonKey(k) : k \in D}
                  Y == {canonKey(s[i][1]) : i \in DOMAIN s}
      <4>3. ASSUME NEW x \in X PROVE x \in Y
        BY <4>1
      <4>4. ASSUME NEW x \in Y PROVE x \in X
        BY <4>2
      <4>. HIDE DEF X, Y
      <4>5. X = Y
        BY <4>3, <4>4
      <4>. QED BY <4>5 DEF X, Y
    <3>. QED BY <2>5, <2>8, <3>1 DEF isCanon, canonOf
  <2>. QED BY <2>2, <2>4, <2>7, <2>8 DEF soFar
<1>. QED BY <1>2, <1>3

(* The canonical map of fragments is determined.                           *)
LEMMA CanonUnique ==
    ASSUME NEW t, NEW c, NEW d, canonOf(c, t), canonOf(d, t)
    PROVE  c = d
<1>. DEFINE K == {canonKey(t[i][1]) : i \in DOMAIN t}
<1>1. c \in [K -> RawValues] /\ d \in [K -> RawValues]
  BY DEF canonOf
<1>2. ASSUME NEW x \in K PROVE c[x] = d[x]
  BY DEF canonOf
<1>. HIDE DEF K
<1>3. c = [x \in K |-> c[x]] /\ d = [x \in K |-> d[x]]
  BY <1>1
<1>. QED BY SMT, <1>2, <1>3

(* Fragments with the same canonical map make the same selector.           *)
LEMMA SameParsed ==
    ASSUME NEW s \in Seq(Fragments), NEW t \in Seq(Fragments),
           fineFragments(s) <=> fineFragments(t),
           fineFragments(s) => \A c : canonOf(c, s) => canonOf(c, t)
    PROVE  ParseSelectorString(s) = ParseSelectorString(t)
<1>1. CASE ~fineFragments(s)
  BY <1>1, Parsed
<1>2. CASE fineFragments(s)
  <2>1. PICK c : canonOf(c, s) /\ ParseSelectorString(s) = join(c)
    BY <1>2, Parsed
  <2>2. PICK d : canonOf(d, t) /\ ParseSelectorString(t) = join(d)
    BY <1>2, Parsed
  <2>3. canonOf(c, t)
    BY <1>2, <2>1
  <2>4. c = d
    BY <2>2, <2>3, CanonUnique
  <2>. QED BY <2>1, <2>2, <2>4
<1>. QED BY <1>1, <1>2

(* Keys with ranks that rise.                                              *)
rising(t) == \A i, j \in DOMAIN t : i < j => keyRank[t[i]] < keyRank[t[j]]

(* u is t with e put in somewhere.                                         *)
inserted(u, t, e, n) ==
    /\ \E i \in 1..n : u[i] = e
    /\ \A i \in 1..(n - 1) : \E j \in 1..n : u[j] = t[i]
    /\ \A j \in 1..n : u[j] = e \/ \E i \in 1..(n - 1) : u[j] = t[i]

(* One more key can be put into its place.                                 *)
LEMMA Insert ==
    ASSUME NEW D \in SUBSET RawKeys, NEW n \in Nat \ {0}, NEW t \in [1..(n - 1) -> D], rising(t),
           NEW e \in D, \A i \in 1..(n - 1) : t[i] # e
    PROVE  \E u : u \in [1..n -> D] /\ rising(u) /\ inserted(u, t, e, n)
<1>. DEFINE r == [i \in 1..(n - 1) |-> keyRank[t[i]]]
            h == keyRank[e]
            P == {i \in 1..n : i = n \/ (i # n /\ h < r[i])}
<1>1. h \in Nat /\ r \in [1..(n - 1) -> Nat]
  BY SelectorAssumption
<1>2. \A i \in 1..(n - 1) : r[i] # h /\ r[i] = keyRank[t[i]]
  BY SelectorAssumption
<1>3. \A i, j \in 1..(n - 1) : i < j => r[i] < r[j]
  BY DEF rising
<1>. HIDE DEF r, h
<1>4. P \in SUBSET Nat /\ P # {}
  <2>1. n \in 1..n /\ \A i \in 1..n : i \in Nat
    BY SMT
  <2>2. n \in P
    BY <2>1
  <2>. QED BY <2>1, <2>2
<1>5. PICK q \in P : \A i \in P : q <= i
  BY <1>4, LeastNumber
<1>6. /\ q \in 1..n
      /\ \A i \in 1..(n - 1) : i < q => r[i] < h
      /\ \A i \in 1..(n - 1) : q <= i => h < r[i]
  <2>1. q \in 1..n /\ (q = n \/ h < r[q])
    BY <1>5
  <2>2. ASSUME NEW i \in 1..(n - 1), i < q PROVE r[i] < h
    <3>1. i \notin P
      BY SMT, <1>5, <2>1, <2>2
    <3>2. i \in 1..n /\ i # n
      BY SMT
    <3>3. ~(h < r[i])
      BY <3>1, <3>2
    <3>4. r[i] \in Nat /\ r[i] # h
      BY <1>1, <1>2
    <3>. QED BY SMT, <1>1, <3>3, <3>4
  <2>3. ASSUME NEW i \in 1..(n - 1), q <= i PROVE h < r[i]
    <3>1. q \in 1..(n - 1) /\ q # n
      BY SMT, <2>1, <2>3
    <3>2. h < r[q] /\ r[q] \in Nat /\ r[i] \in Nat
      BY <1>1, <2>1, <3>1
    <3>3. q = i \/ r[q] < r[i]
      BY SMT, <1>3, <2>3, <3>1
    <3>. QED BY SMT, <1>1, <3>2, <3>3
  <2>. QED BY <2>1, <2>2, <2>3
<1>. HIDE DEF P
<1>. DEFINE u == [j \in 1..n |-> IF j < q THEN t[j] ELSE IF j = q THEN e ELSE t[j - 1]]
<1>7. ASSUME NEW j \in 1..n
      PROVE  /\ j < q => j \in 1..(n - 1)
             /\ ~(j < q) /\ j # q => j - 1 \in 1..(n - 1) /\ q <= j - 1
  BY SMT, <1>6
<1>8. u \in [1..n -> D]
  BY <1>7
<1>9. u[q] = e /\ q \in 1..n
  BY SMT, <1>6
<1>10. ASSUME NEW i \in 1..(n - 1) PROVE \E j \in 1..n : u[j] = t[i]
  <2>1. CASE i < q
    <3>1. i \in 1..n
      BY SMT
    <3>. QED BY <2>1, <3>1
  <2>2. CASE ~(i < q)
    <3>1. i + 1 \in 1..n /\ ~(i + 1 < q) /\ i + 1 # q /\ (i + 1) - 1 = i
      BY SMT, <1>6, <2>2
    <3>2. u[i + 1] = t[i]
      BY <3>1
    <3>. QED BY <3>1, <3>2
  <2>. QED BY <2>1, <2>2
<1>11. ASSUME NEW j \in 1..n PROVE u[j] = e \/ \E i \in 1..(n - 1) : u[j] = t[i]
  BY <1>7
<1>. DEFINE w == [j \in 1..n |-> IF j < q THEN r[j] ELSE IF j = q THEN h ELSE r[j - 1]]
<1>12. \A j \in 1..n : keyRank[u[j]] = w[j]
  BY <1>2, <1>7 DEF h
<1>13. \A i, j \in 1..n : i < j => w[i] < w[j]
  <2>. SUFFICES ASSUME NEW i \in 1..n, NEW j \in 1..n, i < j PROVE w[i] < w[j]
    OBVIOUS
  <2>1. CASE j < q
    <3>1. i \in 1..(n - 1) /\ j \in 1..(n - 1) /\ i < q
      BY SMT, <1>6, <2>1
    <3>. QED BY <1>3, <2>1, <3>1
  <2>2. CASE j = q
    <3>1. i \in 1..(n - 1) /\ i < q /\ ~(j < q)
      BY SMT, <1>6, <2>2
    <3>. QED BY <1>6, <2>2, <3>1
  <2>3. CASE ~(j < q) /\ j # q
    <3>1. j - 1 \in 1..(n - 1) /\ q <= j - 1 /\ w[j] = r[j - 1]
      BY <1>7, <2>3
    <3>2. CASE i < q
      <4>1. i \in 1..(n - 1) /\ i < j - 1
        BY SMT, <1>6, <3>1, <3>2
      <4>. QED BY <1>3, <3>1, <3>2, <4>1
    <3>3. CASE i = q
      <4>1. ~(i < q)
        BY SMT, <1>6, <3>3
      <4>. QED BY <1>6, <3>1, <3>3, <4>1
    <3>4. CASE ~(i < q) /\ i # q
      <4>1. i - 1 \in 1..(n - 1) /\ w[i] = r[i - 1]
        BY <1>7, <3>4
      <4>2. i - 1 < j - 1
        BY SMT
      <4>. QED BY <1>3, <3>1, <4>1, <4>2
    <3>. QED BY <3>2, <3>3, <3>4
  <2>. QED BY <2>1, <2>2, <2>3
<1>. HIDE DEF u, w
<1>14. rising(u)
  <2>1. DOMAIN u = 1..n
    BY <1>8
  <2>2. ASSUME NEW i \in 1..n, NEW j \in 1..n, i < j PROVE keyRank[u[i]] < keyRank[u[j]]
    <3>1. w[i] < w[j] /\ keyRank[u[i]] = w[i] /\ keyRank[u[j]] = w[j]
      BY <1>12, <1>13, <2>2
    <3>. QED BY <3>1
  <2>. QED BY <2>1, <2>2 DEF rising
<1>15. inserted(u, t, e, n)
  BY <1>9, <1>10, <1>11 DEF inserted
<1>. QED BY <1>8, <1>14, <1>15

(* Keys that can be listed can be sorted.                                  *)
LEMMA Sortable ==
    ASSUME NEW D \in SUBSET RawKeys, Cardinality(D) \in Nat, NEW o \in orders(D)
    PROVE  sorted(D) \in orders(D)
<1>. DEFINE n == Cardinality(D)
            sorts(t, i) == /\ t \in [1..i -> D] /\ rising(t)
                           /\ \A j \in 1..i : \E p \in 1..i : t[p] = o[j]
                           /\ \A p \in 1..i : \E j \in 1..i : t[p] = o[j]
            T == {i \in 0..n : \E t : sorts(t, i)}
<1>1. /\ o \in [1..n -> D]
      /\ \A e \in D : \E j \in 1..n : o[j] = e
      /\ \A i, j \in 1..n : o[i] = o[j] => i = j
  BY DEF orders
<1>2. n \in Nat
  OBVIOUS
<1>. HIDE DEF n
<1>3. 0 \in T
  <2>1. 1..0 = {} /\ 0 \in 0..n
    BY SMT, <1>2
  <2>. DEFINE t == [i \in 1..0 |-> i]
  <2>2. sorts(t, 0)
    BY <2>1 DEF rising
  <2>. QED BY <2>1, <2>2
<1>4. ASSUME NEW i \in 1..n, i - 1 \in T PROVE i \in T
  <2>1. PICK t : sorts(t, i - 1)
    BY <1>4
  <2>2. /\ i \in Nat \ {0} /\ i \in 0..n /\ i \in 1..i
        /\ \A j \in 1..i : j \in 1..(i - 1) \/ j = i
        /\ \A j \in 1..(i - 1) : j \in 1..n /\ j # i /\ j \in 1..i
    BY SMT, <1>2
  <2>3. o[i] \in D /\ \A p \in 1..(i - 1) : t[p] # o[i]
    <3>1. ASSUME NEW p \in 1..(i - 1) PROVE t[p] # o[i]
      <4>1. PICK j \in 1..(i - 1) : t[p] = o[j]
        BY <2>1
      <4>. QED BY <1>1, <2>2, <4>1
    <3>. QED BY <1>1, <3>1
  <2>4. PICK u : u \in [1..i -> D] /\ rising(u) /\ inserted(u, t, o[i], i)
    <3>1. t \in [1..(i - 1) -> D] /\ rising(t) /\ i \in Nat \ {0}
      BY <2>1, <2>2
    <3>. HIDE DEF sorts
    <3>. QED BY <2>3, <3>1, Insert
  <2>5. /\ u \in [1..i -> D] /\ rising(u)
        /\ \E p \in 1..i : u[p] = o[i]
        /\ \A p \in 1..(i - 1) : \E j \in 1..i : u[j] = t[p]
        /\ \A j \in 1..i : u[j] = o[i] \/ \E p \in 1..(i - 1) : u[j] = t[p]
    BY <2>4 DEF inserted
  <2>6. ASSUME NEW j \in 1..i PROVE \E p \in 1..i : u[p] = o[j]
    <3>1. CASE j = i
      BY <2>5, <3>1
    <3>2. CASE j \in 1..(i - 1)
      <4>1. PICK p \in 1..(i - 1) : t[p] = o[j]
        BY <2>1, <3>2
      <4>. QED BY <2>5, <4>1
    <3>. QED BY <2>2, <3>1, <3>2
  <2>7. ASSUME NEW p \in 1..i PROVE \E j \in 1..i : u[p] = o[j]
    <3>1. CASE u[p] = o[i]
      BY <2>2, <3>1
    <3>2. CASE u[p] # o[i]
      <4>1. PICK h \in 1..(i - 1) : u[p] = t[h]
        BY <2>5, <3>2
      <4>2. PICK j \in 1..(i - 1) : t[h] = o[j]
        BY <2>1
      <4>. QED BY <2>2, <4>1, <4>2
    <3>. QED BY <3>1, <3>2
  <2>8. sorts(u, i)
    BY <2>5, <2>6, <2>7
  <2>. QED BY <2>2, <2>8
<1>. HIDE DEF T
<1>5. \A i \in 0..n : i \in T
  BY <1>2, <1>3, <1>4, SetInduction
<1>6. n \in T
  BY SMT, <1>2, <1>5
<1>7. PICK t : sorts(t, n)
  BY <1>6 DEF T
<1>8. t \in orders(D)
  <2>1. ASSUME NEW e \in D PROVE \E p \in 1..n : t[p] = e
    <3>1. PICK j \in 1..n : o[j] = e
      BY <1>1
    <3>. QED BY <1>7, <3>1
  <2>2. ASSUME NEW i \in 1..n, NEW j \in 1..n, t[i] = t[j] PROVE i = j
    <3>. DEFINE h == keyRank[t[i]]
    <3>1. h \in Nat
      BY <1>7, SelectorAssumption
    <3>2. DOMAIN t = 1..n
      BY <1>7
    <3>3. ~(i < j) /\ ~(j < i)
      <4>1. i < j \/ j < i => h < h
        BY <1>7, <2>2, <3>2 DEF rising
      <4>. HIDE DEF h
      <4>2. ~(h < h)
        BY SMT, <3>1
      <4>. QED BY <4>1, <4>2
    <3>. QED BY SMT, <1>2, <3>3
  <2>. QED BY <1>2, <1>7, <2>1, <2>2, Listed
<1>. HIDE DEF sorts
<1>9. \E x \in orders(D) : \A i, j \in DOMAIN x : i < j => keyRank[x[i]] < keyRank[x[j]]
  BY <1>7, <1>8 DEF sorts, rising
<1>. QED BY <1>9 DEF sorted

(* A canonical selector is made of itself.                                 *)
LEMMA CanonicalStays ==
    ASSUME NEW s \in Seq(Fragments), ParseSelectorString(s) # Error
    PROVE  ParseSelectorString(ParseSelectorString(s)) = ParseSelectorString(s)
<1>. DEFINE D == {canonKey(s[i][1]) : i \in DOMAIN s}
            n == Len(s)
            o == [i \in 1..n |-> canonKey(s[i][1])]
<1>1. fineFragments(s)
  BY Parsed
<1>2. PICK c : canonOf(c, s) /\ ParseSelectorString(s) = join(c)
  BY <1>1, Parsed
<1>3. n \in Nat /\ DOMAIN s = 1..n /\ \A i \in DOMAIN s : s[i] \in RawKeys \X RawValues
  <2>. DEFINE F == Fragments
  <2>. HIDE DEF F
  <2>1. s \in Seq(F)
    BY DEF F
  <2>2. n \in Nat /\ DOMAIN s = 1..n /\ \A i \in DOMAIN s : s[i] \in F
    BY SMT, <2>1
  <2>. QED BY <1>1, <2>2 DEF F, Fragments, fineFragments
<1>4. ASSUME NEW i \in DOMAIN s PROVE s[i][1] \in RawKeys /\ s[i][2] \in RawValues
  BY <1>3
<1>5. D \in SUBSET RawKeys
  BY <1>4, CanonKey
<1>6. Cardinality(D) = n /\ o \in orders(D)
  <2>1. o \in [1..n -> D] /\ \A i \in 1..n : o[i] = canonKey(s[i][1])
    BY <1>3
  <2>2. ASSUME NEW e \in D PROVE \E i \in 1..n : o[i] = e
    BY <1>3, <2>1
  <2>3. ASSUME NEW i \in 1..n, NEW j \in 1..n, o[i] = o[j] PROVE i = j
    BY <1>1, <1>3, <2>1, <2>3 DEF fineFragments
  <2>. HIDE DEF o, D, n
  <2>. QED BY <1>3, <2>1, <2>2, <2>3, Listed
<1>. DEFINE ks == sorted(D)
            r == [i \in 1..n |-> <<ks[i], c[ks[i]]>>]
<1>7. ks \in orders(D)
  BY <1>3, <1>5, <1>6, Sortable
<1>8. /\ ks \in [1..n -> D]
      /\ \A e \in D : \E i \in 1..n : ks[i] = e
      /\ \A i, j \in 1..n : ks[i] = ks[j] => i = j
  BY <1>6, <1>7 DEF orders
<1>9. ASSUME NEW k \in D
      PROVE  /\ k \in selKey /\ canonKey(k) = k /\ c[k] \in RawValues /\ c[k] # Error
             /\ canonValue(k, c[k]) = c[k]
  <2>1. PICK i \in DOMAIN s : k = canonKey(s[i][1])
    OBVIOUS
  <2>2. k \in selKey /\ canonValue(k, s[i][2]) # Error /\ c[k] = canonValue(k, s[i][2])
    BY <1>1, <1>2, <2>1 DEF fineFragments, good, canonOf
  <2>3. canonKey(k) = k
    BY <1>5, <2>2, CanonKey
  <2>. HIDE DEF D
  <2>. QED BY <1>4, <2>2, <2>3, CanonValueStays
<1>10. c \in [D -> RawValues]
  BY <1>2 DEF canonOf
<1>. HIDE DEF D, ks, n
<1>11. ParseSelectorString(s) = r
  <2>1. DOMAIN c = D /\ DOMAIN ks = 1..n
    BY <1>8, <1>10
  <2>. QED BY <1>2, <2>1 DEF join, ks
<1>12. /\ DOMAIN r = 1..n
       /\ \A i \in 1..n : r[i] = <<ks[i], c[ks[i]]>>
  OBVIOUS
<1>13. ASSUME NEW i \in 1..n
       PROVE  /\ r[i] \in RawKeys \X RawValues /\ ks[i] \in D
              /\ r[i][1] = ks[i] /\ r[i][2] = c[ks[i]]
  <2>1. ks[i] \in D /\ ks[i] \in RawKeys /\ c[ks[i]] \in RawValues
    BY <1>5, <1>8, <1>9
  <2>. QED BY <1>12, <2>1
<1>. HIDE DEF r
<1>14. r \in Seq(Fragments)
  <2>. DEFINE F == Fragments
  <2>1. \A i \in 1..n : r[i] \in F
    BY <1>13 DEF Fragments
  <2>2. r = [i \in 1..n |-> r[i]]
    BY DEF r
  <2>. HIDE DEF F
  <2>3. r \in Seq(F)
    BY SMT, <1>3, <2>1, <2>2 DEF n
  <2>. QED BY <2>3 DEF F
<1>15. ASSUME NEW i \in 1..n
       PROVE  canonKey(r[i][1]) = ks[i] /\ canonValue(ks[i], r[i][2]) = c[ks[i]]
  <2>1. canonKey(ks[i]) = ks[i] /\ canonValue(ks[i], c[ks[i]]) = c[ks[i]]
    BY <1>9, <1>13
  <2>2. r[i][1] = ks[i] /\ r[i][2] = c[ks[i]]
    BY <1>13
  <2>. QED BY <2>1, <2>2
<1>16. fineFragments(r)
  <2>1. ASSUME NEW i \in 1..n PROVE r[i] # Bare /\ good(r[i][1], r[i][2])
    <3>1. Bare \notin RawKeys \X RawValues
      BY SelectorAssumption
    <3>2. r[i] # Bare
      BY <1>13, <3>1
    <3>3. ks[i] \in selKey /\ c[ks[i]] # Error
      BY <1>9, <1>13
    <3>4. canonKey(r[i][1]) = ks[i] /\ canonValue(ks[i], r[i][2]) = c[ks[i]]
      BY <1>15
    <3>. QED BY <3>2, <3>3, <3>4 DEF good
  <2>2. ASSUME NEW i \in 1..n, NEW j \in 1..n, canonKey(r[i][1]) = canonKey(r[j][1]) PROVE i = j
    <3>1. ks[i] = ks[j]
      BY <1>15, <2>2
    <3>. QED BY <1>8, <3>1
  <2>. QED BY <1>12, <2>1, <2>2 DEF fineFragments
<1>17. canonOf(c, r)
  <2>1. ASSUME NEW i \in 1..n PROVE canonKey(r[i][1]) = ks[i] /\ ks[i] \in D
    BY <1>13, <1>15
  <2>2. {canonKey(r[i][1]) : i \in 1..n} = D
    <3>. DEFINE X == {canonKey(r[i][1]) : i \in 1..n}
    <3>1. ASSUME NEW x \in X PROVE x \in D
      BY <2>1
    <3>2. ASSUME NEW x \in D PROVE x \in X
      <4>1. PICK i \in 1..n : ks[i] = x
        BY <1>8
      <4>. QED BY <2>1, <4>1
    <3>. HIDE DEF X
    <3>3. X = D
      BY <3>1, <3>2
    <3>. QED BY <3>3 DEF X
  <2>. QED BY <1>10, <1>12, <1>15, <2>2 DEF canonOf
<1>18. PICK d : canonOf(d, r) /\ ParseSelectorString(r) = join(d)
  BY <1>14, <1>16, Parsed
<1>19. d = c
  BY <1>17, <1>18, CanonUnique
<1>. QED BY <1>2, <1>11, <1>18, <1>19

(* The fragments in another order.                                         *)
LEMMA ReorderedSame ==
    ASSUME raw \in Seq(Fragments), NEW q \in permutations
    PROVE  ParseSelectorString([i \in DOMAIN raw |-> raw[q[i]]]) = ParseSelectorString(raw)
<1>. DEFINE t == [i \in DOMAIN raw |-> raw[q[i]]]
            F == Fragments
<1>1. /\ q \in [DOMAIN raw -> DOMAIN raw]
      /\ \A i \in DOMAIN raw : \E j \in DOMAIN raw : q[j] = i
      /\ \A i, j \in DOMAIN raw : q[i] = q[j] => i = j
  BY DEF permutations
<1>2. DOMAIN t = DOMAIN raw /\ \A i \in DOMAIN raw : t[i] = raw[q[i]] /\ q[i] \in DOMAIN raw
  BY <1>1
<1>3. t \in Seq(Fragments)
  <2>1. raw \in Seq(F)
    OBVIOUS
  <2>2. t = [i \in DOMAIN raw |-> t[i]] /\ \A i \in DOMAIN raw : t[i] = raw[q[i]]
    OBVIOUS
  <2>. HIDE DEF F, t
  <2>3. Len(raw) \in Nat /\ DOMAIN raw = 1..Len(raw) /\ \A i \in DOMAIN raw : raw[i] \in F
    BY SMT, <2>1
  <2>4. t = [i \in 1..Len(raw) |-> t[i]] /\ \A i \in 1..Len(raw) : t[i] \in F
    BY <1>2, <2>2, <2>3
  <2>5. t \in Seq(F)
    BY SMT, <2>3, <2>4
  <2>. QED BY <2>5 DEF F
<1>. HIDE DEF t
<1>4. fineFragments(raw) => fineFragments(t)
  <2>. SUFFICES ASSUME fineFragments(raw) PROVE fineFragments(t)
    OBVIOUS
  <2>1. ASSUME NEW i \in DOMAIN t PROVE t[i] # Bare /\ good(t[i][1], t[i][2])
    <3>1. t[i] = raw[q[i]] /\ q[i] \in DOMAIN raw
      BY <1>2
    <3>. QED BY <3>1 DEF fineFragments
  <2>2. ASSUME NEW i \in DOMAIN t, NEW j \in DOMAIN t, canonKey(t[i][1]) = canonKey(t[j][1])
        PROVE  i = j
    <3>1. q[i] = q[j]
      <4>1. /\ q[i] \in DOMAIN raw /\ q[j] \in DOMAIN raw
            /\ t[i] = raw[q[i]] /\ t[j] = raw[q[j]]
        BY <1>2
      <4>2. canonKey(raw[q[i]][1]) = canonKey(raw[q[j]][1])
        BY <2>2, <4>1
      <4>. QED BY <4>1, <4>2 DEF fineFragments
    <3>. QED BY <1>1, <1>2, <3>1
  <2>. QED BY <2>1, <2>2 DEF fineFragments
<1>5. fineFragments(t) => fineFragments(raw)
  <2>. SUFFICES ASSUME fineFragments(t) PROVE fineFragments(raw)
    OBVIOUS
  <2>1. ASSUME NEW i \in DOMAIN raw PROVE raw[i] # Bare /\ good(raw[i][1], raw[i][2])
    <3>1. PICK j \in DOMAIN raw : q[j] = i
      BY <1>1
    <3>2. t[j] = raw[i] /\ j \in DOMAIN t
      BY <1>2, <3>1
    <3>. QED BY <3>2 DEF fineFragments
  <2>2. ASSUME NEW i \in DOMAIN raw, NEW j \in DOMAIN raw,
               canonKey(raw[i][1]) = canonKey(raw[j][1])
        PROVE  i = j
    <3>1. PICK a \in DOMAIN raw : q[a] = i
      BY <1>1
    <3>2. PICK b \in DOMAIN raw : q[b] = j
      BY <1>1
    <3>3. t[a] = raw[i] /\ t[b] = raw[j] /\ a \in DOMAIN t /\ b \in DOMAIN t
      BY <1>2, <3>1, <3>2
    <3>4. canonKey(t[a][1]) = canonKey(t[b][1])
      BY <2>2, <3>3
    <3>5. a = b
      BY <3>3, <3>4 DEF fineFragments
    <3>. QED BY <3>1, <3>2, <3>5
  <2>. QED BY <2>1, <2>2 DEF fineFragments
<1>6. ASSUME NEW c, canonOf(c, t) PROVE canonOf(c, raw)
  <2>1. {canonKey(t[i][1]) : i \in DOMAIN t} = {canonKey(raw[i][1]) : i \in DOMAIN raw}
    <3>. DEFINE X == {canonKey(t[i][1]) : i \in DOMAIN t}
                Y == {canonKey(raw[i][1]) : i \in DOMAIN raw}
    <3>1. ASSUME NEW x \in X PROVE x \in Y
      <4>1. PICK i \in DOMAIN t : x = canonKey(t[i][1])
        OBVIOUS
      <4>2. q[i] \in DOMAIN raw /\ x = canonKey(raw[q[i]][1])
        BY <1>2, <4>1
      <4>. QED BY <4>2
    <3>2. ASSUME NEW x \in Y PROVE x \in X
      <4>1. PICK i \in DOMAIN raw : x = canonKey(raw[i][1])
        OBVIOUS
      <4>2. PICK j \in DOMAIN raw : q[j] = i
        BY <1>1
      <4>3. j \in DOMAIN t /\ x = canonKey(t[j][1])
        BY <1>2, <4>1, <4>2
      <4>. QED BY <4>3
    <3>. HIDE DEF X, Y
    <3>3. X = Y
      BY <3>1, <3>2
    <3>. QED BY <3>3 DEF X, Y
  <2>2. ASSUME NEW i \in DOMAIN raw
        PROVE  c[canonKey(raw[i][1])] = canonValue(canonKey(raw[i][1]), raw[i][2])
    <3>1. PICK j \in DOMAIN raw : q[j] = i
      BY <1>1
    <3>2. t[j] = raw[i] /\ j \in DOMAIN t
      BY <1>2, <3>1
    <3>3. c[canonKey(t[j][1])] = canonValue(canonKey(t[j][1]), t[j][2])
      BY <1>6, <3>2 DEF canonOf
    <3>. QED BY <3>2, <3>3
  <2>3. c \in [{canonKey(t[i][1]) : i \in DOMAIN t} -> RawValues]
    BY <1>6 DEF canonOf
  <2>. QED BY <2>1, <2>2, <2>3 DEF canonOf
<1>7. ParseSelectorString(t) = ParseSelectorString(raw)
  BY <1>3, <1>4, <1>5, <1>6, SameParsed
<1>. QED BY <1>7 DEF t

(* A fragment spelled otherwise.                                           *)
LEMMA RespelledSame ==
    ASSUME raw \in Seq(Fragments), NEW h \in DOMAIN raw, NEW f \in Fragments,
           meaning(f) = meaning(raw[h])
    PROVE  ParseSelectorString([raw EXCEPT ![h] = f]) = ParseSelectorString(raw)
<1>. DEFINE t == [raw EXCEPT ![h] = f]
            F == Fragments
<1>1. /\ t \in Seq(Fragments) /\ DOMAIN t = DOMAIN raw /\ raw[h] \in Fragments
      /\ t[h] = f /\ \A i \in DOMAIN raw : i # h => t[i] = raw[i]
  <2>1. raw \in Seq(F) /\ f \in F
    OBVIOUS
  <2>. HIDE DEF F
  <2>2. /\ t \in Seq(F) /\ DOMAIN t = DOMAIN raw /\ raw[h] \in F
        /\ t[h] = f /\ \A i \in DOMAIN raw : i # h => t[i] = raw[i]
    BY SMT, <2>1
  <2>. QED BY <2>2 DEF F
<1>. HIDE DEF t
<1>2. /\ f = Bare <=> raw[h] = Bare
      /\ f # Bare => /\ canonKey(f[1]) = canonKey(raw[h][1])
                     /\ canonValue(canonKey(f[1]), f[2]) = canonValue(canonKey(raw[h][1]), raw[h][2])
  BY <1>1, SameMeaning
<1>3. ASSUME NEW i \in DOMAIN raw
      PROVE  /\ t[i] = Bare <=> raw[i] = Bare
             /\ raw[i] # Bare =>
                  /\ canonKey(t[i][1]) = canonKey(raw[i][1])
                  /\ canonValue(canonKey(t[i][1]), t[i][2]) = canonValue(canonKey(raw[i][1]), raw[i][2])
  <2>1. CASE i = h
    BY <1>1, <1>2, <2>1
  <2>2. CASE i # h
    <3>1. t[i] = raw[i]
      BY <1>1, <2>2
    <3>. QED BY <3>1
  <2>. QED BY <2>1, <2>2
<1>4. ASSUME NEW i \in DOMAIN raw, raw[i] # Bare
      PROVE  good(t[i][1], t[i][2]) <=> good(raw[i][1], raw[i][2])
  BY <1>3, <1>4 DEF good
<1>5. CASE \E i \in DOMAIN raw : raw[i] = Bare
  <2>1. ~fineFragments(raw) /\ ~fineFragments(t)
    BY <1>1, <1>3, <1>5 DEF fineFragments
  <2>2. ParseSelectorString(raw) = Error /\ ParseSelectorString(t) = Error
    BY <1>1, <2>1, Parsed
  <2>. QED BY <2>2 DEF t
<1>6. CASE \A i \in DOMAIN raw : raw[i] # Bare
  <2>1. /\ \A i \in DOMAIN raw : t[i] # Bare /\ canonKey(t[i][1]) = canonKey(raw[i][1])
        /\ \A i \in DOMAIN raw : canonValue(canonKey(t[i][1]), t[i][2])
                                   = canonValue(canonKey(raw[i][1]), raw[i][2])
        /\ \A i \in DOMAIN raw : good(t[i][1], t[i][2]) <=> good(raw[i][1], raw[i][2])
    BY <1>3, <1>4, <1>6
  <2>2. fineFragments(t) <=> fineFragments(raw)
    <3>1. \A i, j \in DOMAIN raw : canonKey(t[i][1]) = canonKey(t[j][1])
                                     <=> canonKey(raw[i][1]) = canonKey(raw[j][1])
      BY <2>1
    <3>. QED BY <1>1, <1>6, <2>1, <3>1 DEF fineFragments
  <2>3. ASSUME NEW c, canonOf(c, t) PROVE canonOf(c, raw)
    <3>1. {canonKey(t[i][1]) : i \in DOMAIN t} = {canonKey(raw[i][1]) : i \in DOMAIN raw}
      BY <1>1, <2>1
    <3>2. c \in [{canonKey(t[i][1]) : i \in DOMAIN t} -> RawValues]
          /\ \A i \in DOMAIN raw : c[canonKey(t[i][1])] = canonValue(canonKey(t[i][1]), t[i][2])
      BY <1>1, <2>3 DEF canonOf
    <3>3. \A i \in DOMAIN raw : c[canonKey(raw[i][1])] = canonValue(canonKey(raw[i][1]), raw[i][2])
      BY <2>1, <3>2
    <3>. QED BY <3>1, <3>2, <3>3 DEF canonOf
  <2>4. ParseSelectorString(t) = ParseSelectorString(raw)
    BY <1>1, <2>2, <2>3, SameParsed
  <2>. QED BY <2>4 DEF t
<1>. QED BY <1>5, <1>6

(* The map of pairs ranged over in another order.                          *)
LEMMA AnyOrderSame ==
    ASSUME NEW s \in Seq(Fragments), ParsePairs(s) # Error,
           NEW order \in orders(DOMAIN ParsePairs(s))
    PROVE  canonicalAlong(order, ParsePairs(s)) = ParseSelectorString(s)
<1>. DEFINE m == ParsePairs(s)
            p == CHOOSE o \in orders(DOMAIN m) : TRUE
            F == Fragments
<1>1. distinct(s)
  BY DEF ParsePairs, distinct
<1>2. PICK D \in SUBSET RawKeys : m \in [D -> RawValues] /\ Cardinality(D) = Len(s)
  BY <1>1, PairsMade
<1>3. DOMAIN m = D
  BY <1>2
<1>4. Cardinality(D) \in Nat
  <2>1. s \in Seq(F)
    OBVIOUS
  <2>. HIDE DEF F
  <2>2. Len(s) \in Nat
    BY SMT, <2>1
  <2>. QED BY <1>2, <2>2
<1>5. p \in orders(D) /\ order \in orders(D)
  BY <1>3
<1>6. ParseSelectorString(s) = canonicalAlong(p, m)
  BY DEF ParseSelectorString, CanonicalSelector, noErr
<1>. HIDE DEF m, p
<1>7. PICK c : soFar(c, m, D) /\ canonicalAlong(order, m) = IF fine(m, D) THEN join(c) ELSE Error
  BY <1>2, <1>4, <1>5, AlongOrder
<1>8. PICK d : soFar(d, m, D) /\ canonicalAlong(p, m) = IF fine(m, D) THEN join(d) ELSE Error
  BY <1>2, <1>4, <1>5, AlongOrder
<1>9. fine(m, D) => c = d
  BY <1>7, <1>8, CanonMap DEF soFar
<1>10. canonicalAlong(order, m) = canonicalAlong(p, m)
  <2>1. CASE fine(m, D)
    BY <1>7, <1>8, <1>9, <2>1
  <2>2. CASE ~fine(m, D)
    BY <1>7, <1>8, <2>2
  <2>. QED BY <2>1, <2>2
<1>. QED BY <1>6, <1>10 DEF m

(* A parameter, given beside the selector and not as a fragment of it.     *)
LEMMA ParameterSame ==
    ASSUME raw \in Seq(Fragments), \A i \in DOMAIN raw : raw[i] # Bare,
           NEW k \in Known, NEW v \in RawValues
    PROVE  parseResolveQuery(raw, [x \in {k} |-> v]) = ParseSelectorString(Append(raw, <<k, v>>))
<1>. DEFINE g == <<k, v>>
            t == Append(raw, g)
            n == Len(raw)
            F == Fragments
            params == [x \in {k} |-> v]
            m == ParsePairs(raw)
<1>1. k \in RawKeys /\ keyOf(g) = k /\ g[2] = v
  <2>1. k \in selKey /\ k \in RawKeys
    BY SelectorAssumption
  <2>. QED BY <2>1, CanonKey DEF keyOf
<1>2. g \in Fragments /\ g # Bare
  <2>1. g \in RawKeys \X RawValues
    BY <1>1
  <2>2. Bare \notin RawKeys \X RawValues
    BY SelectorAssumption
  <2>. HIDE DEF g
  <2>. QED BY <2>1, <2>2 DEF Fragments
<1>. HIDE DEF g
<1>3. /\ n \in Nat /\ DOMAIN raw = 1..n /\ t \in Seq(Fragments) /\ DOMAIN t = 1..(n + 1)
      /\ t[n + 1] = g /\ \A i \in 1..n : t[i] = raw[i]
  <2>1. raw \in Seq(F) /\ g \in F
    BY <1>2
  <2>. HIDE DEF F
  <2>2. /\ n \in Nat /\ DOMAIN raw = 1..n /\ t \in Seq(F) /\ DOMAIN t = 1..(n + 1)
        /\ t[n + 1] = g /\ \A i \in 1..n : t[i] = raw[i]
    BY SMT, <2>1
  <2>. QED BY <2>2 DEF F
<1>. HIDE DEF t, n
<1>4. /\ n + 1 \in 1..(n + 1) /\ n + 1 \notin 1..n
      /\ \A i \in 1..n : i \in 1..(n + 1)
      /\ \A i \in 1..(n + 1) : i \in 1..n \/ i = n + 1
  BY SMT, <1>3
<1>5. DOMAIN params = {k} /\ params[k] = v
  OBVIOUS
<1>. HIDE DEF params
<1>6. CASE ~distinct(raw)
  <2>1. m = Error
    BY <1>6 DEF ParsePairs, distinct
  <2>2. parseResolveQuery(raw, params) = Error
    BY <2>1 DEF parseResolveQuery, noErr
  <2>3. PICK i \in 1..n, j \in 1..n : keyOf(raw[i]) = keyOf(raw[j]) /\ i # j
    BY <1>3, <1>6 DEF distinct
  <2>4. i \in DOMAIN t /\ j \in DOMAIN t /\ keyOf(t[i]) = keyOf(t[j])
    BY <1>3, <1>4, <2>3
  <2>5. ParsePairs(t) = Error
    BY <2>3, <2>4 DEF ParsePairs
  <2>6. ParseSelectorString(t) = Error
    BY <2>5 DEF ParseSelectorString, noErr
  <2>. QED BY <2>2, <2>6 DEF t, g, params
<1>7. CASE distinct(raw)
  <2>1. PICK D \in SUBSET RawKeys :
          /\ m \in [D -> RawValues] /\ D = {keyOf(raw[i]) : i \in DOMAIN raw} /\ m # Error
          /\ \A i \in DOMAIN raw : m[keyOf(raw[i])] = raw[i][2]
    BY <1>7, PairsMade
  <2>2. DOMAIN m = D
    BY <2>1
  <2>. HIDE DEF m
  <2>3. CASE k \in D
    <3>1. parseResolveQuery(raw, params) = Error
      BY <1>5, <2>2, <2>3 DEF parseResolveQuery, m
    <3>2. PICK i \in DOMAIN raw : k = keyOf(raw[i])
      BY <2>1, <2>3
    <3>3. i \in DOMAIN t /\ n + 1 \in DOMAIN t /\ i # n + 1 /\ keyOf(t[i]) = keyOf(t[n + 1])
      BY <1>1, <1>3, <1>4, <3>2
    <3>4. ParsePairs(t) = Error
      BY <3>3 DEF ParsePairs
    <3>5. ParseSelectorString(t) = Error
      BY <3>4 DEF ParseSelectorString, noErr
    <3>. QED BY <3>1, <3>5 DEF t, g, params
  <2>4. CASE k \notin D
    <3>. DEFINE M == [x \in D \cup {k} |-> IF x \in {k} THEN params[x] ELSE m[x]]
                N == ParsePairs(t)
    <3>1. D \cap {k} = {}
      BY <2>4
    <3>2. parseResolveQuery(raw, params) = CanonicalSelector(M)
      BY <1>5, <2>1, <2>2, <3>1 DEF parseResolveQuery, m, noErr
    <3>3. distinct(t)
      <4>1. ASSUME NEW i \in 1..n PROVE keyOf(raw[i]) \in D
        BY <1>3, <2>1
      <4>2. ASSUME NEW i \in DOMAIN t PROVE t[i] # Bare
        BY <1>2, <1>3, <1>4
      <4>3. ASSUME NEW i \in DOMAIN t, NEW j \in DOMAIN t, keyOf(t[i]) = keyOf(t[j]) PROVE i = j
        <5>1. CASE i \in 1..n /\ j \in 1..n
          <6>1. keyOf(raw[i]) = keyOf(raw[j])
            BY <1>3, <4>3, <5>1
          <6>. QED BY <1>3, <1>7, <5>1, <6>1 DEF distinct
        <5>2. CASE i \in 1..n /\ j = n + 1
          BY <1>1, <1>3, <2>4, <4>1, <4>3, <5>2
        <5>3. CASE i = n + 1 /\ j \in 1..n
          BY <1>1, <1>3, <2>4, <4>1, <4>3, <5>3
        <5>. QED BY <1>3, <1>4, <5>1, <5>2, <5>3
      <4>. QED BY <4>2, <4>3 DEF distinct
    <3>4. PICK E \in SUBSET RawKeys :
            /\ N \in [E -> RawValues] /\ E = {keyOf(t[i]) : i \in DOMAIN t} /\ N # Error
            /\ \A i \in DOMAIN t : N[keyOf(t[i])] = t[i][2]
      BY <1>3, <3>3, PairsMade
    <3>5. ParseSelectorString(t) = CanonicalSelector(N)
      BY <3>4 DEF ParseSelectorString, noErr
    <3>. HIDE DEF N
    <3>6. ASSUME NEW i \in 1..n
          PROVE  /\ keyOf(raw[i]) \in E /\ keyOf(raw[i]) # k
                 /\ N[keyOf(raw[i])] = m[keyOf(raw[i])]
      <4>1. i \in DOMAIN t /\ i \in DOMAIN raw /\ t[i] = raw[i]
        BY <1>3, <1>4
      <4>2. keyOf(raw[i]) \in D /\ keyOf(raw[i]) \in E
        BY <2>1, <3>4, <4>1
      <4>3. N[keyOf(raw[i])] = raw[i][2] /\ m[keyOf(raw[i])] = raw[i][2]
        BY <2>1, <3>4, <4>1
      <4>. QED BY <2>4, <4>2, <4>3
    <3>7. k \in E /\ N[k] = v
      <4>1. n + 1 \in DOMAIN t /\ t[n + 1] = g
        BY <1>3, <1>4
      <4>2. keyOf(t[n + 1]) \in E /\ N[keyOf(t[n + 1])] = t[n + 1][2]
        BY <3>4, <4>1
      <4>. QED BY <1>1, <4>1, <4>2
    <3>8. E = D \cup {k}
      <4>1. ASSUME NEW x \in E PROVE x \in D \cup {k}
        <5>1. PICK i \in DOMAIN t : x = keyOf(t[i])
          BY <3>4
        <5>2. CASE i \in 1..n
          <6>1. x = keyOf(raw[i]) /\ i \in DOMAIN raw
            BY <1>3, <5>1, <5>2
          <6>. QED BY <2>1, <6>1
        <5>3. CASE i = n + 1
          BY <1>1, <1>3, <5>1, <5>3
        <5>. QED BY <1>3, <1>4, <5>2, <5>3
      <4>2. ASSUME NEW x \in D PROVE x \in E
        <5>1. PICK i \in DOMAIN raw : x = keyOf(raw[i])
          BY <2>1
        <5>. QED BY <1>3, <3>6, <5>1
      <4>. QED BY <3>7, <4>1, <4>2
    <3>9. ASSUME NEW x \in E PROVE N[x] = IF x \in {k} THEN params[x] ELSE m[x]
      <4>1. CASE x = k
        BY <1>5, <3>7, <4>1
      <4>2. CASE x # k
        <5>1. PICK i \in DOMAIN raw : x = keyOf(raw[i])
          BY <2>1, <3>8, <4>2
        <5>2. N[x] = m[x]
          BY <1>3, <3>6, <5>1
        <5>. QED BY <4>2, <5>2
      <4>. QED BY <4>1, <4>2
    <3>10. N = [x \in E |-> N[x]]
      BY <3>4
    <3>11. M = N
      BY <3>8, <3>9, <3>10
    <3>. QED BY <3>2, <3>5, <3>11 DEF t, g, params
  <2>. QED BY <2>3, <2>4
<1>. QED BY <1>6, <1>7

(* All ways to write a selector make the same one, errors included: the    *)
(* record that an owner stores under CanonicalSelector's form is the one   *)
(* that parseResolveQuery asks for.                                        *)
THEOREM SpellingDoesNotMatter == SelectorSpec => []SpellingIrrelevant
<1>. DEFINE F == Fragments
            Written == raw \in Seq(F)
<1>. HIDE DEF F
<1>1. SelectorInit => Written
  BY SMT DEF SelectorInit
<1>2. Written /\ [SelectorNext]_raw => Written'
  <2>1. ASSUME Written, NEW f \in Fragments, Write(f) PROVE Written'
    <3>1. f \in F
      BY DEF F
    <3>2. raw' = Append(raw, f)
      BY <2>1 DEF Write
    <3>. QED BY SMT, <2>1, <3>1, <3>2
  <2>2. ASSUME Written, UNCHANGED raw PROVE Written'
    BY <2>2
  <2>. QED BY <2>1, <2>2 DEF SelectorNext
<1>3. Written => SpellingIrrelevant
  <2>. SUFFICES ASSUME Written PROVE SpellingIrrelevant
    OBVIOUS
  <2>. DEFINE c == ParseSelectorString(raw)
              pairs == ParsePairs(raw)
  <2>0. raw \in Seq(Fragments)
    BY DEF F
  <2>1. \A s \in reordered : ParseSelectorString(s) = c
    <3>. SUFFICES ASSUME NEW s \in reordered PROVE ParseSelectorString(s) = c
      OBVIOUS
    <3>1. PICK q \in permutations : s = [i \in DOMAIN raw |-> raw[q[i]]]
      BY DEF reordered
    <3>2. ParseSelectorString([i \in DOMAIN raw |-> raw[q[i]]]) = c
      BY <2>0, ReorderedSame
    <3>. QED BY <3>1, <3>2
  <2>2. noErr(pairs) => \A order \in orders(DOMAIN pairs) : canonicalAlong(order, pairs) = c
    BY <2>0, AnyOrderSame DEF noErr
  <2>3. \A i \in DOMAIN raw : \A f \in spellings[raw[i]] :
          ParseSelectorString([raw EXCEPT ![i] = f]) = c
    <3>. SUFFICES ASSUME NEW i \in DOMAIN raw, NEW f \in spellings[raw[i]]
                  PROVE  ParseSelectorString([raw EXCEPT ![i] = f]) = c
      OBVIOUS
    <3>1. raw[i] \in F
      BY SMT
    <3>2. f \in Fragments /\ meaning(f) = meaning(raw[i])
      BY <3>1 DEF spellings, F
    <3>. QED BY <2>0, <3>2, RespelledSame
  <2>4. noErr(c) => ParseSelectorString(c) = c
    BY <2>0, CanonicalStays DEF noErr
  <2>5. (\A i \in DOMAIN raw : raw[i] # Bare) =>
          \A k \in Known, v \in RawValues \ {""} :
            parseResolveQuery(raw, [x \in {k} |-> v]) = ParseSelectorString(Append(raw, <<k, v>>))
    BY <2>0, ParameterSame
  <2>. HIDE DEF c, pairs
  <2>. QED BY <2>1, <2>2, <2>3, <2>4, <2>5 DEF SpellingIrrelevant, c, pairs
<1>. HIDE DEF Written
<1>. QED BY <1>1, <1>2, <1>3, PTL DEF SelectorSpec
=============================================================================
