-------------------------- MODULE ResolverRegistry --------------------------
(***************************************************************************)
(* contracts/contracts/ResolverRegistry.sol, the directory of resolvers.   *)
(* One action per external function; a call that reverts is not a step.    *)
(***************************************************************************)
EXTENDS Naturals, Sequences, Loops

CONSTANTS
    Operators,
    IdentityKeys, ZeroKey,   \* ed25519 public keys, and bytes32(0)
    Endpoints, NoEndpoint,
    EndpointLength,          \* endpoint -> length in bytes
    MAX_ENDPOINT_LENGTH,
    MaxTime                  \* bound of the model

ASSUME RegistryAssumption ==
    /\ ZeroKey \notin IdentityKeys /\ NoEndpoint \notin Endpoints
    /\ EndpointLength \in [Endpoints -> Nat]
    /\ MAX_ENDPOINT_LENGTH \in Nat /\ MaxTime \in Nat \ {0}

VARIABLES
    now,            \* block.timestamp
    resolvers,      \* _resolvers
    operators,      \* _operators
    announced       \* history: operator -> every key and endpoint it announced

registryVars == <<now, resolvers, operators, announced>>

NoResolver == [pubKey |-> ZeroKey, endpoint |-> NoEndpoint, updatedAt |-> 0, active |-> FALSE]

validEndpoint(e) == EndpointLength[e] \in 1..MAX_ENDPOINT_LENGTH

(* Faulty variant: an operator that is not active is enumerated anew.      *)
listedIfInactive(op) == IF resolvers[op].active THEN operators ELSE Append(operators, op)

(* The first announcement of an operator enumerates it.                    *)
listed(op) == IF resolvers[op].updatedAt = 0 THEN Append(operators, op) ELSE operators

announce(op, key, e) ==
    /\ key # ZeroKey
    /\ validEndpoint(e)
    /\ operators' = listed(op)
    /\ resolvers' = [resolvers EXCEPT ![op] =
                       [pubKey |-> key, endpoint |-> e, updatedAt |-> now, active |-> TRUE]]
    /\ announced' = [announced EXCEPT ![op] = @ \cup {<<key, e>>}]
    /\ UNCHANGED now

revoke(op) ==
    /\ resolvers[op].active
    /\ resolvers' = [resolvers EXCEPT ![op].active = FALSE]
    /\ UNCHANGED <<now, operators, announced>>

RegistryTick ==
    /\ now < MaxTime
    /\ now' = now + 1
    /\ UNCHANGED <<resolvers, operators, announced>>

(* The two loops of activeResolvers.                                       *)
activeResolvers ==
    LET active == {op \in Operators : resolvers[op].active}
        ops    == Subsequence(operators, active)
    IN  [i \in 1..Len(ops) |-> [operator |-> ops[i], pubKey |-> resolvers[ops[i]].pubKey,
                                endpoint |-> resolvers[ops[i]].endpoint]]

(* No block has the timestamp 0.                                           *)
RegistryInit ==
    /\ now = 1
    /\ resolvers = [op \in Operators |-> NoResolver]
    /\ operators = << >>
    /\ announced = [op \in Operators |-> {}]

Registration ==
    \E op \in Operators :
        \/ \E key \in IdentityKeys, e \in Endpoints : announce(op, key, e)
        \/ revoke(op)

RegistryNext == Registration \/ RegistryTick

RegistrySpec == RegistryInit /\ [][RegistryNext]_registryVars

-----------------------------------------------------------------------------
(* Properties.                                                             *)

(* The directory's variables have values of their types.                   *)
RegistryTypeOK ==
    /\ now \in 1..MaxTime
    /\ resolvers \in [Operators -> [pubKey : IdentityKeys \cup {ZeroKey},
                                    endpoint : Endpoints \cup {NoEndpoint},
                                    updatedAt : 0..MaxTime, active : BOOLEAN]]
    /\ operators \in Seq(Operators)

(* _operators enumerates every operator that ever announced, once, however *)
(* often it revokes, comes back, or announces another key.                 *)
OperatorsExact ==
    /\ \A i, j \in 1..Len(operators) : operators[i] = operators[j] => i = j
    /\ \A op \in Operators :
         announced[op] # {} <=> \E i \in 1..Len(operators) : operators[i] = op
=============================================================================
