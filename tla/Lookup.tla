------------------------------- MODULE Lookup -------------------------------
(***************************************************************************)
(* ddns-lookup (resolver/cmd/ddns-lookup/main.go): one lookup of one       *)
(* record, which finds a resolver in the directory, asks it, and checks    *)
(* the answer against the chain.  Operators come and go, resolvers move    *)
(* and the record changes between its steps.  What the program decides     *)
(* from the answer alone is one step with the answer.                      *)
(***************************************************************************)
EXTENDS ResolverRegistry, RecordSignatures, FiniteSets

CONSTANTS
    theName,        \* the name looked up
    Results,        \* what NamespaceDApp.resolve may return for the query
    NoResult,       \* and when there is no live record
    Proofs,         \* what an answer may carry as a proof
    MaxShown        \* bound of the model: different results of the chain during a lookup

VARIABLES
    onchain,        \* NamespaceDApp.resolve of the query
    shown,          \* history: what that was since the lookup began
    serving,        \* endpoint -> the key of the resolver there, ZeroKey if none
    look            \* the lookup

lookupVars == <<onchain, shown, serving, look>>

vars == <<registryVars, lookupVars>>

underWay == look.pc \in {"asking", "crossCheck"}

-----------------------------------------------------------------------------
(* The world around the lookup.                                            *)

(* The record is set, removed, or hidden by expiry or a change of hands.   *)
ChainChanges(r) ==
    /\ r # onchain
    /\ onchain' = r
    /\ shown' = IF underWay THEN shown \cup {r} ELSE shown
    /\ Cardinality(shown') <= MaxShown
    /\ UNCHANGED <<registryVars, serving, look>>

(* A resolver starts, stops, moves, or gets another identity.              *)
Serve(e, key) ==
    /\ serving' = [serving EXCEPT ![e] = key]
    /\ UNCHANGED <<registryVars, onchain, shown, look>>

Directory ==
    /\ Registration
    /\ UNCHANGED lookupVars

-----------------------------------------------------------------------------
(* What the lookup decides.                                                *)

NoEnvelope == [key |-> ZeroKey, intact |-> FALSE, result |-> NoResult, proof |-> NoProof]

(* The answer is printed as verified, or the program exits with an error.  *)
ended(env, ok) ==
    [look EXCEPT !.pc = "done", !.ok = ok, !.env = IF ok THEN env ELSE NoEnvelope]

(* The proof is checked if there is one.                                   *)
proofOK(env) == env.proof = NoProof \/ verifyZK(env.proof, env.result)

(* Faulty variant: a "no match" is believed.                               *)
diffFoundOnly(chainResult, result) == result = NoResult \/ chainResult = result

(* Owner, key, commitment, signature and body must all be the chain's, and *)
(* "no match" must be the chain's answer too.                              *)
diffAgainstChain(chainResult, result) == chainResult = result

(* The envelope is signed by the key it names.                             *)
VerifyEnvelope(env) == env.intact

(* Faulty variant: any resolver's signature will do.                       *)
unpinned(env) == VerifyEnvelope(env)

(* And that is the key the directory gave for the endpoint, if it was      *)
(* asked.                                                                  *)
fromPinned(env) == VerifyEnvelope(env) /\ (look.discover => env.key = look.pinned)

(* The checks up to the one that asks the chain.                           *)
afterAnswer(env) ==
    IF ~fromPinned(env) THEN ended(env, FALSE)
    ELSE IF env.result # NoResult
            /\ ~VerifyOwnerSig(theName, env.result, env.result.owner, env.result.pubKey)
      THEN ended(env, FALSE)
    ELSE IF look.discover THEN [look EXCEPT !.pc = "crossCheck", !.env = env]
    ELSE ended(env, env.result = NoResult \/ proofOK(env))

-----------------------------------------------------------------------------
(* The lookup's steps.                                                     *)

asking(discover, key, e) ==
    [pc |-> "asking", discover |-> discover, pinned |-> key, endpoint |-> e,
     env |-> NoEnvelope, ok |-> FALSE]

(* A resolver given by the user, or the first of the directory.            *)
Begin ==
    /\ look.pc = "idle"
    /\ \/ \E e \in Endpoints : look' = asking(FALSE, ZeroKey, e)
       \/ LET out == activeResolvers
          IN  /\ out # << >>
              /\ look' = asking(TRUE, out[1].pubKey, out[1].endpoint)
    /\ shown' = {onchain}
    /\ UNCHANGED <<registryVars, onchain, serving>>

(* Nobody announced, or no answer from the directory's node: the program   *)
(* gives up.                                                               *)
DiscoverFails ==
    /\ look.pc = "idle"
    /\ look' = [asking(TRUE, ZeroKey, NoEndpoint) EXCEPT !.pc = "done"]
    /\ UNCHANGED <<registryVars, onchain, shown, serving>>

(* The answer of whoever is at the endpoint: right, from a cache that is   *)
(* out of date, or wrong.                                                  *)
Answer ==
    /\ look.pc = "asking"
    /\ \E r \in Results \cup {NoResult}, p \in Proofs, intact \in BOOLEAN :
         /\ r = NoResult => p = NoProof
         /\ serving[look.endpoint] # ZeroKey
         /\ look' = afterAnswer([key |-> serving[look.endpoint], intact |-> intact,
                                 result |-> r, proof |-> p])
    /\ UNCHANGED <<registryVars, onchain, shown, serving>>

NoAnswer ==
    /\ look.pc = "asking"
    /\ look' = ended(NoEnvelope, FALSE)
    /\ UNCHANGED <<registryVars, onchain, shown, serving>>

crossCheck ==
    /\ look.pc = "crossCheck"
    /\ look' = ended(look.env,
                     /\ diffAgainstChain(onchain, look.env.result)
                     /\ look.env.result = NoResult \/ proofOK(look.env))
    /\ UNCHANGED <<registryVars, onchain, shown, serving>>

(* The chain cannot be read: a mismatch.                                   *)
CrossCheckFails ==
    /\ look.pc = "crossCheck"
    /\ look' = ended(look.env, FALSE)
    /\ UNCHANGED <<registryVars, onchain, shown, serving>>

Init ==
    /\ RegistryInit
    /\ onchain = NoResult
    /\ shown = {}
    /\ serving = [e \in Endpoints |-> ZeroKey]
    /\ look = [asking(FALSE, ZeroKey, NoEndpoint) EXCEPT !.pc = "idle"]

Next ==
    \/ Directory
    \/ \E r \in Results \cup {NoResult} : ChainChanges(r)
    \/ \E e \in Endpoints, key \in IdentityKeys \cup {ZeroKey} : Serve(e, key)
    \/ Begin \/ DiscoverFails \/ Answer \/ NoAnswer \/ crossCheck \/ CrossCheckFails

Spec == Init /\ [][Next]_vars

-----------------------------------------------------------------------------
(* Properties.                                                             *)

accepted == look.pc = "done" /\ look.ok

(* The comment on crossCheck: a lying or withholding resolver fails        *)
(* closed.  What a lookup with --discover accepts, "no match" included,    *)
(* the chain itself answered at some time during the lookup.               *)
AcceptedIsOnChain == accepted /\ look.discover => look.env.result \in shown

(* An answer is accepted with --discover only from the identity that some  *)
(* operator announced for that very endpoint, however keys and endpoints   *)
(* change hands in the meantime.                                           *)
AcceptedIsAnnounced ==
    accepted /\ look.discover =>
        \E op \in Operators : <<look.env.key, look.endpoint>> \in announced[op]

(* The other side of failing closed: a resolver whose answer is the        *)
(* chain's, with the proof proveRecord makes, is not called a liar if      *)
(* nothing changed during the lookup and the record is signed by its owner.*)
NoFalseAlarm ==
    LET env == look.env
    IN  (/\ look.pc = "crossCheck" /\ shown = {env.result} /\ env.result # NoResult
         /\ env.proof = proveRecord(theName, env.result))
        => /\ diffAgainstChain(onchain, env.result)
           /\ proofOK(env)
=============================================================================
