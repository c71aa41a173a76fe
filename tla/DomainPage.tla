----------------------------- MODULE DomainPage -----------------------------
(***************************************************************************)
(* GET /domains/{name} (resolver/internal/server/rest.go): the page shows  *)
(* the domain and its records, read from the chain in two calls, between   *)
(* which the name may lapse, change hands or change its records.  The      *)
(* chain is what NamespaceDApp is shown to implement, and the counter of   *)
(* registrations it stamps records with.                                   *)
(***************************************************************************)
EXTENDS Namespace, Integers

CONSTANTS
    Requests,
    Skew,           \* how far the resolver's clock may be from the chain's
    MaxTime, MaxGeneration  \* bounds of the model

VARIABLES
    generation,     \* name -> how often it has changed hands
    author,         \* history: name -> record key -> who published it
    page            \* the requests

chainVars == <<nsVars, generation, author>>

noPage == [pc |-> "idle"]

ASSUME DomainPageAssumption == Skew \in Nat /\ MaxTime \in Nat /\ MaxGeneration \in Nat

PageInit ==
    /\ NSInit
    /\ generation = [n \in Names |-> 0]
    /\ author = [n \in Names |-> [k \in Keys |-> NoOwner]]
    /\ page = [r \in Requests |-> noPage]

-----------------------------------------------------------------------------
(* Faulty variant: the name's new holder goes on in the old generation.    *)
sameGeneration(n) == UNCHANGED generation

nextGeneration(n) ==
    /\ generation[n] < MaxGeneration
    /\ generation' = [generation EXCEPT ![n] = @ + 1]

ChangesHands(n, a, p) ==
    /\ Take(n, a, p) \/ HandOver(n, a, p)
    /\ nextGeneration(n)
    /\ UNCHANGED <<author, page>>

SetRecord(n, k, b) ==
    /\ Publish(n, k, b)
    /\ author' = [author EXCEPT ![n][k] = holder[n]]
    /\ UNCHANGED <<generation, page>>

OtherChange(n) ==
    /\ \/ Extend(n) /\ paidUntil[n] < MaxTime
       \/ \E k \in Keys : Unpublish(n, k)
       \/ now < MaxTime /\ NSTick
    /\ UNCHANGED <<generation, author, page>>

-----------------------------------------------------------------------------
handleDomain(r, n) ==
    /\ page[r] = noPage
    /\ page' = [page EXCEPT ![r] = [pc |-> "domain", name |-> n]]
    /\ UNCHANGED chainVars

(* The first call.  A name that was never registered is answered with 404, *)
(* one that has lapsed, by the resolver's clock, without its records.      *)
GetDomain(r) ==
    LET n       == page[r].name
        shown(pc) == [pc |-> pc, name |-> n, owner |-> holder[n], generation |-> generation[n],
                      records |-> {}]
    IN  /\ page[r].pc = "domain"
        /\ \E s \in -Skew..Skew :
             page' = [page EXCEPT ![r] = IF holder[n] = NoOwner THEN noPage
                                         ELSE IF paidUntil[n] > now + s THEN shown("records")
                                         ELSE shown("sent")]
        /\ UNCHANGED chainVars

liveRecords(n) ==
    {[key |-> k, generation |-> generation[n], author |-> author[n][k]] :
       k \in {k \in Keys : Visible(n, k) # NoBody}}

(* The second call: the live records, if the name is active on the chain.  *)
ListRecords(r) ==
    /\ page[r].pc = "records"
    /\ page' = [page EXCEPT ![r].pc = "sent", ![r].records = liveRecords(page[r].name)]
    /\ UNCHANGED chainVars

(* A call fails for good, or the page has been read.                       *)
PageEnds(r) ==
    /\ page[r] # noPage
    /\ page' = [page EXCEPT ![r] = noPage]
    /\ UNCHANGED chainVars

PageNext ==
    \/ \E n \in Names :
         \/ \E a \in Accounts, p \in PubKeys : ChangesHands(n, a, p)
         \/ \E k \in Keys, b \in Bodies : SetRecord(n, k, b)
         \/ OtherChange(n)
    \/ \E r \in Requests :
         \/ \E n \in Names : handleDomain(r, n)
         \/ GetDomain(r) \/ ListRecords(r) \/ PageEnds(r)

PageSpec == PageInit /\ [][PageNext]_<<chainVars, page>>

-----------------------------------------------------------------------------
(* Properties.                                                             *)

(* However the chain changes between the two calls, the page does not put  *)
(* a record into the wrong mouth: a record in the generation of the head   *)
(* was published by the owner in the head, and any other one is from a     *)
(* later generation, as a reader can see, never from an earlier one.       *)
PageAttributed ==
    \A r \in Requests : page[r].pc = "sent" =>
        \A rec \in page[r].records :
            IF rec.generation = page[r].generation THEN rec.author = page[r].owner
                                                   ELSE rec.generation > page[r].generation
=============================================================================
