------------------------------ MODULE Resolver ------------------------------
(***************************************************************************)
(* The resolver (resolver/internal/server and resolver/internal/chain):    *)
(* queries answered from the cache or the chain, and the watcher that      *)
(* polls the contract's events to invalidate the cache, all concurrent     *)
(* with one another and with the chain.  The chain is the abstract         *)
(* Namespace; every transaction is a block of its own, and blocks are      *)
(* final.  The chain's and the resolver's clocks are one.                  *)
(***************************************************************************)
EXTENDS Namespace, Sequences, FiniteSets

CONSTANTS
    Workers,          \* the goroutines of concurrent queries
    BodyTTL,          \* record -> its on-chain TTL
    cacheSize,
    maxBlockSpan,
    MaxTime, MaxBlocks  \* bounds of the model

VARIABLES
    log,              \* the block log: kind and name of each block's event
    entries, lru, nameKeys, hashNames,  \* the cache
    worker,           \* goroutine -> where its query is
    watch,            \* the event watcher
    delivered         \* history: the blocks whose event reached the cache

ASSUME ResolverAssumption ==
    /\ BodyTTL \in [Bodies -> Nat]
    /\ cacheSize \in Nat \ {0} /\ maxBlockSpan \in Nat \ {0}
    /\ MaxTime \in Nat /\ MaxBlocks \in Nat

Queries == Names \X Keys

Answers == [body : Bodies, owner : Accounts, height : Nat]

C == INSTANCE TTLCache WITH
       CacheNames <- Names,
       CacheKeys  <- Queries,
       KeyName    <- [q \in Queries |-> q[1]],
       Values     <- Answers,
       TTLs       <- {BodyTTL[b] : b \in Bodies},
       capacity   <- cacheSize,
       MaxClock   <- MaxTime,
       clock      <- now

cacheVars == <<entries, lru, nameKeys, hashNames>>

vars == <<nsVars, log, cacheVars, worker, watch, delivered>>

idle == [pc |-> "idle"]

-----------------------------------------------------------------------------
(* The chain.                                                              *)

(* A transaction and the event it emits.                                   *)
emit(kind, n) ==
    /\ Len(log) < MaxBlocks
    /\ log' = Append(log, [kind |-> kind, name |-> n])
    /\ UNCHANGED <<cacheVars, worker, watch, delivered>>

(* Faulty variant: a transfer is not announced.                            *)
TransactionSilent(n) ==
    \/ \E a \in Accounts, p \in PubKeys : Take(n, a, p) /\ emit("Registered", n)
    \/ \E a \in Accounts, p \in PubKeys : HandOver(n, a, p) /\ emit("Renewed", n)
    \/ \E k \in Keys, b \in Bodies : Publish(n, k, b) /\ emit("RecordSet", n)

Transaction(n) ==
    \/ \E a \in Accounts, p \in PubKeys : Take(n, a, p) /\ emit("Registered", n)
    \/ \E a \in Accounts, p \in PubKeys : HandOver(n, a, p) /\ emit("Transferred", n)
    \/ Extend(n) /\ emit("Renewed", n)
    \/ \E k \in Keys, b \in Bodies : Publish(n, k, b) /\ emit("RecordSet", n)
    \/ \E k \in Keys : Unpublish(n, k) /\ emit("RecordRemoved", n)

Tick ==
    /\ now < MaxTime
    /\ NSTick
    /\ UNCHANGED <<log, cacheVars, worker, watch, delivered>>

-----------------------------------------------------------------------------
(* Queries: HandleQuery.                                                   *)

chainVars == <<nsVars, log>>

(* The cache answers, or the query goes to the chain.                      *)
Lookup(w, q) ==
    /\ worker[w].pc = "idle"
    /\ C!Get(q)
    /\ worker' = IF C!hit(q) THEN worker
                 ELSE [worker EXCEPT ![w] = [pc |-> "resolve", query |-> q]]
    /\ UNCHANGED <<chainVars, watch, delivered>>

afterAnswer(q, res) ==
    IF res.body = NoBody THEN idle ELSE [pc |-> "fill", query |-> q, res |-> res]

(* The chain's answer, at the block it was read; a negative one is         *)
(* returned and not cached.                                                *)
Resolve(w) ==
    /\ worker[w].pc = "resolve"
    /\ LET q   == worker[w].query
           res == [body |-> Visible(q[1], q[2]), owner |-> holder[q[1]],
                   height |-> Len(log)]
       IN  worker' = [worker EXCEPT ![w] = afterAnswer(q, res)]
    /\ UNCHANGED <<chainVars, cacheVars, watch, delivered>>

(* All attempts of the RPC failed.                                         *)
ResolveFails(w) ==
    /\ worker[w].pc = "resolve"
    /\ worker' = [worker EXCEPT ![w] = idle]
    /\ UNCHANGED <<chainVars, cacheVars, watch, delivered>>

(* The owner's signature is checked, the proof made, the answer cached.    *)
Fill(w) ==
    /\ worker[w].pc = "fill"
    /\ LET ttl == BodyTTL[worker[w].res.body]
       IN  IF ttl > 0 THEN C!Set(worker[w].query, worker[w].res, ttl)
                      ELSE UNCHANGED cacheVars
    /\ worker' = [worker EXCEPT ![w] = idle]
    /\ UNCHANGED <<chainVars, watch, delivered>>

(* The showcase's handlers drop a name, or everything.                     *)
ClearCache ==
    /\ C!Flush \/ \E n \in Names : C!InvalidateName(n)
    /\ UNCHANGED <<chainVars, worker, watch, delivered>>

-----------------------------------------------------------------------------
(* The event watcher: WatchRecordEvents and collectEvents.                 *)

filterOrder == <<"RecordSet", "RecordRemoved", "Transferred", "Registered">>

watched(b) == log[b].kind # "Renewed"

waiting == [pc |-> "wait", end |-> 0, filter |-> 0, todo |-> {}]

(* The loop over block ranges: the next one, or back to the ticker.        *)
nextRange(last, head) ==
    IF last < head
      THEN [pc |-> "collect", filter |-> 0, todo |-> {},
            end |-> IF head - last > maxBlockSpan THEN last + maxBlockSpan ELSE head]
      ELSE waiting

at(boot, last, head, step) ==
    [boot |-> boot, last |-> last, head |-> head, pc |-> step.pc, end |-> step.end,
     filter |-> step.filter, todo |-> step.todo]

goTo(last, head, step) ==
    /\ watch' = at(watch.boot, last, head, step)
    /\ UNCHANGED <<chainVars, worker>>

(* The watcher starts at the head of the chain.                            *)
Boot ==
    /\ watch.pc = "boot"
    /\ watch' = at(Len(log), Len(log), Len(log), waiting)
    /\ UNCHANGED <<chainVars, worker, cacheVars, delivered>>

(* If it cannot learn the head it returns, and is not started again.       *)
BootFails ==
    /\ watch.pc = "boot"
    /\ goTo(watch.last, watch.head, [waiting EXCEPT !.pc = "stopped"])
    /\ UNCHANGED <<cacheVars, delivered>>

(* A tick; one whose ChainHead fails changes nothing.                      *)
Poll ==
    /\ watch.pc = "wait"
    /\ goTo(watch.last, Len(log), nextRange(watch.last, Len(log)))
    /\ UNCHANGED <<cacheVars, delivered>>

(* A successful eth_getLogs for the next event type.                       *)
Filter ==
    /\ watch.pc = "collect" /\ watch.todo = {} /\ watch.filter < Len(filterOrder)
    /\ LET f == watch.filter + 1
       IN  goTo(watch.last, watch.head,
                [pc |-> "collect", end |-> watch.end, filter |-> f,
                 todo |-> {b \in (watch.last + 1)..watch.end : log[b].kind = filterOrder[f]}])
    /\ UNCHANGED <<cacheVars, delivered>>

(* The handler gets the filter's next event.                               *)
Deliver ==
    /\ watch.pc = "collect"
    /\ \E b \in watch.todo :
         /\ \A c \in watch.todo : b <= c
         /\ C!HandleEvent(log[b].kind, log[b].name)
         /\ delivered' = delivered \cup {b}
         /\ watch' = [watch EXCEPT !.todo = @ \ {b}]
    /\ UNCHANGED <<chainVars, worker>>

(* All four filters are through: only now does last advance.               *)
RangeDone ==
    /\ watch.pc = "collect" /\ watch.todo = {} /\ watch.filter = Len(filterOrder)
    /\ goTo(watch.end, watch.head, nextRange(watch.end, watch.head))
    /\ UNCHANGED <<cacheVars, delivered>>

(* Faulty variant: the range is given up.                                  *)
CollectSkips ==
    /\ watch.pc = "collect"
    /\ watch.filter < Len(filterOrder) \/ watch.todo # {}
    /\ goTo(watch.end, watch.head, waiting)
    /\ UNCHANGED <<cacheVars, delivered>>

(* A filter or its iterator fails: the whole range is left for the next    *)
(* tick.                                                                   *)
CollectFails ==
    /\ watch.pc = "collect"
    /\ watch.filter < Len(filterOrder) \/ watch.todo # {}
    /\ goTo(watch.last, watch.head, waiting)
    /\ UNCHANGED <<cacheVars, delivered>>

-----------------------------------------------------------------------------
Init ==
    /\ NSInit
    /\ log = << >>
    /\ C!CacheInit
    /\ worker = [w \in Workers |-> idle]
    /\ watch = at(0, 0, 0, [waiting EXCEPT !.pc = "boot"])
    /\ delivered = {}

Watcher ==
    Boot \/ BootFails \/ Poll \/ Filter \/ Deliver \/ RangeDone \/ CollectFails

Next ==
    \/ Tick
    \/ \E n \in Names : Transaction(n)
    \/ \E w \in Workers, q \in Queries : Lookup(w, q)
    \/ \E w \in Workers : Resolve(w) \/ ResolveFails(w) \/ Fill(w)
    \/ ClearCache
    \/ Watcher

Spec == Init /\ [][Next]_vars

(* The watcher's goroutine and ticker run, and from some time on the RPC   *)
(* provider answers.                                                       *)
RPCRecovers == <>[][~CollectFails]_vars

LiveSpec ==
    Spec /\ WF_vars(Boot \/ BootFails \/ Poll \/ Filter \/ Deliver \/ RangeDone) /\ RPCRecovers

-----------------------------------------------------------------------------
(* Properties.                                                             *)

(* The comment on WatchRecordEvents: last only advances past a range that  *)
(* was filtered successfully for every event type, whatever fails and is   *)
(* retried on the way: no event between the start and last is lost.        *)
NoEventLost ==
    \A b \in (watch.boot + 1)..watch.last : watched(b) => b \in delivered

(* Push invalidation: once the handler has been given an event, no entry   *)
(* of its name is left that was in the cache before, whichever query,      *)
(* eviction or expiry touched the cache and its indexes earlier.           *)
PushInvalidates ==
    [][\A b \in delivered' \ delivered, q \in DOMAIN entries' : q[1] # log[b].name]_vars

(* An answer in the cache, or about to be put there, is still what the     *)
(* chain holds unless an event of its name that the watcher looks for came *)
(* later: the four event types cover every way a record can change.        *)
ChangesAreAnnounced ==
    LET current(q, res) ==
          \/ live[q[1]][q[2]] = res.body /\ holder[q[1]] = res.owner
          \/ \E b \in (res.height + 1)..Len(log) : watched(b) /\ log[b].name = q[1]
    IN  /\ \A q \in C!cached : current(q, entries[q].value)
        /\ \A w \in Workers : worker[w].pc = "fill" => current(worker[w].query, worker[w].res)

(* Every event after the watcher's start reaches the cache in the end.     *)
EventsArrive ==
    \A b \in 1..MaxBlocks :
        (watch.pc \in {"wait", "collect"} /\ b \in (watch.boot + 1)..Len(log) /\ watched(b))
            ~> b \in delivered

(* The README's promise: chain events evict stale entries.  With the       *)
(* watcher at the head of the chain, no cached record that was read after  *)
(* the watcher's start differs from the chain's.                           *)
StaleEntriesEvicted ==
    watch.pc = "wait" /\ watch.last = Len(log) =>
        \A q \in C!cached : entries[q].value.height >= watch.boot =>
            entries[q].value.body = live[q[1]][q[2]]
=============================================================================
