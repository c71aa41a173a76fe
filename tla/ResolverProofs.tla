--------------------------- MODULE ResolverProofs ---------------------------
(***************************************************************************)
(* The event watcher loses no event, an event leaves no entry of its name, *)
(* and the four watched event types announce every change of an answer:    *)
(* for any number of workers, any cache, block span and log, and any       *)
(* pattern of RPC failures.  The packets of the UDP front end: decoding    *)
(* undoes encoding, for any base and any length.                           *)
(***************************************************************************)
EXTENDS Resolver, UDPWire, LoopTheorems

(* Leaves are for Zenon unless they name another prover.                   *)
USE ZenonT(20)

Event == [kind : {"RecordSet", "RecordRemoved", "Transferred", "Registered", "Renewed"},
          name : Names]

WatchType ==
    /\ log \in Seq(Event)
    /\ watch \in [boot : Nat, last : Nat, head : Nat, end : Nat,
                  filter : 0..4, todo : SUBSET Nat,
                  pc : {"boot", "stopped", "wait", "collect"}]
    /\ watch.last <= Len(log) /\ watch.head <= Len(log)
    /\ watch.pc = "collect" => watch.last <= watch.end /\ watch.end <= watch.head

(* In a range that is being collected, the events of the types filtered so *)
(* far are delivered or about to be.                                       *)
Collected ==
    watch.pc = "collect" =>
        \A b \in (watch.last + 1)..watch.end, f \in 1..watch.filter :
            log[b].kind = filterOrder[f] => b \in delivered \cup watch.todo

WatchInv == WatchType /\ NoEventLost /\ Collected

(* The loop picks a range that starts at last and ends within the chain.   *)
LEMMA RangeWithinChain ==
    ASSUME NEW last \in Nat, NEW head \in Nat, last <= head
    PROVE  LET r == nextRange(last, head)
           IN  /\ r.pc \in {"wait", "collect"} /\ r.filter = 0 /\ r.todo = {}
               /\ r.end \in Nat
               /\ r.pc = "collect" => last <= r.end /\ r.end <= head
BY SMT, ResolverAssumption DEF nextRange, waiting

(* Blocks are only ever appended.                                          *)
LEMMA LogGrows ==
    ASSUME log \in Seq(Event), NEW kind, NEW n \in Names, emit(kind, n),
           kind \in {"RecordSet", "RecordRemoved", "Transferred", "Registered", "Renewed"}
    PROVE  /\ log' \in Seq(Event) /\ Len(log') = Len(log) + 1
           /\ \A b \in 1..Len(log) : log'[b] = log[b]
           /\ UNCHANGED <<watch, delivered>>
<1>1. [kind |-> kind, name |-> n] \in Event
  BY DEF Event
<1>. QED BY SMT, <1>1 DEF emit

(* A transaction does not disturb the watcher.                             *)
LEMMA TransactionKeeps == ASSUME WatchInv, NEW n \in Names, Transaction(n) PROVE WatchInv'
<1>1. PICK kind \in {"RecordSet", "RecordRemoved", "Transferred", "Registered", "Renewed"} :
        emit(kind, n)
  BY DEF Transaction
<1>2. /\ log' \in Seq(Event) /\ Len(log') = Len(log) + 1 /\ Len(log) \in Nat
      /\ \A b \in 1..Len(log) : log'[b] = log[b]
      /\ UNCHANGED <<watch, delivered>>
  BY SMT, <1>1, LogGrows DEF WatchInv, WatchType
<1>3. WatchType'
  BY SMT, <1>2 DEF WatchInv, WatchType
<1>4. NoEventLost'
  BY SMT, <1>2 DEF WatchInv, WatchType, NoEventLost, watched
<1>5. Collected'
  <2>. SUFFICES ASSUME watch.pc = "collect", NEW b \in (watch.last + 1)..watch.end,
                       NEW f \in 1..watch.filter, log'[b].kind = filterOrder[f]
                PROVE  b \in delivered \cup watch.todo
    BY <1>2 DEF Collected, filterOrder
  <2>1. b \in 1..Len(log)
    BY SMT, <1>2 DEF WatchInv, WatchType
  <2>. QED BY <1>2, <2>1 DEF WatchInv, Collected
<1>. QED BY <1>3, <1>4, <1>5 DEF WatchInv

(* Poll, and the next round of the loop after a range is done.             *)
LEMMA LoopKeeps ==
    ASSUME WatchInv, NEW last \in Nat, NEW head \in Nat,
           goTo(last, head, nextRange(last, head)), UNCHANGED delivered,
           last <= head, head <= Len(log),
           \A b \in (watch.boot + 1)..last : watched(b) => b \in delivered
    PROVE  WatchInv'
<1>. DEFINE r == nextRange(last, head)
<1>1. /\ r.pc \in {"wait", "collect"} /\ r.filter = 0 /\ r.todo = {} /\ r.end \in Nat
      /\ r.pc = "collect" => last <= r.end /\ r.end <= head
  BY RangeWithinChain DEF WatchInv, WatchType
<1>. HIDE DEF r
<1>2. /\ watch' = [boot |-> watch.boot, last |-> last, head |-> head, pc |-> r.pc,
                   end |-> r.end, filter |-> r.filter, todo |-> r.todo]
      /\ UNCHANGED <<log, delivered>>
  BY DEF goTo, at, chainVars, r
<1>3. WatchType'
  BY SMT, <1>1, <1>2 DEF WatchInv, WatchType
<1>4. NoEventLost'
  BY <1>2 DEF NoEventLost, watched
<1>5. Collected'
  BY SMT, <1>1, <1>2 DEF Collected
<1>. QED BY <1>3, <1>4, <1>5 DEF WatchInv

(* Every step of the resolver and of the chain keeps the invariant.        *)
LEMMA WatchStep == WatchInv /\ [Next]_vars => WatchInv'
<1>. SUFFICES ASSUME WatchInv, [Next]_vars PROVE WatchInv'
  OBVIOUS
<1>. USE DEF chainVars
<1>0. watch.boot \in Nat /\ watch.last \in Nat /\ Len(log) \in Nat
  BY SMT DEF WatchInv, WatchType
<1>1. CASE UNCHANGED <<log, watch, delivered>>
  BY <1>1 DEF WatchInv, WatchType, NoEventLost, Collected, watched
<1>2. ASSUME NEW n \in Names, Transaction(n) PROVE WatchInv'
  BY <1>2, TransactionKeeps
<1>3. CASE Boot
  <2>1. /\ watch' = at(Len(log), Len(log), Len(log), waiting)
        /\ UNCHANGED <<log, delivered>>
    BY <1>3 DEF Boot
  <2>2. WatchType'
    BY SMT, <1>0, <2>1 DEF WatchInv, WatchType, at, waiting
  <2>3. NoEventLost' /\ Collected'
    BY SMT, <1>0, <2>1 DEF NoEventLost, Collected, at, waiting
  <2>. QED BY <2>2, <2>3 DEF WatchInv
<1>4. CASE BootFails \/ CollectFails
  <2>1. PICK pc \in {"wait", "stopped"} :
          /\ watch' = [boot |-> watch.boot, last |-> watch.last, head |-> watch.head,
                       pc |-> pc, end |-> 0, filter |-> 0, todo |-> {}]
          /\ UNCHANGED <<log, delivered>>
    BY <1>4 DEF BootFails, CollectFails, goTo, at, waiting
  <2>2. WatchType'
    BY SMT, <2>1 DEF WatchInv, WatchType
  <2>3. NoEventLost' /\ Collected'
    BY <2>1 DEF WatchInv, NoEventLost, Collected, watched
  <2>. QED BY <2>2, <2>3 DEF WatchInv
<1>5. CASE Poll
  BY SMT, <1>0, <1>5, LoopKeeps DEF Poll, WatchInv, WatchType, NoEventLost
<1>6. CASE Filter
  <2>. DEFINE f    == watch.filter + 1
              todo == {b \in (watch.last + 1)..watch.end : log[b].kind = filterOrder[f]}
  <2>1. /\ watch.pc = "collect" /\ watch.todo = {} /\ f \in 1..4
        /\ watch' = [boot |-> watch.boot, last |-> watch.last, head |-> watch.head,
                     pc |-> "collect", end |-> watch.end, filter |-> f, todo |-> todo]
        /\ UNCHANGED <<log, delivered>>
    BY SMT, <1>6 DEF Filter, goTo, at, filterOrder, WatchInv, WatchType
  <2>2. WatchType'
    BY SMT, <1>0, <2>1 DEF WatchInv, WatchType
  <2>3. NoEventLost'
    BY <2>1 DEF WatchInv, NoEventLost, watched
  <2>4. Collected'
    BY SMT, <2>1 DEF WatchInv, WatchType, Collected
  <2>. QED BY <2>2, <2>3, <2>4 DEF WatchInv
<1>7. CASE Deliver
  <2>1. PICK b \in watch.todo : /\ delivered' = delivered \cup {b}
                                /\ watch' = [watch EXCEPT !.todo = watch.todo \ {b}]
                                /\ log' = log
    BY <1>7 DEF Deliver
  <2>2. WatchType'
    BY <2>1 DEF WatchInv, WatchType
  <2>3. NoEventLost'
    BY <2>1 DEF WatchInv, WatchType, NoEventLost, watched
  <2>4. Collected'
    BY <2>1 DEF WatchInv, WatchType, Collected
  <2>. QED BY <2>2, <2>3, <2>4 DEF WatchInv
<1>8. CASE RangeDone
  <2>1. /\ watch.pc = "collect" /\ watch.todo = {} /\ watch.filter = 4
        /\ goTo(watch.end, watch.head, nextRange(watch.end, watch.head))
        /\ UNCHANGED delivered
    BY <1>8 DEF RangeDone, filterOrder
  <2>2. ASSUME NEW b \in (watch.last + 1)..watch.end, watched(b) PROVE b \in delivered
    <3>1. b \in 1..Len(log)
      BY SMT, <1>0, <2>1 DEF WatchInv, WatchType
    <3>2. log[b].kind \in {"RecordSet", "RecordRemoved", "Transferred", "Registered"}
      <4>1. log[b] \in Event
        BY SMT, <3>1 DEF WatchInv, WatchType
      <4>. QED BY <2>2, <4>1 DEF watched, Event
    <3>3. \E f \in 1..4 : log[b].kind = filterOrder[f]
      BY SMT, <3>2 DEF filterOrder
    <3>. QED BY <2>1, <3>3 DEF WatchInv, Collected
  <2>3. \A b \in (watch.boot + 1)..watch.end : watched(b) => b \in delivered
    BY SMT, <1>0, <2>2 DEF WatchInv, WatchType, NoEventLost
  <2>4. watch.end \in Nat /\ watch.head \in Nat /\ watch.end <= watch.head /\ watch.head <= Len(log)
    BY <2>1 DEF WatchInv, WatchType
  <2>. QED BY <2>1, <2>3, <2>4, LoopKeeps
<1>. QED
  BY <1>1, <1>2, <1>3, <1>4, <1>5, <1>6, <1>7, <1>8
  DEF Next, Watcher, Tick, Lookup, Resolve, ResolveFails, Fill, ClearCache, vars

(* last never passes an event that was not handed to the cache, whichever  *)
(* filter calls failed and were retried.                                   *)
THEOREM NoEventIsLost == Spec => []NoEventLost
<1>1. Init => WatchInv
  BY SMT DEF Init, WatchInv, WatchType, NoEventLost, Collected, at, waiting
<1>2. WatchInv => NoEventLost
  BY DEF WatchInv
<1>. QED BY <1>1, <1>2, WatchStep, PTL DEF Spec

-----------------------------------------------------------------------------
(* The cache, as the handler of events needs it: every entry can be found  *)
(* under its name and under the hash of its name.  This half of IndexExact *)
(* is inductive by itself.                                                 *)

findable(keys, index, hashes) ==
    \A q \in keys : /\ q \in Queries
                    /\ q[1] \in DOMAIN index /\ q \in index[q[1]]
                    /\ q[1] \in hashes

Indexed == findable(DOMAIN entries, nameKeys, hashNames)

(* An answer is what the chain holds, or a watched event of its name came. *)
current(q, res) ==
    \/ live[q[1]][q[2]] = res.body /\ holder[q[1]] = res.owner
    \/ \E b \in (res.height + 1)..Len(log) : watched(b) /\ log[b].name = q[1]

(* Answers on their way to the cache and in it.                            *)
sound(q, res) == q \in Queries /\ res.height \in 0..Len(log) /\ current(q, res)

Asked == \A w \in Workers : worker[w].pc = "resolve" => worker[w].query \in Queries

Filling == \A w \in Workers : worker[w].pc = "fill" => sound(worker[w].query, worker[w].res)

Cached == \A q \in DOMAIN entries : sound(q, entries[q].value)

ChainType ==
    /\ DOMAIN holder = Names /\ DOMAIN live = Names /\ DOMAIN worker = Workers
    /\ \A n \in Names : DOMAIN live[n] = Keys

AnswerInv == WatchInv /\ ChainType /\ Indexed /\ Asked /\ Filling /\ Cached

(* dropFromIndex keeps the keys that stay, under their names.              *)
LEMMA DropKeepsFindable ==
    ASSUME NEW keys, NEW index, NEW hashes, NEW out, findable(keys, index, hashes)
    PROVE  findable(keys \ out, C!dropFromIndex(index, out), hashes \ C!emptied(index, out))
<1>. DEFINE gone == C!emptied(index, out)
            index2 == C!dropFromIndex(index, out)
<1>1. \A n \in gone : index[n] \subseteq out
  BY DEF C!emptied
<1>2. DOMAIN index2 = DOMAIN index \ gone /\ \A n \in DOMAIN index2 : index2[n] = index[n] \ out
  BY DEF C!dropFromIndex
<1>. HIDE DEF gone, index2
<1>3. \A q \in keys \ out : q[1] \notin gone
  BY <1>1 DEF findable
<1>4. findable(keys \ out, index2, hashes \ gone)
  BY <1>2, <1>3 DEF findable
<1>. QED BY <1>4 DEF gone, index2

(* Whatever leaves the cache, by expiry, eviction or invalidation.         *)
LEMMA RemoveKeeps ==
    ASSUME NEW keys, C!remove(keys)
    PROVE  /\ DOMAIN entries' = DOMAIN entries \ keys
           /\ \A q \in DOMAIN entries' : entries'[q] = entries[q]
           /\ Indexed => Indexed'
<1>1. DOMAIN entries' = DOMAIN entries \ keys /\ \A q \in DOMAIN entries' : entries'[q] = entries[q]
  BY DEF C!remove, C!cached
<1>2. ASSUME Indexed PROVE Indexed'
  <2>1. /\ nameKeys' = C!dropFromIndex(nameKeys, keys)
        /\ hashNames' = hashNames \ C!emptied(nameKeys, keys)
    BY DEF C!remove
  <2>2. findable(DOMAIN entries', nameKeys', hashNames')
    BY SMT, <1>1, <1>2, <2>1, DropKeepsFindable DEF Indexed
  <2>. QED BY <2>2 DEF Indexed, findable
<1>. QED BY <1>1, <1>2

(* Set registers the key before the LRU has it, and evicts afterwards.     *)
LEMMA SetKeeps ==
    ASSUME Indexed, NEW q \in Queries, NEW v, NEW ttl, C!Set(q, v, ttl)
    PROVE  /\ Indexed'
           /\ \A p \in DOMAIN entries' : \/ p = q /\ entries'[p].value = v
                                         \/ p \in DOMAIN entries /\ entries'[p] = entries[p]
<1>. DEFINE out == C!oldest(Append(C!without(lru, {q}), q))
            new == [value |-> v, expiresAt |-> C!expiryAfter(ttl)]
            index == C!withKey(nameKeys, q)
<1>1. /\ entries' = [j \in (DOMAIN entries \cup {q}) \ out |-> IF j = q THEN new ELSE entries[j]]
      /\ nameKeys' = C!dropFromIndex(index, out)
      /\ hashNames' = (hashNames \cup {q[1]}) \ C!emptied(index, out)
  BY DEF C!Set, C!cached
<1>2. /\ DOMAIN index = DOMAIN nameKeys \cup {q[1]}
      /\ \A n \in DOMAIN index : index[n] = IF n # q[1] THEN nameKeys[n]
                                            ELSE IF n \in DOMAIN nameKeys THEN nameKeys[n] \cup {q}
                                            ELSE {q}
  BY DEF C!withKey
<1>3. new.value = v
  OBVIOUS
<1>. HIDE DEF out, new, index
<1>4. findable(DOMAIN entries \cup {q}, index, hashNames \cup {q[1]})
  BY <1>2 DEF Indexed, findable
<1>5. DOMAIN entries' = (DOMAIN entries \cup {q}) \ out
  BY <1>1
<1>6. findable(DOMAIN entries', nameKeys', hashNames')
  BY <1>1, <1>4, <1>5, DropKeepsFindable
<1>7. Indexed'
  BY <1>6 DEF Indexed, findable
<1>8. \A p \in DOMAIN entries' : \/ p = q /\ entries'[p].value = v
                                 \/ p \in DOMAIN entries /\ entries'[p] = entries[p]
  BY <1>1, <1>3, <1>5
<1>. QED BY <1>7, <1>8

(* An event leaves nothing of its name, given by itself or by its hash.    *)
LEMMA EventInvalidates ==
    ASSUME Indexed, NEW kind, NEW n, C!HandleEvent(kind, n)
    PROVE  /\ Indexed'
           /\ \A q \in DOMAIN entries' : /\ q \in DOMAIN entries /\ entries'[q] = entries[q]
                                         /\ q[1] # n
<1>1. ASSUME C!InvalidateName(n)
      PROVE  /\ Indexed'
             /\ \A q \in DOMAIN entries' : /\ q \in DOMAIN entries /\ entries'[q] = entries[q]
                                           /\ q[1] # n
  <2>. DEFINE keys == IF n \in DOMAIN nameKeys THEN nameKeys[n] ELSE {}
  <2>1. C!remove(keys)
    BY <1>1 DEF C!InvalidateName
  <2>2. \A q \in DOMAIN entries : q[1] = n => q \in keys
    BY DEF Indexed, findable
  <2>. HIDE DEF keys
  <2>. QED BY <2>1, <2>2, RemoveKeeps
<1>2. ASSUME n \notin hashNames, UNCHANGED cacheVars
      PROVE  /\ Indexed'
             /\ \A q \in DOMAIN entries' : /\ q \in DOMAIN entries /\ entries'[q] = entries[q]
                                           /\ q[1] # n
  BY <1>2 DEF Indexed, findable, cacheVars
<1>. QED BY <1>1, <1>2 DEF C!HandleEvent, C!InvalidateNameHash, C!cacheVars, cacheVars

(* What a transaction does to an answer: nothing, if it is of another name *)
(* or a renewal; otherwise its event is one that the watcher looks for.    *)
LEMMA ChangeIsAnnounced ==
    ASSUME WatchInv, ChainType, NEW n \in Names, Transaction(n)
    PROVE  /\ ChainType'
           /\ \A q, res : sound(q, res) => sound(q, res)'
<1>1. PICK kind \in {"RecordSet", "RecordRemoved", "Transferred", "Registered", "Renewed"} :
        /\ emit(kind, n)
        /\ kind = "Renewed" => UNCHANGED <<holder, live>>
        /\ ChainType'
        /\ \A m \in Names \ {n} : holder'[m] = holder[m] /\ live'[m] = live[m]
  <2>1. ASSUME NEW a, NEW p, Take(n, a, p) \/ HandOver(n, a, p), worker' = worker
        PROVE  /\ ChainType'
               /\ \A m \in Names \ {n} : holder'[m] = holder[m] /\ live'[m] = live[m]
    BY <2>1 DEF Take, HandOver, ChainType, NoRecords
  <2>2. ASSUME NEW k, NEW b, Publish(n, k, b) \/ (Unpublish(n, k) /\ b = NoBody), worker' = worker
        PROVE  /\ ChainType'
               /\ \A m \in Names \ {n} : holder'[m] = holder[m] /\ live'[m] = live[m]
    <3>1. live' = [live EXCEPT ![n][k] = b] /\ UNCHANGED holder
      BY <2>2 DEF Publish, Unpublish
    <3>2. /\ DOMAIN live' = Names /\ \A m \in Names \ {n} : live'[m] = live[m]
          /\ live'[n] = [live[n] EXCEPT ![k] = b]
      BY <3>1 DEF ChainType
    <3>. QED BY <2>2, <3>1, <3>2 DEF ChainType
  <2>3. ASSUME Extend(n), worker' = worker PROVE ChainType' /\ UNCHANGED <<holder, live>>
    BY <2>3 DEF Extend, ChainType
  <2>. QED BY <2>1, <2>2, <2>3 DEF Transaction, emit
<1>2. /\ Len(log') = Len(log) + 1 /\ Len(log) \in Nat
      /\ \A b \in 1..Len(log) : log'[b] = log[b]
      /\ log'[Len(log) + 1] = [kind |-> kind, name |-> n]
  <2>1. log \in Seq(Event)
    BY DEF WatchInv, WatchType
  <2>. QED BY SMT, <1>1, <2>1 DEF emit
<1>3. ASSUME NEW q, NEW res, sound(q, res) PROVE sound(q, res)'
  <2>1. /\ q \in Queries /\ q[1] \in Names /\ res.height \in Nat /\ res.height <= Len(log)
        /\ res.height \in 0..Len(log')
    BY SMT, <1>2, <1>3 DEF sound, Queries
  <2>2. CASE \E b \in (res.height + 1)..Len(log) : watched(b) /\ log[b].name = q[1]
    <3>1. PICK b \in (res.height + 1)..Len(log) : log[b].kind # "Renewed" /\ log[b].name = q[1]
      BY <2>2 DEF watched
    <3>2. b \in (res.height + 1)..Len(log') /\ log'[b] = log[b]
      BY SMT, <1>2, <2>1, <3>1
    <3>. QED BY <2>1, <3>1, <3>2 DEF sound, current, watched
  <2>3. CASE q[1] = n /\ kind # "Renewed"
    <3>1. Len(log) + 1 \in (res.height + 1)..Len(log')
      BY SMT, <1>2, <2>1
    <3>2. log'[Len(log) + 1].kind # "Renewed" /\ log'[Len(log) + 1].name = q[1]
      BY SMT, <1>2, <2>3
    <3>. QED BY <2>1, <3>1, <3>2 DEF sound, current, watched
  <2>4. CASE ~(q[1] = n /\ kind # "Renewed") /\ live[q[1]][q[2]] = res.body /\ holder[q[1]] = res.owner
    <3>1. live'[q[1]] = live[q[1]] /\ holder'[q[1]] = holder[q[1]]
      BY <1>1, <2>1, <2>4
    <3>. QED BY <2>1, <2>4, <3>1 DEF sound, current
  <2>. QED BY <1>3, <2>2, <2>3, <2>4 DEF sound, current
<1>. QED BY <1>1, <1>3

(* Every step of the resolver and of the chain keeps the invariant.        *)
LEMMA AnswerStep == AnswerInv /\ [Next]_vars => AnswerInv'
<1>. SUFFICES ASSUME AnswerInv, [Next]_vars PROVE AnswerInv'
  OBVIOUS
<1>. USE DEF chainVars
<1>1. WatchInv'
  BY WatchStep DEF AnswerInv
<1>2. ASSUME UNCHANGED <<holder, live, log>>
      PROVE  \A q, res : sound(q, res) => sound(q, res)'
  BY <1>2 DEF sound, current, watched
<1>3. ASSUME UNCHANGED <<holder, live, log, worker>>, Indexed',
             \A q \in DOMAIN entries' : q \in DOMAIN entries /\ entries'[q] = entries[q]
      PROVE  AnswerInv'
  <2>1. ChainType' /\ Asked'
    BY <1>3 DEF AnswerInv, ChainType, Asked
  <2>2. Filling'
    BY <1>2, <1>3 DEF AnswerInv, Filling
  <2>3. Cached'
    BY <1>2, <1>3 DEF AnswerInv, Cached
  <2>. QED BY <1>1, <1>3, <2>1, <2>2, <2>3 DEF AnswerInv
<1>4. ASSUME UNCHANGED <<holder, live, log, worker, cacheVars>> PROVE AnswerInv'
  BY <1>3, <1>4 DEF cacheVars, AnswerInv, Indexed, findable
<1>5. ASSUME NEW n \in Names, Transaction(n) PROVE AnswerInv'
  <2>1. ChainType' /\ \A q, res : sound(q, res) => sound(q, res)'
    BY <1>5, ChangeIsAnnounced DEF AnswerInv
  <2>2. UNCHANGED <<cacheVars, worker>>
    BY <1>5 DEF Transaction, emit
  <2>3. Indexed' /\ Asked'
    BY <2>2 DEF AnswerInv, Indexed, findable, Asked, cacheVars
  <2>4. Filling' /\ Cached'
    BY <2>1, <2>2 DEF AnswerInv, Filling, Cached, cacheVars
  <2>. QED BY <1>1, <2>1, <2>3, <2>4 DEF AnswerInv
<1>6. ASSUME NEW w \in Workers, NEW q \in Queries, Lookup(w, q) PROVE AnswerInv'
  <2>1. /\ Indexed'
        /\ \A p \in DOMAIN entries' : p \in DOMAIN entries /\ entries'[p] = entries[p]
    <3>1. C!Get(q)
      BY <1>6 DEF Lookup
    <3>2. CASE C!remove({q})
      BY <3>2, RemoveKeeps DEF AnswerInv
    <3>3. CASE UNCHANGED <<entries, nameKeys, hashNames>>
      BY <3>3 DEF AnswerInv, Indexed, findable
    <3>. QED BY <3>1, <3>2, <3>3 DEF C!Get, C!cacheVars
  <2>2. UNCHANGED <<holder, live, log>>
        /\ worker' \in {worker, [worker EXCEPT ![w] = [pc |-> "resolve", query |-> q]]}
    BY <1>6 DEF Lookup, nsVars
  <2>3. \A v \in Workers : worker'[v] = worker[v] \/ worker'[v] = [pc |-> "resolve", query |-> q]
    BY <2>2 DEF AnswerInv, ChainType
  <2>4. ChainType' /\ Asked'
    BY SMT, <2>2, <2>3 DEF AnswerInv, ChainType, Asked
  <2>5. Filling'
    BY SMT, <1>2, <2>2, <2>3 DEF AnswerInv, Filling
  <2>6. Cached'
    BY <1>2, <2>1, <2>2 DEF AnswerInv, Cached
  <2>. QED BY <1>1, <2>1, <2>4, <2>5, <2>6 DEF AnswerInv
<1>7. ASSUME UNCHANGED <<holder, live, log, cacheVars>>, DOMAIN worker' = Workers,
             \A v \in Workers :
               \/ worker'[v] \in {worker[v], idle}
               \/ worker'[v].pc = "fill" /\ sound(worker'[v].query, worker'[v].res)
      PROVE  AnswerInv'
  <2>1. ChainType' /\ Asked'
    BY SMT, <1>7 DEF AnswerInv, ChainType, Asked, idle
  <2>2. Indexed' /\ Cached'
    BY <1>2, <1>7 DEF AnswerInv, Indexed, findable, Cached, cacheVars
  <2>3. Filling'
    <3>1. \A v \in Workers : worker'[v].pc = "fill" => sound(worker'[v].query, worker'[v].res)
      BY SMT, <1>7 DEF AnswerInv, Filling, idle
    <3>2. ASSUME NEW v \in Workers, worker'[v].pc = "fill"
          PROVE  sound(worker[v].query, worker[v].res)'
      <4>1. PICK q, res : q = worker'[v].query /\ res = worker'[v].res
        OBVIOUS
      <4>2. sound(q, res)'
        BY <1>2, <1>7, <3>1, <3>2, <4>1
      <4>. QED BY <4>1, <4>2 DEF sound, current, watched
    <3>. QED BY <3>2 DEF Filling
  <2>. QED BY <1>1, <2>1, <2>2, <2>3 DEF AnswerInv
<1>8. ASSUME NEW w \in Workers, Resolve(w) PROVE AnswerInv'
  <2>. DEFINE q   == worker[w].query
              res == [body |-> Visible(q[1], q[2]), owner |-> holder[q[1]], height |-> Len(log)]
  <2>1. /\ worker' = [worker EXCEPT ![w] = afterAnswer(q, res)] /\ q \in Queries
        /\ UNCHANGED <<holder, live, log, cacheVars>>
    BY <1>8 DEF Resolve, nsVars, AnswerInv, Asked
  <2>2. /\ res.body = Visible(q[1], q[2]) /\ res.owner = holder[q[1]] /\ res.height = Len(log)
    OBVIOUS
  <2>3. Len(log) \in Nat
    BY SMT DEF AnswerInv, WatchInv, WatchType
  <2>. HIDE DEF q, res
  <2>4. \/ afterAnswer(q, res) = idle
        \/ /\ afterAnswer(q, res).pc = "fill"
           /\ afterAnswer(q, res).query = q /\ afterAnswer(q, res).res = res
           /\ sound(q, res)
    BY SMT, <2>1, <2>2, <2>3 DEF afterAnswer, Visible, sound, current
  <2>5. /\ DOMAIN worker' = Workers
        /\ \A v \in Workers : worker'[v] = IF v = w THEN afterAnswer(q, res) ELSE worker[v]
    BY <2>1 DEF AnswerInv, ChainType
  <2>. QED BY <1>7, <2>1, <2>4, <2>5
<1>9. ASSUME NEW w \in Workers, ResolveFails(w) PROVE AnswerInv'
  <2>1. DOMAIN worker' = Workers /\ \A v \in Workers : worker'[v] \in {worker[v], idle}
    BY <1>9 DEF ResolveFails, AnswerInv, ChainType
  <2>. QED BY <1>7, <1>9, <2>1 DEF ResolveFails, nsVars
<1>10. ASSUME NEW w \in Workers, Fill(w) PROVE AnswerInv'
  <2>. DEFINE q   == worker[w].query
              res == worker[w].res
  <2>1. sound(q, res) /\ q \in Queries
    BY <1>10 DEF Fill, AnswerInv, Filling, sound
  <2>2. UNCHANGED <<holder, live, log>> /\ worker' = [worker EXCEPT ![w] = idle]
    BY <1>10 DEF Fill, nsVars
  <2>. HIDE DEF q, res
  <2>3. /\ Indexed'
        /\ \A p \in DOMAIN entries' : \/ p = q /\ entries'[p].value = res
                                      \/ p \in DOMAIN entries /\ entries'[p] = entries[p]
    <3>1. CASE UNCHANGED cacheVars
      BY <3>1 DEF cacheVars, AnswerInv, Indexed, findable
    <3>2. CASE C!Set(q, res, BodyTTL[res.body])
      BY <2>1, <3>2, SetKeeps DEF AnswerInv
    <3>. QED BY <1>10, <3>1, <3>2 DEF Fill, q, res
  <2>4. DOMAIN worker' = Workers /\ \A v \in Workers : worker'[v] = IF v = w THEN idle ELSE worker[v]
    BY <2>2 DEF AnswerInv, ChainType
  <2>5. ChainType' /\ Asked'
    BY <2>2, <2>4 DEF AnswerInv, ChainType, Asked, idle
  <2>6. Filling'
    BY <1>2, <2>2, <2>4 DEF AnswerInv, Filling, idle
  <2>7. Cached'
    BY <1>2, <2>1, <2>2, <2>3 DEF AnswerInv, Cached
  <2>. QED BY <1>1, <2>3, <2>5, <2>6, <2>7 DEF AnswerInv
<1>11. ASSUME ClearCache PROVE AnswerInv'
  <2>1. CASE C!Flush
    <3>1. DOMAIN entries' = {}
      BY SMT, <2>1 DEF C!Flush
    <3>. QED BY <1>3, <1>11, <3>1 DEF ClearCache, nsVars, Indexed, findable
  <2>2. ASSUME NEW n \in Names, C!InvalidateName(n) PROVE AnswerInv'
    <3>1. \E keys : C!remove(keys)
      BY <2>2 DEF C!InvalidateName
    <3>. QED BY <1>3, <1>11, <3>1, RemoveKeeps DEF ClearCache, nsVars, AnswerInv
  <2>. QED BY <1>11, <2>1, <2>2 DEF ClearCache
<1>12. ASSUME Deliver PROVE AnswerInv'
  <2>1. PICK b : C!HandleEvent(log[b].kind, log[b].name)
    BY <1>12 DEF Deliver
  <2>. QED BY <1>3, <1>12, <2>1, EventInvalidates DEF Deliver, nsVars, AnswerInv
<1>13. ASSUME Boot \/ BootFails \/ Poll \/ Filter \/ RangeDone \/ CollectFails PROVE AnswerInv'
  BY <1>4, <1>13 DEF Boot, BootFails, Poll, Filter, RangeDone, CollectFails, goTo, nsVars
<1>14. ASSUME Tick \/ UNCHANGED vars PROVE AnswerInv'
  BY <1>4, <1>14 DEF Tick, NSTick, vars, nsVars
<1>. QED
  BY <1>5, <1>6, <1>8, <1>9, <1>10, <1>11, <1>12, <1>13, <1>14 DEF Next, Watcher

(* The invariant of the answers, from the start on.                        *)
LEMMA AnswerInvariant == Spec => []AnswerInv
<1>1. Init => AnswerInv
  <2>. SUFFICES ASSUME Init PROVE AnswerInv
    OBVIOUS
  <2>1. WatchInv
    BY SMT DEF Init, WatchInv, WatchType, NoEventLost, Collected, at, waiting
  <2>2. ChainType /\ Asked /\ Filling
    BY DEF Init, NSInit, NoRecords, ChainType, Asked, Filling, idle
  <2>3. DOMAIN entries = {}
    BY SMT DEF Init, C!CacheInit
  <2>. QED BY <2>1, <2>2, <2>3 DEF AnswerInv, Indexed, findable, Cached
<1>. QED BY <1>1, AnswerStep, PTL DEF Spec

(* The four event types that collectEvents filters for announce every      *)
(* change of a record or of its owner: an answer in the cache, or read and *)
(* about to be put there, is the chain's unless such an event came since.  *)
THEOREM EveryChangeIsAnnounced == Spec => []ChangesAreAnnounced
<1>1. AnswerInv => ChangesAreAnnounced
  BY DEF AnswerInv, Filling, Cached, sound, current, ChangesAreAnnounced, C!cached
<1>. QED BY <1>1, AnswerInvariant, PTL

(* When the handler has been given an event, by name or by hash, nothing   *)
(* of that name is in the cache.                                           *)
THEOREM EventsInvalidate == Spec => PushInvalidates
<1>1. AnswerInv /\ [Next]_vars =>
        [\A b \in delivered' \ delivered, q \in DOMAIN entries' : q[1] # log[b].name]_vars
  <2>. SUFFICES ASSUME AnswerInv, Next, NEW b \in delivered' \ delivered, NEW q \in DOMAIN entries'
                PROVE  q[1] # log[b].name
    OBVIOUS
  <2>1. CASE Deliver
    <3>1. PICK c \in watch.todo : C!HandleEvent(log[c].kind, log[c].name) /\ delivered' = delivered \cup {c}
      BY <2>1 DEF Deliver
    <3>2. b = c
      BY <3>1
    <3>. QED BY SMT, <3>1, <3>2, EventInvalidates DEF AnswerInv
  <2>2. CASE delivered' = delivered
    BY <2>2
  <2>3. Deliver \/ delivered' = delivered
    BY DEF Next, Watcher, Tick, Transaction, emit, Lookup, Resolve, ResolveFails, Fill, ClearCache,
           Boot, BootFails, Poll, Filter, RangeDone, CollectFails
  <2>. QED BY <2>1, <2>2, <2>3
<1>. QED BY <1>1, AnswerInvariant, PTL DEF Spec, PushInvalidates

-----------------------------------------------------------------------------
(* UDPWire: decoding undoes encoding, for any base and any packet.         *)

(* A TLV whose length two bytes hold, however long a packet may be.        *)
AnyTLV == {t \in [typ : Byte, val : Seq(Byte)] : Len(t.val) < Base * Base}

(* Two bytes hold a length below Base * Base, and are read as it.          *)
LEMMA TwoBytes ==
    ASSUME NEW x \in Nat, x < Base * Base
    PROVE  /\ x \div Base \in Byte /\ x % Base \in Byte
           /\ BigEndian(x \div Base, x % Base) = x
<1>. DEFINE B == Base
            q == x \div B
            r == x % B
<1>1. B \in Nat /\ B >= 2
  BY SMT, WireAssumption
<1>. HIDE DEF B
<1>2. q \in Nat /\ r \in 0..(B - 1) /\ x = q * B + r
  BY SMT, <1>1
<1>. HIDE DEF q, r
<1>3. x < B * B
  BY DEF B
<1>4. q < B
  <2>. SUFFICES ASSUME ~(q < B) PROVE FALSE
    OBVIOUS
  <2>1. PICK d \in Nat : q = B + d
    BY SMT, <1>1, <1>2
  <2>2. q * B = B * B + d * B /\ d * B \in Nat /\ B * B \in Nat
    BY SMT, <1>1, <2>1
  <2>. QED BY SMT, <1>1, <1>2, <1>3, <2>2
<1>5. q \in 0..(B - 1)
  BY SMT, <1>1, <1>2, <1>4
<1>. QED BY <1>2, <1>5 DEF B, q, r, Byte, BigEndian

(* What two bytes are read as is written as those bytes.                   *)
LEMMA TwoBytesRead ==
    ASSUME NEW hi \in Byte, NEW lo \in Byte
    PROVE  /\ BigEndian(hi, lo) \in Nat /\ BigEndian(hi, lo) < Base * Base
           /\ BigEndian(hi, lo) \div Base = hi /\ BigEndian(hi, lo) % Base = lo
<1>. DEFINE B == Base
            x == BigEndian(hi, lo)
<1>1. B \in Nat /\ B >= 2 /\ hi \in Nat /\ lo \in Nat /\ hi <= B - 1 /\ lo <= B - 1 /\ lo < B
  BY SMT, WireAssumption DEF Byte
<1>2. x = hi * B + lo
  BY DEF BigEndian
<1>. HIDE DEF B, x
<1>3. hi * B \in Nat /\ B * B \in Nat /\ hi * B + B <= B * B
  <2>1. PICK d \in Nat : B = hi + 1 + d
    BY SMT, <1>1
  <2>2. B * B = hi * B + B + d * B /\ d * B \in Nat /\ hi * B \in Nat
    BY SMT, <1>1, <2>1
  <2>. QED BY SMT, <1>1, <2>2
<1>4. x \in Nat /\ x < B * B
  BY SMT, <1>1, <1>2, <1>3
<1>5. x \div B = hi /\ x % B = lo
  <2>. DEFINE q == x \div B
              r == x % B
  <2>1. q \in Nat /\ r \in 0..(B - 1) /\ x = q * B + r
    BY SMT, <1>1, <1>4
  <2>. HIDE DEF q, r
  <2>2. q = hi
    <3>1. ASSUME q < hi PROVE FALSE
      <4>1. PICK d \in Nat : hi = q + 1 + d
        BY SMT, <1>1, <2>1, <3>1
      <4>2. hi * B = q * B + B + d * B /\ d * B \in Nat /\ q * B \in Nat
        BY SMT, <1>1, <2>1, <4>1
      <4>. QED BY SMT, <1>1, <1>2, <2>1, <4>2
    <3>2. ASSUME hi < q PROVE FALSE
      <4>1. PICK d \in Nat : q = hi + 1 + d
        BY SMT, <1>1, <2>1, <3>2
      <4>2. q * B = hi * B + B + d * B /\ d * B \in Nat /\ q * B \in Nat
        BY SMT, <1>1, <2>1, <4>1
      <4>. QED BY SMT, <1>1, <1>2, <1>3, <2>1, <4>2
    <3>. QED BY SMT, <1>1, <2>1, <3>1, <3>2
  <2>3. r = lo
    BY SMT, <1>1, <1>2, <1>3, <2>1, <2>2
  <2>. QED BY <2>2, <2>3 DEF q, r
<1>. QED BY <1>4, <1>5 DEF B, x

(* The bytes of a TLV.                                                     *)
LEMMA TLVEncoded ==
    ASSUME NEW t \in AnyTLV, NEW e, e = encodeTLV(t)
    PROVE  /\ e \in Seq(Byte) /\ Len(e) = 3 + Len(t.val) /\ Len(t.val) \in Nat
           /\ e[1] = t.typ /\ BigEndian(e[2], e[3]) = Len(t.val)
           /\ \A k \in 1..Len(t.val) : e[3 + k] = t.val[k]
<1>. DEFINE B == Byte
            v == t.val
            h == <<t.typ, Len(v) \div Base, Len(v) % Base>>
<1>1. t.typ \in B /\ v \in Seq(B) /\ Len(v) < Base * Base
  BY DEF AnyTLV
<1>. HIDE DEF v
<1>2. Len(v) \in Nat
  BY SMT, <1>1
<1>3. /\ Len(v) \div Base \in B /\ Len(v) % Base \in B
      /\ BigEndian(Len(v) \div Base, Len(v) % Base) = Len(v)
  BY <1>1, <1>2, TwoBytes
<1>4. e = h \o v
  <2>1. ~(Len(v) >= Base * Base)
    <3>1. Base * Base \in Nat
      BY SMT, WireAssumption
    <3>. QED BY SMT, <1>1, <1>2, <3>1
  <2>. QED BY <2>1 DEF encodeTLV, v
<1>. HIDE DEF B
<1>5. /\ h \in Seq(B) /\ Len(h) = 3 /\ h[1] = t.typ
      /\ h[2] = Len(v) \div Base /\ h[3] = Len(v) % Base
  BY SMT, <1>1, <1>3
<1>. HIDE DEF h
<1>6. /\ e \in Seq(B) /\ Len(e) = 3 + Len(v)
      /\ \A k \in 1..(3 + Len(v)) : e[k] = IF k <= 3 THEN h[k] ELSE v[k - 3]
  <2>1. /\ h \o v \in Seq(B) /\ Len(h \o v) = Len(h) + Len(v)
        /\ \A k \in 1..(Len(h) + Len(v)) :
             (h \o v)[k] = IF k <= Len(h) THEN h[k] ELSE v[k - Len(h)]
    BY <1>1, <1>5, Concatenation
  <2>. QED BY <1>4, <1>5, <2>1
<1>7. e[1] = h[1] /\ e[2] = h[2] /\ e[3] = h[3]
  <2>1. \A k \in {1, 2, 3} : k \in 1..(3 + Len(v)) /\ k <= 3
    BY SMT, <1>2
  <2>. QED BY <1>6, <2>1
<1>8. ASSUME NEW k \in 1..Len(v) PROVE e[3 + k] = v[k]
  <2>1. 3 + k \in 1..(3 + Len(v)) /\ ~(3 + k <= 3) /\ (3 + k) - 3 = k
    BY SMT, <1>2
  <2>. QED BY <1>6, <2>1
<1>. QED BY <1>2, <1>3, <1>5, <1>6, <1>7, <1>8 DEF B, v

(* f holds what encodeTLVs has written after each TLV.                     *)
IsEncoding(f, l) ==
    /\ f \in [0..Len(l) -> Seq(Byte)]
    /\ f[0] = << >>
    /\ \A n \in 1..Len(l) : f[n] = f[n - 1] \o encodeTLV(l[n])
    /\ encodeTLVs(l) = f[Len(l)]

(* encodeTLVs satisfies the equations it is written with.                  *)
LEMMA EncodeLoop ==
    ASSUME NEW l \in Seq(AnyTLV)
    PROVE  \E f : IsEncoding(f, l)
<1>. DEFINE n == Len(l)
            S == Seq(Byte)
            enc == [k \in 1..n |-> encodeTLV(l[k])]
            round(f) == [k \in 0..n |-> IF k = 0 THEN << >> ELSE f[k - 1] \o encodeTLV(l[k])]
            body == [k \in 1..n |-> [x \in S |-> x \o encodeTLV(l[k])]]
<1>1. n \in Nat /\ << >> \in S /\ \A k \in 1..n : k # 0 /\ k \in 0..n /\ k - 1 \in 0..n
  BY SMT
<1>2. \A k \in 1..n : l[k] \in AnyTLV
  <2>. DEFINE A == AnyTLV
  <2>. HIDE DEF A
  <2>1. l \in Seq(A)
    BY DEF A
  <2>2. \A k \in 1..n : l[k] \in A
    BY SMT, <2>1
  <2>. QED BY <2>2 DEF A
<1>3. \A k \in 1..n : encodeTLV(l[k]) \in S
  BY <1>2, TLVEncoded
<1>4. \A x, y \in S : x \o y \in S
  BY Concatenation
<1>. HIDE DEF S, n
<1>5. body \in [1..n -> [S -> S]]
  BY <1>3, <1>4
<1>6. \A k \in 1..n, x \in S : body[k][x] = x \o encodeTLV(l[k])
  OBVIOUS
<1>. HIDE DEF body
<1>7. PICK f : IsRun(f, n, S, << >>, body)
  BY <1>1, <1>5, LoopRuns
<1>8. f \in [0..n -> S] /\ f[0] = << >> /\ \A k \in 1..n : f[k] = body[k][f[k - 1]]
  BY <1>7 DEF IsRun
<1>9. f = round(f)
  <2>1. f = [k \in 0..n |-> f[k]]
    BY <1>8
  <2>2. ASSUME NEW k \in 0..n PROVE f[k] = IF k = 0 THEN << >> ELSE f[k - 1] \o encodeTLV(l[k])
    <3>1. CASE k = 0
      BY <1>8, <3>1
    <3>2. CASE k # 0
      <4>1. k \in 1..n
        BY SMT, <1>1, <3>2
      <4>. QED BY <1>1, <1>6, <1>8, <3>2, <4>1
    <3>. QED BY <3>1, <3>2
  <2>. QED BY <2>1, <2>2
<1>. DEFINE v == CHOOSE g : g = round(g)
<1>10. v = round(v)
  BY <1>9
<1>11. encodeTLVs(l) = v[n]
  BY DEF encodeTLVs, n
<1>. HIDE DEF v
<1>12. /\ v = [k \in 0..n |-> v[k]]
       /\ \A k \in 0..n : v[k] = IF k = 0 THEN << >> ELSE v[k - 1] \o encodeTLV(l[k])
  BY <1>10
<1>13. v[0] = << >>
  <2>1. 0 \in 0..n
    BY SMT, <1>1
  <2>. QED BY <1>12, <2>1
<1>14. \A k \in 1..n : v[k] = v[k - 1] \o encodeTLV(l[k])
  BY <1>1, <1>12
<1>15. \A k \in 1..n : v[k - 1] \in S => v[k] = body[k][v[k - 1]]
  BY <1>6, <1>14
<1>16. IsRun(v, n, S, << >>, body)
  BY <1>1, <1>5, <1>12, <1>13, <1>15, LoopDefines
<1>17. v \in [0..n -> S]
  BY <1>16 DEF IsRun
<1>18. IsEncoding(v, l)
  BY <1>11, <1>13, <1>14, <1>17 DEF IsEncoding, S, n
<1>. QED BY <1>18

(* One more TLV is written after the others.                               *)
LEMMA EncodeAppend ==
    ASSUME NEW l \in Seq(AnyTLV), NEW t \in AnyTLV
    PROVE  encodeTLVs(Append(l, t)) = encodeTLVs(l) \o encodeTLV(t)
<1>. DEFINE n == Len(l)
            A == AnyTLV
            m == Append(l, t)
<1>0. l \in Seq(A) /\ t \in A
  OBVIOUS
<1>. HIDE DEF A
<1>1. /\ n \in Nat /\ m \in Seq(A) /\ Len(m) = n + 1 /\ m[n + 1] = t
      /\ \A k \in 1..n : m[k] = l[k]
  BY SMT, <1>0
<1>. HIDE DEF m, n
<1>2. PICK f : IsEncoding(f, m)
  BY <1>1, EncodeLoop DEF A
<1>3. PICK g : IsEncoding(g, l)
  BY EncodeLoop
<1>4. /\ f[0] = << >> /\ encodeTLVs(m) = f[n + 1]
      /\ \A k \in 1..(n + 1) : f[k] = f[k - 1] \o encodeTLV(m[k])
  BY <1>1, <1>2 DEF IsEncoding
<1>5. /\ g[0] = << >> /\ encodeTLVs(l) = g[n]
      /\ \A k \in 1..n : g[k] = g[k - 1] \o encodeTLV(l[k])
  BY <1>3 DEF IsEncoding, n
<1>. DEFINE T == {k \in 0..n : f[k] = g[k]}
<1>6. 0 \in T
  <2>1. 0 \in 0..n
    BY SMT, <1>1
  <2>. QED BY <1>4, <1>5, <2>1
<1>7. ASSUME NEW k \in 1..n, k - 1 \in T PROVE k \in T
  <2>1. k \in 0..n /\ k \in 1..(n + 1)
    BY SMT, <1>1
  <2>. QED BY <1>1, <1>4, <1>5, <1>7, <2>1
<1>. HIDE DEF T
<1>8. \A k \in 0..n : k \in T
  BY <1>1, <1>6, <1>7, SetInduction
<1>9. n \in 0..n /\ n + 1 \in 1..(n + 1) /\ (n + 1) - 1 = n
  BY SMT, <1>1
<1>10. f[n] = g[n]
  BY <1>8, <1>9 DEF T
<1>. QED BY <1>1, <1>4, <1>5, <1>9, <1>10 DEF m

(* What is written after some TLVs is how the whole begins.                *)
LEMMA EncodedPrefix ==
    ASSUME NEW l \in Seq(AnyTLV), NEW f, IsEncoding(f, l), NEW n \in 0..Len(l)
    PROVE  /\ Len(f[n]) \in Nat /\ Len(f[n]) <= Len(f[Len(l)]) /\ 3 * n <= Len(f[n])
           /\ \A k \in 1..Len(f[n]) : f[Len(l)][k] = f[n][k]
<1>. DEFINE N == Len(l)
            S == Seq(Byte)
<1>1. N \in Nat /\ n \in 0..N
  BY SMT
<1>2. f \in [0..N -> S] /\ f[0] = << >> /\ \A k \in 1..N : f[k] = f[k - 1] \o encodeTLV(l[k])
  BY DEF IsEncoding
<1>3. ASSUME NEW k \in 1..N
      PROVE  /\ f[k - 1] \in Seq(Byte) /\ k - 1 \in 0..N /\ k \in 0..N
             /\ Len(f[k - 1]) \in Nat /\ Len(f[k]) >= Len(f[k - 1]) + 3 /\ Len(f[k]) \in Nat
             /\ \A h \in 1..Len(f[k - 1]) : f[k][h] = f[k - 1][h]
  <2>. DEFINE e == encodeTLV(l[k])
              x == f[k - 1]
              B == Byte
  <2>1. k - 1 \in 0..N /\ k \in 0..N
    BY SMT, <1>1
  <2>2. l[k] \in AnyTLV
    <3>. DEFINE A == AnyTLV
    <3>. HIDE DEF A
    <3>1. l \in Seq(A)
      BY DEF A
    <3>2. l[k] \in A
      BY SMT, <3>1
    <3>. QED BY <3>2 DEF A
  <2>3. e \in Seq(B) /\ Len(e) = 3 + Len(l[k].val) /\ Len(l[k].val) \in Nat
    BY <2>2, TLVEncoded
  <2>4. x \in Seq(B) /\ f[k] = x \o e
    BY <1>2, <2>1
  <2>. HIDE DEF B, e, x
  <2>5. /\ x \o e \in Seq(B) /\ Len(x \o e) = Len(x) + Len(e)
        /\ \A h \in 1..(Len(x) + Len(e)) :
             (x \o e)[h] = IF h <= Len(x) THEN x[h] ELSE e[h - Len(x)]
    <3>1. x \in Seq(B) /\ e \in Seq(B)
      BY <2>3, <2>4
    <3>. QED BY <3>1, Concatenation
  <2>6. Len(x) \in Nat /\ Len(e) \in Nat /\ Len(e) >= 3
    BY SMT, <2>3, <2>4
  <2>7. \A h \in 1..Len(x) : h \in 1..(Len(x) + Len(e)) /\ h <= Len(x)
    BY SMT, <2>6
  <2>8. Len(f[k]) = Len(x) + Len(e) /\ \A h \in 1..Len(x) : f[k][h] = x[h]
    BY <2>4, <2>5, <2>7
  <2>9. Len(f[k]) >= Len(x) + 3 /\ Len(f[k]) \in Nat
    BY SMT, <2>6, <2>8
  <2>. QED BY <2>1, <2>4, <2>6, <2>8, <2>9 DEF B, x
<1>. HIDE DEF N
<1>. DEFINE T == {k \in 0..N : Len(f[k]) \in Nat /\ 3 * k <= Len(f[k])}
            U == {k \in 0..N : /\ Len(f[N - k]) <= Len(f[N])
                               /\ \A h \in 1..Len(f[N - k]) : f[N][h] = f[N - k][h]}
<1>4. 0 \in T
  BY SMT, <1>1, <1>2
<1>5. ASSUME NEW k \in 1..N, k - 1 \in T PROVE k \in T
  <2>1. /\ k \in 0..N /\ Len(f[k - 1]) \in Nat /\ 3 * (k - 1) <= Len(f[k - 1])
        /\ Len(f[k]) >= Len(f[k - 1]) + 3 /\ Len(f[k]) \in Nat
    BY <1>3, <1>5
  <2>2. 3 * k <= Len(f[k])
    BY SMT, <1>1, <2>1
  <2>. QED BY <2>1, <2>2
<1>. HIDE DEF T
<1>6. \A k \in 0..N : k \in T
  BY <1>1, <1>4, <1>5, SetInduction
<1>7. \A k \in 0..N : Len(f[k]) \in Nat /\ 3 * k <= Len(f[k])
  BY <1>6 DEF T
<1>8. 0 \in U
  <2>1. 0 \in 0..N /\ N - 0 = N /\ N \in 0..N
    BY SMT, <1>1
  <2>2. Len(f[N]) <= Len(f[N])
    <3>1. Len(f[N]) \in Nat
      BY <1>7, <2>1
    <3>. QED BY SMT, <3>1
  <2>. QED BY <2>1, <2>2
<1>9. ASSUME NEW k \in 1..N, k - 1 \in U PROVE k \in U
  <2>. DEFINE h == N - (k - 1)
  <2>1. h \in 1..N /\ h - 1 = N - k /\ k \in 0..N /\ N \in 0..N
    BY SMT, <1>1
  <2>2. Len(f[h]) <= Len(f[N]) /\ \A j \in 1..Len(f[h]) : f[N][j] = f[h][j]
    BY <1>9
  <2>. HIDE DEF h
  <2>3. /\ Len(f[h - 1]) \in Nat /\ Len(f[h]) >= Len(f[h - 1]) + 3 /\ Len(f[h]) \in Nat
        /\ \A j \in 1..Len(f[h - 1]) : f[h][j] = f[h - 1][j]
    BY <1>3, <2>1
  <2>4. Len(f[N]) \in Nat
    BY <1>7, <2>1
  <2>5. Len(f[h - 1]) <= Len(f[N]) /\ \A j \in 1..Len(f[h - 1]) : j \in 1..Len(f[h])
    BY SMT, <2>2, <2>3, <2>4
  <2>6. \A j \in 1..Len(f[h - 1]) : f[N][j] = f[h - 1][j]
    BY <2>2, <2>3, <2>5
  <2>. QED BY <2>1, <2>5, <2>6
<1>. HIDE DEF U
<1>10. \A k \in 0..N : k \in U
  BY <1>1, <1>8, <1>9, SetInduction
<1>11. N - n \in 0..N /\ N - (N - n) = n
  BY SMT, <1>1
<1>12. Len(f[n]) <= Len(f[N]) /\ \A k \in 1..Len(f[n]) : f[N][k] = f[n][k]
  <2>1. N - n \in U
    BY <1>10, <1>11
  <2>2. Len(f[N - (N - n)]) <= Len(f[N])
        /\ \A k \in 1..Len(f[N - (N - n)]) : f[N][k] = f[N - (N - n)][k]
    BY <2>1 DEF U
  <2>. QED BY <1>11, <2>2
<1>. QED BY <1>1, <1>7, <1>12 DEF N

(* The decoder, standing after n TLVs of a list whose encoding the packet  *)
(* is, finds the next one.                                                 *)
LEMMA NextTLV ==
    ASSUME NEW l \in Seq(AnyTLV), NEW f, IsEncoding(f, l), encodeTLVs(l) = packet,
           NEW n \in 0..Len(l), n # Len(l), Len(f[n]) = i
    PROVE  /\ remaining >= 3 /\ ~truncated
           /\ n + 1 \in 1..Len(l) /\ l[n + 1] \in AnyTLV
           /\ typ = l[n + 1].typ /\ length = Len(l[n + 1].val)
           /\ SubSeq(packet, i + 4, i + 3 + length) = l[n + 1].val
           /\ past = Len(f[n + 1])
<1>. DEFINE N == Len(l)
            t == l[n + 1]
            x == f[n]
            y == f[n + 1]
            e == encodeTLV(t)
            V == Len(t.val)
<1>1. N \in Nat /\ n \in 0..N /\ n + 1 \in 1..N /\ n + 1 \in 0..N /\ (n + 1) - 1 = n
  BY SMT
<1>2. t \in AnyTLV
  <2>. DEFINE A == AnyTLV
  <2>. HIDE DEF A
  <2>1. l \in Seq(A)
    BY DEF A
  <2>2. l[n + 1] \in A
    BY SMT, <1>1, <2>1
  <2>. QED BY <2>2 DEF A
<1>3. f \in [0..N -> Seq(Byte)] /\ y = x \o e /\ f[N] = packet
  <2>1. \A k \in 1..N : f[k] = f[k - 1] \o encodeTLV(l[k])
    BY DEF IsEncoding
  <2>. QED BY <1>1, <2>1 DEF IsEncoding
<1>4. /\ e \in Seq(Byte) /\ Len(e) = 3 + V /\ V \in Nat
      /\ e[1] = t.typ /\ BigEndian(e[2], e[3]) = V
      /\ \A k \in 1..V : e[3 + k] = t.val[k]
  BY <1>2, TLVEncoded
<1>5. x \in Seq(Byte) /\ packet \in Seq(Byte)
  <2>1. N \in 0..N
    BY SMT, <1>1
  <2>. QED BY <1>1, <1>3, <2>1
<1>6. /\ Len(y) \in Nat /\ Len(y) <= Len(packet)
      /\ \A k \in 1..Len(y) : packet[k] = y[k]
  <2>1. /\ Len(f[n + 1]) \in Nat /\ Len(f[n + 1]) <= Len(f[Len(l)])
        /\ \A k \in 1..Len(f[n + 1]) : f[Len(l)][k] = f[n + 1][k]
    BY <1>1, EncodedPrefix
  <2>. QED BY <1>3, <2>1
<1>7. t.val \in Seq(Byte)
  BY <1>2 DEF AnyTLV
<1>8. Len(x) = i
  OBVIOUS
<1>. HIDE DEF N, t, x, y, e, V
<1>9. /\ Len(y) = Len(x) + Len(e)
      /\ \A k \in 1..(Len(x) + Len(e)) : y[k] = IF k <= Len(x) THEN x[k] ELSE e[k - Len(x)]
  <2>1. x \in Seq(Byte) /\ e \in Seq(Byte)
    BY <1>4, <1>5
  <2>. QED BY <1>3, <2>1, Concatenation
<1>10. i \in Nat /\ Len(packet) \in Nat /\ Len(y) = i + 3 + V
  <2>1. Len(x) \in Nat /\ Len(packet) \in Nat
    BY SMT, <1>5
  <2>. QED BY SMT, <1>4, <1>8, <1>9, <2>1
<1>11. ASSUME NEW k \in 1..(3 + V) PROVE packet[i + k] = e[k]
  <2>1. i + k \in 1..Len(y) /\ i + k \in 1..(Len(x) + Len(e)) /\ ~(i + k <= Len(x))
        /\ (i + k) - Len(x) = k
    BY SMT, <1>4, <1>8, <1>9, <1>10
  <2>. QED BY <1>6, <1>9, <2>1
<1>12. typ = t.typ /\ length = V
  <2>1. \A k \in {1, 2, 3} : k \in 1..(3 + V)
    BY SMT, <1>4
  <2>2. packet[i + 1] = e[1] /\ packet[i + 2] = e[2] /\ packet[i + 3] = e[3]
    BY <1>11, <2>1
  <2>. QED BY <1>4, <2>2 DEF typ, length
<1>13. past = Len(y) /\ remaining >= 3 /\ ~truncated
  BY SMT, <1>4, <1>6, <1>10, <1>12 DEF past, remaining, truncated
<1>14. SubSeq(packet, i + 4, i + 3 + length) = t.val
  <2>. DEFINE s == SubSeq(packet, i + 4, i + 3 + V)
              a == i + 4
              b == i + 3 + V
  <2>1. a \in Int /\ b \in Int /\ b - a + 1 = V /\ (IF a <= b THEN b - a + 1 ELSE 0) = V
        /\ \A k \in a..b : k \in 1..Len(packet)
    BY SMT, <1>4, <1>6, <1>10
  <2>2. \A k \in a..b : packet[k] \in Byte
    <3>. DEFINE B == Byte
    <3>1. packet \in Seq(B)
      BY <1>5
    <3>. HIDE DEF B
    <3>2. \A k \in 1..Len(packet) : packet[k] \in B
      BY SMT, <3>1
    <3>. QED BY <2>1, <3>2 DEF B
  <2>3. a + 0 = i + 4 /\ \A k \in 1..V : a + k - 1 = i + (3 + k) /\ 3 + k \in 1..(3 + V)
    BY SMT, <1>4, <1>10
  <2>. HIDE DEF a, b
  <2>4. /\ SubSeq(packet, a, b) \in Seq(Byte)
        /\ Len(SubSeq(packet, a, b)) = IF a <= b THEN b - a + 1 ELSE 0
        /\ \A k \in 1..(b - a + 1) : SubSeq(packet, a, b)[k] = packet[a + k - 1]
    BY SMT, <2>1, <2>2, Piece
  <2>5. s \in Seq(Byte) /\ Len(s) = V /\ \A k \in 1..V : s[k] = packet[a + k - 1]
    BY <2>1, <2>4 DEF a, b
  <2>6. ASSUME NEW k \in 1..V PROVE s[k] = t.val[k]
    <3>1. packet[a + k - 1] = e[3 + k]
      BY <1>11, <2>3
    <3>. QED BY <1>4, <2>5, <3>1
  <2>. HIDE DEF s
  <2>7. Len(s) = Len(t.val) /\ \A k \in 1..Len(s) : s[k] = t.val[k]
    BY <2>5, <2>6 DEF V
  <2>8. s = t.val
    BY <1>7, <2>5, <2>7, SameElements
  <2>. QED BY <1>12, <2>8 DEF s
<1>. QED BY <1>1, <1>2, <1>12, <1>13, <1>14 DEF N, t, y, V

(* The fields are those of the first n TLVs of a list.                     *)
Met(l, n) ==
    /\ DOMAIN fields = {l[k].typ : k \in 1..n} \cap FieldTypes
    /\ \A k \in 1..n : l[k].typ \in FieldTypes => fields[l[k].typ] = l[k].val

(* A list that the packet is the encoding of, with no field twice.         *)
MayBe(l) == l \in Seq(AnyTLV) /\ encodeTLVs(l) = packet /\ fieldsOnce(l)

(* Where the decoder stands in such a list.                                *)
StandsIn(l) ==
    \E f : \E n \in 0..Len(l) : IsEncoding(f, l) /\ Len(f[n]) = i /\ Met(l, n)

(* What has been read is the encoding of a list.                           *)
IsRead(l) ==
    /\ l \in Seq(AnyTLV) /\ fieldsOnce(l) /\ Met(l, Len(l))
    /\ Len(encodeTLVs(l)) = i /\ \A k \in 1..i : encodeTLVs(l)[k] = packet[k]
    /\ \A k \in 1..Len(l) : Len(l[k].val) + 3 * Len(l) <= i
    /\ 3 * Len(l) <= i

WireInv ==
    /\ packet \in Seq(Byte) /\ Len(packet) <= MaxBytes
    /\ i \in 0..Len(packet)
    /\ header = "good" =>
        /\ \E l : IsRead(l)
        /\ result = "none" => \A l : MayBe(l) => StandsIn(l)
        /\ result = "ok" => i = Len(packet) /\ \A l : MayBe(l) => Met(l, Len(l))
        /\ result \notin {"none", "ok"} => \A l : ~MayBe(l)

(* Reading a TLV adds its field.                                           *)
LEMMA MetNext ==
    ASSUME NEW l, NEW n \in Nat, Met(l, n), ReadTLV,
           l[n + 1].typ = typ, l[n + 1].val = SubSeq(packet, i + 4, i + 3 + length)
    PROVE  Met(l, n + 1)'
<1>. DEFINE v == SubSeq(packet, i + 4, i + 3 + length)
            u == l[n + 1].typ
<1>1. /\ ~again
      /\ fields' = IF typ \notin FieldTypes THEN fields
                   ELSE [t \in DOMAIN fields \cup {typ} |-> IF t = typ THEN v ELSE fields[t]]
  BY DEF ReadTLV
<1>2. u = typ /\ l[n + 1].val = v
  OBVIOUS
<1>. HIDE DEF v, u
<1>3. \A k : k \in 1..(n + 1) <=> k \in 1..n \/ k = n + 1
  BY SMT
<1>4. {l[k].typ : k \in 1..(n + 1)} = {l[k].typ : k \in 1..n} \cup {typ}
  BY <1>2, <1>3 DEF u
<1>5. DOMAIN fields = {l[k].typ : k \in 1..n} \cap FieldTypes
  BY DEF Met
<1>6. DOMAIN fields' = {l[k].typ : k \in 1..(n + 1)} \cap FieldTypes
  <2>1. CASE typ \notin FieldTypes
    BY <1>1, <1>4, <1>5, <2>1
  <2>2. CASE typ \in FieldTypes
    <3>1. DOMAIN fields' = DOMAIN fields \cup {typ}
      BY <1>1, <2>2
    <3>. QED BY <1>4, <1>5, <2>2, <3>1
  <2>. QED BY <2>1, <2>2
<1>7. ASSUME NEW k \in 1..(n + 1), l[k].typ \in FieldTypes
      PROVE  fields'[l[k].typ] = l[k].val
  <2>1. CASE k = n + 1
    <3>1. typ \in FieldTypes /\ l[k].typ = typ /\ l[k].val = v
      BY <1>2, <1>7, <2>1 DEF u
    <3>2. fields'[typ] = v
      BY <1>1, <3>1
    <3>. QED BY <3>1, <3>2
  <2>2. CASE k # n + 1
    <3>1. k \in 1..n
      BY <1>3, <2>2
    <3>2. fields[l[k].typ] = l[k].val /\ l[k].typ \in DOMAIN fields
      BY <1>5, <1>7, <3>1 DEF Met
    <3>3. typ \in FieldTypes => l[k].typ # typ
      BY <1>1, <3>2 DEF again
    <3>. QED BY <1>1, <3>2, <3>3
  <2>. QED BY <2>1, <2>2
<1>. QED BY <1>6, <1>7 DEF Met

(* No more of the packet has been read than there is.                      *)
LEMMA WireStarts ==
    ASSUME WireInit
    PROVE  WireInv
<1>1. i = 0 /\ fields = << >> /\ result = "none"
  BY DEF WireInit
<1>2. packet \in Seq(Byte) /\ Len(packet) <= MaxBytes /\ 0 \in 0..Len(packet)
  <2>1. PICK n \in 0..MaxBytes : packet \in [1..n -> Byte]
    BY DEF WireInit, bytes
  <2>2. n \in Nat /\ n <= MaxBytes
    BY SMT, WireAssumption
  <2>3. packet \in Seq(Byte) /\ Len(packet) = n
    BY SMT, <2>1, <2>2
  <2>. QED BY SMT, <2>2, <2>3
<1>3. ASSUME NEW l PROVE Met(l, 0)
  <2>1. DOMAIN fields = {} /\ 1..0 = {}
    BY SMT, <1>1
  <2>. QED BY <2>1 DEF Met
<1>4. IsRead(<< >>)
  <2>1. << >> \in Seq(AnyTLV) /\ Len(<< >>) = 0 /\ DOMAIN << >> = {} /\ 1..0 = {} /\ 3 * 0 <= 0
    BY SMT
  <2>2. PICK f : IsEncoding(f, << >>)
    BY <2>1, EncodeLoop
  <2>3. encodeTLVs(<< >>) = << >>
    BY <2>1, <2>2 DEF IsEncoding
  <2>4. fieldsOnce(<< >>)
    BY <2>1 DEF fieldsOnce
  <2>. QED BY <1>1, <1>3, <2>1, <2>3, <2>4 DEF IsRead
<1>5. ASSUME NEW l, MayBe(l) PROVE StandsIn(l)
  <2>1. l \in Seq(AnyTLV)
    BY <1>5 DEF MayBe
  <2>2. PICK f : IsEncoding(f, l)
    BY <2>1, EncodeLoop
  <2>3. 0 \in 0..Len(l) /\ Len(<< >>) = 0
    BY SMT, <2>1
  <2>4. Len(f[0]) = i
    BY <1>1, <2>2, <2>3 DEF IsEncoding
  <2>. QED BY <1>3, <2>2, <2>3, <2>4 DEF StandsIn
<1>. QED BY <1>1, <1>2, <1>4, <1>5 DEF WireInv

(* Whether a list may be the packet's, where the decoder stands in it, and *)
(* which fields are met do not depend on the result.                       *)
LEMMA ReturningKeeps ==
    ASSUME UNCHANGED <<header, packet, i, fields>>, NEW l
    PROVE  /\ MayBe(l)' <=> MayBe(l)
           /\ \A n : Met(l, n)' <=> Met(l, n)
           /\ IsRead(l)' <=> IsRead(l)
           /\ StandsIn(l)' <=> StandsIn(l)
<1>1. \A n : Met(l, n)' <=> Met(l, n)
  BY DEF Met
<1>. QED BY <1>1 DEF MayBe, IsRead, StandsIn

(* A step that ends the decoding with an answer that fits every list.      *)
LEMMA ReturnStep ==
    ASSUME WireInv, NEW why, returns(why), why # "none",
           header = "good" /\ why = "ok" => /\ i = Len(packet)
                                            /\ \A l : MayBe(l) => Met(l, Len(l)),
           header = "good" /\ why # "ok" => \A l : ~MayBe(l)
    PROVE  WireInv'
<1>1. UNCHANGED <<header, packet, i, fields>> /\ result' = why
  BY DEF returns
<1>2. \A l : MayBe(l)' <=> MayBe(l)
  BY <1>1, ReturningKeeps
<1>3. \A l : \A n : Met(l, n)' <=> Met(l, n)
  BY <1>1, ReturningKeeps
<1>4. \A l : IsRead(l)' <=> IsRead(l)
  BY <1>1, ReturningKeeps
<1>5. packet' \in Seq(Byte) /\ Len(packet') <= MaxBytes /\ i' \in 0..Len(packet')
  BY <1>1 DEF WireInv
<1>6. header' = "good" => \E l : IsRead(l)'
  BY <1>1, <1>4 DEF WireInv
<1>7. header' = "good" /\ result' = "ok" =>
        i' = Len(packet') /\ \A l : MayBe(l)' => Met(l, Len(l))'
  BY <1>1, <1>2, <1>3
<1>8. header' = "good" /\ result' \notin {"none", "ok"} => \A l : ~MayBe(l)'
  BY <1>1, <1>2
<1>. QED BY <1>1, <1>5, <1>6, <1>7, <1>8 DEF WireInv

(* While decoding, a list that the packet may be is met up to where the    *)
(* decoder stands: at the end of the packet it is met, and before the end  *)
(* there is another TLV, which is all there and is no field again.         *)
LEMMA Standing ==
    ASSUME WireInv, decoding, NEW l, MayBe(l)
    PROVE  /\ i = Len(packet) => Met(l, Len(l))
           /\ i # Len(packet) => remaining >= 3 /\ ~truncated /\ ~again
<1>1. l \in Seq(AnyTLV) /\ encodeTLVs(l) = packet /\ fieldsOnce(l)
  BY DEF MayBe
<1>0. PICK f : \E n \in 0..Len(l) : IsEncoding(f, l) /\ Len(f[n]) = i /\ Met(l, n)
  BY DEF WireInv, decoding, StandsIn
<1>2. PICK n \in 0..Len(l) : IsEncoding(f, l) /\ Len(f[n]) = i /\ Met(l, n)
  BY <1>0
<1>3. Len(packet) \in Nat /\ Len(l) \in Nat /\ n \in Nat /\ i \in Nat
  BY SMT, <1>1, <1>2 DEF WireInv
<1>4. CASE n = Len(l)
  <2>1. i = Len(packet)
    BY <1>1, <1>2, <1>4 DEF IsEncoding
  <2>. QED BY <1>2, <1>4, <2>1
<1>5. CASE n # Len(l)
  <2>1. /\ remaining >= 3 /\ ~truncated
        /\ n + 1 \in 1..Len(l) /\ typ = l[n + 1].typ
    BY <1>1, <1>2, <1>5, NextTLV
  <2>2. i # Len(packet)
    BY SMT, <1>3, <2>1 DEF remaining
  <2>3. ~again
    <3>. SUFFICES ASSUME again PROVE FALSE
      OBVIOUS
    <3>1. PICK k \in 1..n : l[k].typ = typ
      BY <1>2 DEF again, Met
    <3>2. k \in DOMAIN l /\ n + 1 \in DOMAIN l /\ k # n + 1
      BY SMT, <1>1, <1>2, <1>3, <2>1, <3>1
    <3>. QED BY <1>1, <2>1, <3>1, <3>2 DEF fieldsOnce, again
  <2>. QED BY <2>1, <2>2, <2>3
<1>. QED BY <1>4, <1>5

(* A TLV more takes three bytes at least.                                  *)
LEMMA OneMoreFits ==
    ASSUME NEW c \in Nat, NEW n \in Nat, NEW k \in Nat, NEW d \in Nat, c + 3 * n <= k
    PROVE  c + 3 * (n + 1) <= k + 3 + d
BY SMT

(* Reading a TLV.                                                          *)
LEMMA ReadStep ==
    ASSUME WireInv, ReadTLV
    PROVE  WireInv'
<1>. DEFINE v == SubSeq(packet, i + 4, i + 3 + length)
            B == Byte
<1>1. /\ result = "none" /\ header = "good" /\ remaining >= 3 /\ ~truncated /\ ~again
      /\ i' = past /\ UNCHANGED <<header, packet, result>>
  BY DEF ReadTLV, decoding
<1>2. packet \in Seq(B) /\ Len(packet) \in Nat /\ i \in Nat /\ i <= Len(packet)
  <2>1. packet \in Seq(B) /\ i \in 0..Len(packet)
    BY DEF WireInv
  <2>. HIDE DEF B
  <2>. QED BY SMT, <2>1
<1>. HIDE DEF B
<1>3. i + 3 <= Len(packet) /\ \A k \in {1, 2, 3} : i + k \in 1..Len(packet)
  BY SMT, <1>1, <1>2 DEF remaining
<1>4. \A k \in 1..Len(packet) : packet[k] \in B
  BY SMT, <1>2
<1>5. typ \in B /\ packet[i + 2] \in B /\ packet[i + 3] \in B
  BY <1>3, <1>4 DEF typ
<1>6. /\ length \in Nat /\ length < Base * Base
      /\ length \div Base = packet[i + 2] /\ length % Base = packet[i + 3]
  BY <1>5, TwoBytesRead DEF length, B
<1>7. past = i + 3 + length /\ past <= Len(packet) /\ past \in 0..Len(packet) /\ past \in Nat
  <2>1. ~(length > Len(packet) - i - 3)
    BY <1>1 DEF truncated, remaining
  <2>. QED BY SMT, <1>2, <1>6, <2>1 DEF past
<1>8. v \in Seq(B) /\ Len(v) = length /\ \A k \in 1..length : v[k] = packet[i + (3 + k)]
  <2>. DEFINE a == i + 4
              b == i + 3 + length
  <2>1. a \in Int /\ b \in Int /\ b - a + 1 = length
        /\ (IF a <= b THEN b - a + 1 ELSE 0) = length
        /\ \A k \in a..b : k \in 1..Len(packet)
    BY SMT, <1>2, <1>6, <1>7
  <2>2. \A k \in 1..length : a + k - 1 = i + (3 + k)
    BY SMT, <1>2, <1>6
  <2>. HIDE DEF a, b
  <2>3. \A k \in a..b : packet[k] \in B
    BY <1>4, <2>1
  <2>4. /\ SubSeq(packet, a, b) \in Seq(B)
        /\ Len(SubSeq(packet, a, b)) = IF a <= b THEN b - a + 1 ELSE 0
        /\ \A k \in 1..(b - a + 1) : SubSeq(packet, a, b)[k] = packet[a + k - 1]
    BY SMT, <2>1, <2>3, Piece
  <2>. QED BY <2>1, <2>2, <2>4 DEF a, b
<1>. HIDE DEF v
<1>14. PICK t : t = [typ |-> typ, val |-> v]
  OBVIOUS
<1>9. t \in AnyTLV /\ t.typ = typ /\ t.val = v
  BY <1>5, <1>6, <1>8, <1>14 DEF AnyTLV, B
<1>10. /\ encodeTLV(t) \in Seq(B) /\ Len(encodeTLV(t)) = 3 + length
       /\ \A k \in 1..(3 + length) : encodeTLV(t)[k] = packet[i + k]
  <2>. DEFINE e == encodeTLV(t)
              h == <<typ, length \div Base, length % Base>>
  <2>1. /\ e \in Seq(B) /\ Len(e) = 3 + length
        /\ \A k \in 1..length : e[3 + k] = v[k]
    BY <1>8, <1>9, TLVEncoded DEF B
  <2>2. e[1] = typ
    BY <1>9, TLVEncoded
  <2>3. e = h \o v
    <3>1. ~(length >= Base * Base)
      <4>1. Base * Base \in Nat
        BY SMT, WireAssumption
      <4>. QED BY SMT, <1>6, <4>1
    <3>. QED BY <1>8, <1>9, <3>1 DEF encodeTLV
  <2>4. h \in Seq(B) /\ Len(h) = 3 /\ h[2] = packet[i + 2] /\ h[3] = packet[i + 3]
    BY SMT, <1>5, <1>6
  <2>. HIDE DEF e, h
  <2>5. \A k \in 1..(Len(h) + Len(v)) : (h \o v)[k] = IF k <= Len(h) THEN h[k] ELSE v[k - Len(h)]
    <3>1. h \in Seq(B) /\ v \in Seq(B)
      BY <1>8, <2>4
    <3>. QED BY SMT, <3>1, Concatenation
  <2>6. e[2] = h[2] /\ e[3] = h[3]
    <3>1. \A k \in {2, 3} : k \in 1..(Len(h) + Len(v)) /\ k <= Len(h)
      BY SMT, <1>6, <1>8, <2>4
    <3>. QED BY <2>3, <2>5, <3>1
  <2>7. ASSUME NEW k \in 1..(3 + length) PROVE e[k] = packet[i + k]
    <3>1. CASE k \in {1, 2, 3}
      BY <2>2, <2>4, <2>6, <3>1 DEF typ
    <3>2. CASE k \notin {1, 2, 3}
      <4>1. k - 3 \in 1..length /\ 3 + (k - 3) = k
        BY SMT, <1>6, <3>2
      <4>. QED BY <1>8, <2>1, <4>1
    <3>. QED BY <3>1, <3>2
  <2>. QED BY <2>1, <2>7 DEF e
<1>11. \E l : IsRead(l)'
  <2>1. PICK l : IsRead(l)
    BY <1>1 DEF WireInv
  <2>. DEFINE n == Len(l)
              m == Append(l, t)
              A == AnyTLV
              x == encodeTLVs(l)
              e == encodeTLV(t)
  <2>2. /\ l \in Seq(A) /\ fieldsOnce(l) /\ Met(l, n)
        /\ Len(x) = i /\ \A k \in 1..i : x[k] = packet[k]
        /\ \A k \in 1..n : Len(l[k].val) + 3 * n <= i
        /\ 3 * n <= i
    BY <2>1 DEF IsRead
  <2>3. x \in Seq(B)
    <3>1. PICK f : IsEncoding(f, l)
      BY <2>2, EncodeLoop
    <3>2. Len(l) \in 0..Len(l)
      BY SMT, <2>2
    <3>. QED BY <3>1, <3>2 DEF IsEncoding, B
  <2>4. encodeTLVs(m) = x \o e
    BY <1>9, <2>2, EncodeAppend
  <2>5. t \in A
    BY <1>9
  <2>. HIDE DEF A, x, e
  <2>6. /\ n \in Nat /\ m \in Seq(A) /\ Len(m) = n + 1 /\ m[n + 1] = t
        /\ DOMAIN m = 1..(n + 1) /\ DOMAIN l = 1..n /\ \A k \in 1..n : m[k] = l[k]
    BY SMT, <2>2, <2>5
  <2>7. \A k : k \in 1..(n + 1) <=> k \in 1..n \/ k = n + 1
    BY SMT, <2>6
  <2>. HIDE DEF m, n
  <2>8. Met(m, n)
    <3>1. {m[k].typ : k \in 1..n} = {l[k].typ : k \in 1..n}
      BY <2>6
    <3>. QED BY <2>2, <2>6, <3>1 DEF Met
  <2>9. Met(m, n + 1)'
    <3>1. m[n + 1].typ = typ /\ m[n + 1].val = SubSeq(packet, i + 4, i + 3 + length)
      BY <1>9, <2>6 DEF v
    <3>. QED BY <2>6, <2>8, <3>1, MetNext
  <2>10. fieldsOnce(m)
    <3>1. \A k \in 1..n : l[k].typ \in FieldTypes => l[k].typ # typ
      <4>1. \A k \in 1..n : l[k].typ \in FieldTypes => l[k].typ \in DOMAIN fields
        BY <2>2 DEF Met
      <4>. QED BY <1>1, <4>1 DEF again
    <3>2. \A j, k \in 1..n : l[j].typ = l[k].typ /\ l[j].typ \in FieldTypes => j = k
      BY <2>2, <2>6 DEF fieldsOnce
    <3>3. m[n + 1].typ = typ
      BY <1>9, <2>6
    <3>4. ASSUME NEW j \in 1..(n + 1), NEW k \in 1..(n + 1), m[j].typ = m[k].typ,
                 m[j].typ \in FieldTypes
          PROVE  j = k
      <4>1. CASE j = n + 1 /\ k = n + 1
        BY <4>1
      <4>2. CASE j \in 1..n /\ k = n + 1
        BY <2>6, <3>1, <3>3, <3>4, <4>2
      <4>3. CASE j = n + 1 /\ k \in 1..n
        BY <2>6, <3>1, <3>3, <3>4, <4>3
      <4>4. CASE j \in 1..n /\ k \in 1..n
        BY <2>6, <3>2, <3>4, <4>4
      <4>. QED BY <2>7, <4>1, <4>2, <4>3, <4>4
    <3>. QED BY <2>6, <3>4 DEF fieldsOnce
  <2>11. /\ Len(x \o e) = Len(x) + Len(e)
         /\ \A k \in 1..(Len(x) + Len(e)) :
              (x \o e)[k] = IF k <= Len(x) THEN x[k] ELSE e[k - Len(x)]
    <3>1. x \in Seq(B) /\ e \in Seq(B)
      BY <1>10, <2>3 DEF e
    <3>. QED BY SMT, <3>1, Concatenation
  <2>12. Len(e) = 3 + length /\ \A k \in 1..(3 + length) : e[k] = packet[i + k]
    BY <1>10 DEF e
  <2>13. Len(encodeTLVs(m)) = i'
    BY SMT, <1>1, <1>2, <1>6, <1>7, <2>2, <2>4, <2>11, <2>12
  <2>14. ASSUME NEW k \in 1..i' PROVE encodeTLVs(m)[k] = packet'[k]
    <3>0. k \in 1..(Len(x) + Len(e)) /\ packet' = packet
      BY SMT, <1>1, <1>2, <1>6, <1>7, <2>2, <2>12
    <3>1. CASE k <= i
      <4>1. k \in 1..i
        BY SMT, <1>2, <3>1
      <4>. QED BY <2>2, <2>4, <2>11, <3>0, <3>1, <4>1
    <3>2. CASE ~(k <= i)
      <4>1. k - i \in 1..(3 + length) /\ i + (k - i) = k
        BY SMT, <1>1, <1>2, <1>6, <1>7, <3>2
      <4>. QED BY <2>2, <2>4, <2>11, <2>12, <3>0, <3>2, <4>1
    <3>. QED BY <3>1, <3>2
  <2>15. 3 * (n + 1) <= i'
    BY SMT, <1>1, <1>2, <1>6, <1>7, <2>2, <2>6
  <2>16. ASSUME NEW k \in 1..(n + 1) PROVE Len(m[k].val) + 3 * (n + 1) <= i'
    <3>1. CASE k = n + 1
      <4>1. Len(m[k].val) = length
        BY <1>8, <1>9, <2>6, <3>1
      <4>. QED BY SMT, <1>1, <1>2, <1>6, <1>7, <2>2, <2>6, <4>1
    <3>2. CASE k \in 1..n
      <4>1. Len(m[k].val) = Len(l[k].val) /\ Len(l[k].val) + 3 * n <= i
        BY <2>2, <2>6, <3>2
      <4>2. Len(l[k].val) \in Nat
        <5>1. l[k] \in A
          BY SMT, <2>2, <3>2 DEF n
        <5>. QED BY SMT, <5>1 DEF A, AnyTLV
      <4>3. i' = i + 3 + length
        BY <1>1, <1>7
      <4>. DEFINE c == Len(l[k].val)
      <4>4. c \in Nat /\ c + 3 * n <= i
        BY <4>1, <4>2
      <4>. HIDE DEF c
      <4>5. c + 3 * (n + 1) <= i + 3 + length
        <5>1. i \in Nat /\ length \in Nat /\ n \in Nat
          BY <1>2, <1>6, <2>6
        <5>. QED BY <4>4, <5>1, OneMoreFits
      <4>. QED BY <4>1, <4>3, <4>5 DEF c
    <3>. QED BY <2>7, <3>1, <3>2
  <2>17. m \in Seq(AnyTLV)
    BY <2>6 DEF A
  <2>18. IsRead(m)'
    BY <2>6, <2>9, <2>10, <2>13, <2>14, <2>15, <2>16, <2>17 DEF IsRead
  <2>. QED BY <2>18
<1>12. ASSUME NEW l, MayBe(l)' PROVE StandsIn(l)'
  <2>1. MayBe(l)
    BY <1>1, <1>12 DEF MayBe
  <2>2. l \in Seq(AnyTLV) /\ encodeTLVs(l) = packet
    BY <2>1 DEF MayBe
  <2>3. StandsIn(l)
    BY <1>1, <2>1 DEF WireInv
  <2>4. PICK f : \E n \in 0..Len(l) : IsEncoding(f, l) /\ Len(f[n]) = i /\ Met(l, n)
    BY <2>3 DEF StandsIn
  <2>5. PICK n \in 0..Len(l) : IsEncoding(f, l) /\ Len(f[n]) = i /\ Met(l, n)
    BY <2>4
  <2>6. n # Len(l)
    <3>1. n = Len(l) => i = Len(packet)
      BY <2>2, <2>5 DEF IsEncoding
    <3>. QED BY SMT, <1>2, <1>3, <3>1
  <2>7. /\ n + 1 \in 1..Len(l) /\ typ = l[n + 1].typ
        /\ SubSeq(packet, i + 4, i + 3 + length) = l[n + 1].val
        /\ past = Len(f[n + 1])
    BY <2>2, <2>5, <2>6, NextTLV
  <2>8. n \in Nat /\ n + 1 \in 0..Len(l)
    BY SMT, <2>2, <2>5, <2>7
  <2>9. Met(l, n + 1)'
    BY <2>5, <2>7, <2>8, MetNext
  <2>. QED BY <1>1, <2>5, <2>7, <2>8, <2>9 DEF StandsIn
<1>13. packet' \in Seq(Byte) /\ Len(packet') <= MaxBytes /\ i' \in 0..Len(packet')
  BY <1>1, <1>7 DEF WireInv
<1>. QED BY <1>1, <1>11, <1>12, <1>13 DEF WireInv

(* The invariant is enough: a list that was read is one that a packet can  *)
(* hold, and if all is read, the packet is its encoding.                   *)
LEMMA WireInvImplies ==
    ASSUME WireInv
    PROVE  DecodeExact
<1>1. packet \in Seq(Byte) /\ Len(packet) \in Nat /\ Len(packet) <= MaxBytes /\ i \in 0..Len(packet)
  BY SMT DEF WireInv
<1>2. i <= Len(packet)
  BY SMT, <1>1
<1>. SUFFICES ASSUME header = "good", result # "none" PROVE DecodeExact
  BY <1>2 DEF DecodeExact
<1>. DEFINE good == {l \in TLVLists : encodeTLVs(l) = packet /\ fieldsOnce(l)}
<1>3. ASSUME NEW l \in TLVLists PROVE l \in Seq(AnyTLV)
  <2>1. PICK n \in 0..(MaxBytes \div 3) : l \in [1..n -> TLVs(n)]
    BY <1>3 DEF TLVLists
  <2>2. n \in Nat
    BY SMT, WireAssumption
  <2>3. ASSUME NEW u \in TLVs(n) PROVE u \in AnyTLV
    <3>1. \A x \in bytes(MaxBytes - 3 * n) : x \in Seq(Byte)
      <4>. SUFFICES ASSUME NEW c \in 0..(MaxBytes - 3 * n), NEW x \in [1..c -> Byte]
                    PROVE  x \in Seq(Byte)
        BY DEF bytes
      <4>1. c \in Nat
        BY SMT
      <4>. QED BY SMT, <4>1
    <3>. QED BY <3>1 DEF TLVs, AnyTLV
  <2>. DEFINE A == AnyTLV
  <2>4. l \in [1..n -> A]
    BY <2>1, <2>3
  <2>. HIDE DEF A
  <2>5. l \in Seq(A)
    BY SMT, <2>2, <2>4
  <2>. QED BY <2>5 DEF A
<1>4. \A l \in good : MayBe(l)
  BY <1>3 DEF MayBe
<1>5. result # "ok" => good = {}
  BY <1>4 DEF WireInv
<1>6. result = "ok" => good # {}
  <2>. SUFFICES ASSUME result = "ok" PROVE good # {}
    OBVIOUS
  <2>1. i = Len(packet)
    BY DEF WireInv
  <2>2. PICK l : IsRead(l)
    BY DEF WireInv
  <2>. DEFINE n == Len(l)
              A == AnyTLV
              x == encodeTLVs(l)
  <2>3. /\ l \in Seq(A) /\ fieldsOnce(l)
        /\ Len(x) = Len(packet) /\ \A k \in 1..Len(x) : x[k] = packet[k]
        /\ \A k \in 1..n : Len(l[k].val) + 3 * n <= Len(packet)
        /\ 3 * n <= Len(packet)
    BY <2>1, <2>2 DEF IsRead
  <2>4. x = packet
    <3>1. PICK f : IsEncoding(f, l)
      BY <2>3, EncodeLoop
    <3>2. Len(l) \in 0..Len(l)
      BY SMT, <2>3
    <3>3. x \in Seq(Byte)
      BY <3>1, <3>2 DEF IsEncoding
    <3>. HIDE DEF x
    <3>. QED BY <1>1, <2>3, <3>3, SameElements
  <2>5. ASSUME NEW k \in 1..n PROVE l[k] \in TLVs(n)
    <3>1. l[k] \in AnyTLV
      <4>. HIDE DEF A
      <4>1. l[k] \in A
        BY SMT, <2>3
      <4>. QED BY <4>1 DEF A
    <3>. DEFINE v == l[k].val
                c == Len(v)
    <3>2. v \in Seq(Byte) /\ c < Base * Base /\ l[k] \in [typ : Byte, val : Seq(Byte)]
      BY <3>1 DEF AnyTLV
    <3>3. c + 3 * n <= Len(packet)
      BY <2>3
    <3>4. n \in Nat
      BY SMT, <2>3
    <3>5. c \in Nat /\ v \in [1..c -> Byte]
      <4>. HIDE DEF v
      <4>. QED BY SMT, <3>2
    <3>. HIDE DEF c
    <3>6. c \in 0..(MaxBytes - 3 * n)
      BY SMT, <1>1, <3>3, <3>4, <3>5, WireAssumption
    <3>7. v \in bytes(MaxBytes - 3 * n)
      BY <3>5, <3>6 DEF bytes
    <3>8. l[k] \in [typ : Byte, val : bytes(MaxBytes - 3 * n)]
      BY <3>2, <3>7
    <3>. QED BY <3>2, <3>8 DEF TLVs, c
  <2>6. n \in 0..(MaxBytes \div 3) /\ l = [k \in 1..n |-> l[k]]
    <3>1. n \in Nat /\ l = [k \in 1..n |-> l[k]]
      <4>. HIDE DEF A
      <4>. QED BY SMT, <2>3
    <3>. HIDE DEF n
    <3>2. n <= MaxBytes \div 3
      BY SMT, <1>1, <2>3, <3>1, WireAssumption
    <3>3. n \in 0..(MaxBytes \div 3)
      BY SMT, <3>1, <3>2, WireAssumption
    <3>. QED BY <3>1, <3>3
  <2>7. l \in TLVLists
    <3>1. l \in [1..n -> TLVs(n)]
      BY <2>5, <2>6
    <3>. QED BY <2>6, <3>1 DEF TLVLists
  <2>. QED BY <2>3, <2>4, <2>7
<1>7. ASSUME result = "ok", NEW l \in good
      PROVE  /\ DOMAIN fields = {l[n].typ : n \in DOMAIN l} \cap FieldTypes
             /\ \A n \in DOMAIN l : l[n].typ \in FieldTypes => fields[l[n].typ] = l[n].val
  <2>1. Met(l, Len(l))
    BY <1>4, <1>7 DEF WireInv
  <2>2. DOMAIN l = 1..Len(l)
    <3>. DEFINE A == AnyTLV
    <3>1. l \in Seq(A)
      BY <1>3
    <3>. HIDE DEF A
    <3>. QED BY SMT, <3>1
  <2>. QED BY <2>1, <2>2 DEF Met
<1>. QED BY <1>2, <1>5, <1>6, <1>7 DEF DecodeExact

(* decodeUDPQuery accepts exactly the packets that encodeTLV makes of TLVs *)
(* with no field twice, and finds their fields.                            *)
THEOREM DecodingUndoesEncoding == WireSpec => []DecodeExact
<1>1. WireInit => WireInv
  BY WireStarts
<1>2. WireInv /\ WireNext => WireInv'
  <2>. SUFFICES ASSUME WireInv, WireNext PROVE WireInv'
    OBVIOUS
  <2>0. /\ remaining >= 3 => i # Len(packet)
        /\ i < Len(packet) => i # Len(packet)
        /\ remaining < 3 => ~(remaining >= 3)
    <3>1. Len(packet) \in Nat /\ i \in Nat
      BY SMT DEF WireInv
    <3>. QED BY SMT, <3>1 DEF remaining
  <2>1. CASE CheckHeader
    <3>1. header' # "good" /\ UNCHANGED <<packet, i>>
      BY <2>1 DEF CheckHeader, returns
    <3>. QED BY <3>1 DEF WireInv
  <2>2. CASE Finish
    <3>1. decoding /\ i = Len(packet) /\ returns("ok")
      BY <2>2 DEF Finish
    <3>. QED BY <3>1, Standing, ReturnStep
  <2>3. CASE TruncatedHeader
    <3>1. decoding /\ i # Len(packet) /\ ~(remaining >= 3) /\ returns("truncated TLV header")
      BY <2>0, <2>3 DEF TruncatedHeader
    <3>. QED BY <3>1, Standing, ReturnStep
  <2>4. CASE TruncatedValue
    <3>1. decoding /\ i # Len(packet) /\ truncated /\ returns("truncated TLV value")
      BY <2>0, <2>4 DEF TruncatedValue
    <3>. QED BY <3>1, Standing, ReturnStep
  <2>5. CASE Duplicate
    <3>1. decoding /\ i # Len(packet) /\ again /\ returns("duplicate TLV")
      BY <2>0, <2>5 DEF Duplicate
    <3>. QED BY <3>1, Standing, ReturnStep
  <2>6. CASE ReadTLV
    BY <2>6, ReadStep
  <2>. QED BY <2>1, <2>2, <2>3, <2>4, <2>5, <2>6 DEF WireNext
<1>3. WireInv /\ UNCHANGED wireVars => WireInv'
  <2>. SUFFICES ASSUME WireInv, UNCHANGED wireVars PROVE WireInv'
    OBVIOUS
  <2>1. UNCHANGED <<header, packet, i, fields, result>>
    BY DEF wireVars
  <2>2. \A l : (MayBe(l)' <=> MayBe(l)) /\ (IsRead(l)' <=> IsRead(l))
               /\ (StandsIn(l)' <=> StandsIn(l)) /\ \A n : Met(l, n)' <=> Met(l, n)
    BY <2>1, ReturningKeeps
  <2>. QED BY <2>1, <2>2 DEF WireInv
<1>4. WireInv => DecodeExact
  BY WireInvImplies
<1>. QED BY <1>1, <1>2, <1>3, <1>4, PTL DEF WireSpec
=============================================================================
