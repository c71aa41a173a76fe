------------------------------ MODULE TTLCache ------------------------------
(***************************************************************************)
(* resolver/internal/cache: the bounded LRU with per-entry expiry and the  *)
(* two name indexes that push invalidation uses.  One mutex guards it all, *)
(* so each method is one step; the LRU (hashicorp/golang-lru) calls        *)
(* dropFromIndex for every key that leaves it.  keccak256 is injective: a  *)
(* name stands for its hash.  Hit, miss and eviction counters are left out.*)
(***************************************************************************)
EXTENDS Naturals, Sequences

CONSTANTS
    CacheNames,  \* domain names
    CacheKeys,   \* cache.Key: a name with a record type and a selector
    KeyName,     \* key -> its name
    Values,      \* cached answers
    TTLs,        \* the lifetimes of answers
    capacity,
    MaxClock     \* bound of the model

VARIABLES
    clock,       \* the resolver's time
    entries,     \* the LRU's map: cached key -> value and expiry
    lru,         \* the LRU's list: cached keys, least recently used first
    nameKeys,    \* name -> its cached keys; no entry for a name without any
    hashNames    \* the names whose hash is known

cacheVars == <<entries, lru, nameKeys, hashNames>>

ASSUME CacheAssumption ==
    /\ KeyName \in [CacheKeys -> CacheNames]
    /\ TTLs \subseteq Nat
    /\ capacity \in Nat \ {0}
    /\ MaxClock \in Nat

cached == DOMAIN entries

without(list, keys) == LET stays(k) == k \notin keys IN SelectSeq(list, stays)

(* Faulty variant: the first key to leave takes the whole name along.      *)
namesOf(index, keys) == DOMAIN index \cap {KeyName[k] : k \in keys}

(* The names that lose their last key when these keys leave.               *)
emptied(index, keys) ==
    {n \in DOMAIN index \cap {KeyName[k] : k \in keys} : index[n] \subseteq keys}

(* dropFromIndex, for each of the keys that leave.                         *)
dropFromIndex(index, keys) ==
    [n \in DOMAIN index \ emptied(index, keys) |-> index[n] \ keys]

(* The LRU gives up these keys, and its callback cleans the indexes.       *)
remove(keys) ==
    /\ entries' = [k \in cached \ keys |-> entries[k]]
    /\ lru' = without(lru, keys)
    /\ nameKeys' = dropFromIndex(nameKeys, keys)
    /\ hashNames' = hashNames \ emptied(nameKeys, keys)

expired(k) == clock > entries[k].expiresAt

hit(k) == k \in cached /\ ~expired(k)

Get(k) ==
    \/ /\ k \notin cached
       /\ UNCHANGED cacheVars
    \/ /\ k \in cached /\ expired(k)
       /\ remove({k})
    \/ /\ hit(k)
       /\ lru' = Append(without(lru, {k}), k)
       /\ UNCHANGED <<entries, nameKeys, hashNames>>

(* The index with key k registered under its name.                         *)
withKey(index, k) ==
    [n \in DOMAIN index \cup {KeyName[k]} |->
        IF n # KeyName[k] THEN index[n]
        ELSE IF n \in DOMAIN index THEN index[n] \cup {k} ELSE {k}]

(* What lru.Add throws out: the least recently used key of too many.       *)
oldest(order) == IF Len(order) > capacity THEN {Head(order)} ELSE {}

expiryAfter(ttl) == clock + ttl

(* First the index, then lru.Add, whose eviction calls dropFromIndex.      *)
Set(k, v, ttl) ==
    LET index == withKey(nameKeys, k)
        order == Append(without(lru, {k}), k)
        out   == oldest(order)
        new   == [value |-> v, expiresAt |-> expiryAfter(ttl)]
    IN  /\ entries' = [j \in (cached \cup {k}) \ out |-> IF j = k THEN new ELSE entries[j]]
        /\ lru' = without(order, out)
        /\ nameKeys' = dropFromIndex(index, out)
        /\ hashNames' = (hashNames \cup {KeyName[k]}) \ emptied(index, out)

InvalidateName(n) ==
    remove(IF n \in DOMAIN nameKeys THEN nameKeys[n] ELSE {})

InvalidateNameHash(n) ==
    IF n \in hashNames THEN InvalidateName(n) ELSE UNCHANGED cacheVars

(* Faulty variant: the name field of a Transferred event, which is empty.  *)
HandleEventByName(kind, n) ==
    IF kind = "Transferred" THEN UNCHANGED cacheVars ELSE InvalidateName(n)

(* Transferred carries the hash of the name only.                          *)
HandleEvent(kind, n) ==
    IF kind = "Transferred" THEN InvalidateNameHash(n) ELSE InvalidateName(n)

Flush ==
    /\ entries' = << >>
    /\ lru' = << >>
    /\ nameKeys' = << >>
    /\ hashNames' = {}

EventKinds == {"RecordSet", "RecordRemoved", "Transferred", "Registered"}

CacheInit ==
    /\ entries = << >>
    /\ lru = << >>
    /\ nameKeys = << >>
    /\ hashNames = {}

CacheStart == clock = 0 /\ CacheInit

CacheTick ==
    /\ clock < MaxClock
    /\ clock' = clock + 1
    /\ UNCHANGED cacheVars

CacheNext ==
    \/ CacheTick
    \/ \E k \in CacheKeys : Get(k) /\ UNCHANGED clock
    \/ \E k \in CacheKeys, v \in Values, ttl \in TTLs : Set(k, v, ttl) /\ UNCHANGED clock
    \/ \E kind \in EventKinds, n \in CacheNames : HandleEvent(kind, n) /\ UNCHANGED clock
    \/ Flush /\ UNCHANGED clock

CacheSpec == CacheStart /\ [][CacheNext]_<<clock, cacheVars>>

-----------------------------------------------------------------------------
(* Properties.                                                             *)

(* The maps hold values of their types.                                    *)
CacheTypeOK ==
    /\ clock \in Nat
    /\ cached \subseteq CacheKeys
    /\ \A k \in cached : entries[k] \in [value : Values, expiresAt : Nat]
    /\ DOMAIN nameKeys \subseteq CacheNames
    /\ \A n \in DOMAIN nameKeys : nameKeys[n] \subseteq CacheKeys
    /\ hashNames \subseteq CacheNames

(* Whatever the LRU evicts, expires or is told to drop, the two indexes    *)
(* agree with it: a name is indexed, under its hash too, exactly while one *)
(* of its keys is cached, and with exactly those keys.                     *)
IndexExact ==
    /\ DOMAIN nameKeys = {KeyName[k] : k \in cached}
    /\ hashNames = DOMAIN nameKeys
    /\ \A n \in DOMAIN nameKeys : nameKeys[n] = {k \in cached : KeyName[k] = n}
=============================================================================
