---------------------------- MODULE TorrentEngine ----------------------------
(***************************************************************************)
(* resolver/internal/torrent: concurrent Fetch and SeedFile calls on one   *)
(* BitTorrent client.  The engine's mutex guards its bookkeeping, but not  *)
(* the calls that add a torrent to the client and drop it: these are steps *)
(* of their own.  A torrent that is dropped is closed for everyone who has *)
(* a handle to it; adding the infohash again makes another one.            *)
(***************************************************************************)
EXTENDS Naturals, Sequences, FiniteSets

CONSTANTS
    Hashes,               \* infohashes
    Fetchers,             \* the goroutines in Fetch
    Seeders,              \* the goroutines in SeedFile
    maxRetainedTorrents

VARIABLES
    client,               \* the torrents of the BitTorrent client
    pinned, inUse,        \* the maps of Engine: infohashes, readers of each
    retained,             \* the FIFO of fetched retentions
    fetch,                \* goroutine -> where its Fetch is
    seed,                 \* goroutine -> where its SeedFile is
    seeded,               \* history: the infohashes SeedFile has returned
    abandoned             \* history: those a SeedFile that failed has added

engineVars == <<pinned, inUse, retained>>

seedVars == <<seed, seeded, abandoned>>

vars == <<client, engineVars, fetch, seedVars>>

ASSUME EngineAssumption ==
    /\ IsFiniteSet(Fetchers)
    /\ maxRetainedTorrents \in Nat

idle == [pc |-> "idle"]

(* A Fetch at pc; alive: its handle was not dropped; todo: torrents that   *)
(* retain found it has to drop.                                            *)
fetching(pc, ih, alive, todo) == [pc |-> pc, ih |-> ih, alive |-> alive, todo |-> todo]

-----------------------------------------------------------------------------
(* What the mutex guards.                                                  *)

(* Faulty variant: a reader does not count the ones before it.             *)
acquireOnce(ih) == inUse' = [inUse EXCEPT ![ih] = 1]

acquire(ih) == inUse' = [inUse EXCEPT ![ih] = @ + 1]

(* The readers left when one of them ends.                                 *)
readersLeft(ih) == IF inUse[ih] > 0 THEN inUse[ih] - 1 ELSE 0

(* The queue with the torrent just fetched.                                *)
queueWith(ih) == IF ih \in pinned THEN retained ELSE Append(retained, ih)

excess(queue) ==
    IF Len(queue) > maxRetainedTorrents THEN Len(queue) - maxRetainedTorrents ELSE 0

evicted(queue) == {queue[i] : i \in 1..excess(queue)}

(* Faulty variant: the test is the wrong way round.                        *)
stillRead(hashes) == {ih \in hashes : inUse[ih] # 0}

(* Evicted torrents without a reader; release drops the others.            *)
unread(hashes) == {ih \in hashes : inUse[ih] = 0}

-----------------------------------------------------------------------------
(* Fetch.                                                                  *)

AddTorrent(f, ih) ==
    /\ fetch[f] = idle
    /\ client' = client \cup {ih}
    /\ fetch' = [fetch EXCEPT ![f] = fetching("acquire", ih, TRUE, {})]
    /\ UNCHANGED <<engineVars, seedVars>>

Acquire(f) ==
    /\ fetch[f].pc = "acquire"
    /\ acquire(fetch[f].ih)
    /\ fetch' = [fetch EXCEPT ![f].pc = "read"]
    /\ UNCHANGED <<client, pinned, retained, seedVars>>

(* Metadata and payload arrive, and the hash is the expected one.          *)
Verified(f) ==
    /\ fetch[f].pc = "read" /\ fetch[f].alive
    /\ fetch' = [fetch EXCEPT ![f].pc = "retain"]
    /\ UNCHANGED <<client, engineVars, seedVars>>

(* The context ends, the torrent is too large or closed, the hash differs. *)
Failed(f) ==
    /\ fetch[f].pc = "read"
    /\ fetch' = [fetch EXCEPT ![f].pc = "release"]
    /\ UNCHANGED <<client, engineVars, seedVars>>

retain(f) ==
    LET queue == queueWith(fetch[f].ih)
        out   == evicted(queue)
    IN  /\ fetch[f].pc = "retain"
        /\ retained' = SubSeq(queue, excess(queue) + 1, Len(queue))
        /\ pinned' = (pinned \cup {fetch[f].ih}) \ out
        /\ fetch' = [fetch EXCEPT ![f].pc = "evict", ![f].todo = unread(out)]
        /\ UNCHANGED <<client, inUse, seedVars>>

(* The client drops a torrent while goroutine f goes on as given.          *)
drop(ih, f, next) ==
    /\ client' = client \ {ih}
    /\ fetch' = [g \in Fetchers |->
                   IF g = f THEN next
                   ELSE IF fetch[g] # idle /\ fetch[g].ih = ih
                     THEN [fetch[g] EXCEPT !.alive = FALSE]
                     ELSE fetch[g]]
    /\ UNCHANGED <<engineVars, seedVars>>

DropEvicted(f) ==
    /\ fetch[f].pc = "evict"
    /\ \E ih \in fetch[f].todo :
         drop(ih, f, [fetch[f] EXCEPT !.todo = @ \ {ih},
                                      !.alive = @ /\ ih # fetch[f].ih])

EvictDone(f) ==
    /\ fetch[f].pc = "evict" /\ fetch[f].todo = {}
    /\ fetch' = [fetch EXCEPT ![f].pc = "release"]
    /\ UNCHANGED <<client, engineVars, seedVars>>

release(f) ==
    LET ih   == fetch[f].ih
        left == readersLeft(ih)
    IN  /\ fetch[f].pc = "release"
        /\ inUse' = [inUse EXCEPT ![ih] = left]
        /\ fetch' = [fetch EXCEPT ![f] =
                       IF left = 0 /\ ih \notin pinned THEN [@ EXCEPT !.pc = "drop"] ELSE idle]
        /\ UNCHANGED <<client, pinned, retained, seedVars>>

DropReleased(f) == fetch[f].pc = "drop" /\ drop(fetch[f].ih, f, idle)

-----------------------------------------------------------------------------
(* SeedFile.                                                               *)

SeedTorrent(s, ih) ==
    /\ seed[s] = idle
    /\ client' = client \cup {ih}
    /\ seed' = [seed EXCEPT ![s] = [pc |-> "pin", ih |-> ih]]
    /\ UNCHANGED <<engineVars, fetch, seeded, abandoned>>

pin(s) ==
    /\ seed[s].pc = "pin"
    /\ pinned' = pinned \cup {seed[s].ih}
    /\ seeded' = seeded \cup {seed[s].ih}
    /\ seed' = [seed EXCEPT ![s] = idle]
    /\ UNCHANGED <<client, inUse, retained, fetch, abandoned>>

(* The context ends before the metadata is there; the torrent stays.       *)
SeedFails(s) ==
    /\ seed[s].pc = "pin"
    /\ abandoned' = abandoned \cup {seed[s].ih}
    /\ seed' = [seed EXCEPT ![s] = idle]
    /\ UNCHANGED <<client, engineVars, fetch, seeded>>

Init ==
    /\ client = {}
    /\ pinned = {}
    /\ inUse = [ih \in Hashes |-> 0]
    /\ retained = << >>
    /\ fetch = [f \in Fetchers |-> idle]
    /\ seed = [s \in Seeders |-> idle]
    /\ seeded = {}
    /\ abandoned = {}

FetchNext(f) ==
    \/ \E ih \in Hashes : AddTorrent(f, ih)
    \/ Acquire(f) \/ Verified(f) \/ Failed(f)
    \/ retain(f) \/ DropEvicted(f) \/ EvictDone(f)
    \/ release(f) \/ DropReleased(f)

SeedNext(s) == (\E ih \in Hashes : SeedTorrent(s, ih)) \/ pin(s) \/ SeedFails(s)

Next == (\E f \in Fetchers : FetchNext(f)) \/ (\E s \in Seeders : SeedNext(s))

Spec == Init /\ [][Next]_vars

-----------------------------------------------------------------------------
(* Properties.                                                             *)

Readers(ih) ==
    {f \in Fetchers : /\ fetch[f].pc \in {"read", "retain", "evict", "release"}
                      /\ fetch[f].ih = ih}

(* On every path through Fetch, failures included, a torrent's reference   *)
(* count is the number of the goroutines between acquire and release.      *)
RefCountsExact == \A ih \in Hashes : inUse[ih] = Cardinality(Readers(ih))

(* A torrent of the client that is not pinned has somebody who will drop   *)
(* or pin it, however fetches, evictions and failures overlap: the client  *)
(* does not fill up with torrents nobody wants.  The exception is one that *)
(* a SeedFile that timed out has added.                                    *)
NoTorrentLeaks ==
    \A ih \in client \ (pinned \cup abandoned) :
        \/ \E f \in Fetchers : fetch[f] # idle /\ (fetch[f].ih = ih \/ ih \in fetch[f].todo)
        \/ \E s \in Seeders : seed[s] # idle /\ seed[s].ih = ih

(* The comment in Fetch on acquire: a concurrent fetch of the same         *)
(* infohash, or an eviction, never drops a torrent under its reader.       *)
NeverDroppedUnderReader == \A f \in Fetchers : fetch[f].pc = "read" => fetch[f].alive

(* The comments on pin: a seeded file is kept, and not subject to the      *)
(* eviction of fetched torrents.                                           *)
SeededStayPinned == seeded \subseteq pinned
=============================================================================
