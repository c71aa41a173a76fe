# Formal model of decentralized-dns

TLA+ modules for the parts of decentralized-dns in which the order of steps
matters: the contracts that hold names, records, payments and the directory of
resolvers; the resolver with its cache, event watcher, front ends and
BitTorrent engine, its boot and its files; and the command lines that publish
records, look them up, fetch files and pay. TLC checks them on small instances;
TLAPS proves their safety properties for all values of the constants.
`PROJECT.json` maps every definition to the lines it models.

## The system

| Part | Source | Model |
|---|---|---|
| Namespace contract: registration, records, fees | `contracts/contracts/NamespaceDApp.sol` | `NamespaceDApp`, abstractly `Namespace` |
| Record schema registry | `contracts/contracts/RecordSchemaRegistry.sol` | `RecordSchemaRegistry` |
| Resolver incentives: payment channels | `contracts/contracts/ResolverIncentives.sol`, `internal/pay` | `ResolverIncentives` |
| Resolver cache | `resolver/internal/cache` | `TTLCache` |
| Chain client, event watcher, query path | `resolver/internal/chain`, `internal/server/handle.go`, `server.go` | `Resolver` |
| BitTorrent engine | `resolver/internal/torrent` | `TorrentEngine` |
| Resolver registry contract: the directory | `contracts/contracts/ResolverRegistry.sol` | `ResolverRegistry` |
| Rate limiter of both front ends | `internal/server/ratelimit.go` | `IPLimiter` |
| UDP front end | `internal/server/udp.go` | `UDPFrontEnd`, its packets `UDPWire` |
| Resource and web gateways | `internal/server/resource.go`, `web.go`, `internal/contenttype` | `ResourceGateway`, `ContentType` |
| Domain page | `internal/server/rest.go` | `DomainPage` |
| The resolver as a process: boot, identity, uploads | `cmd/resolver`, `internal/server/server.go`, `showcase.go`, `internal/pki/identity.go` | `ResolverNode` |
| Settings and addresses | `internal/config`, `cmd/ddns`, `cmd/ddns-lookup` | `Configuration` |
| Iterators over events | `internal/chain/bindings` | `EventIterator` |
| Selectors | `internal/query`, `internal/server/rest.go` | `QuerySelector` |
| Owner's command line | `cmd/ddns/main.go` | `OwnerCLI` |
| Lookup command | `cmd/ddns-lookup` | `Lookup` |
| Owner signatures, commitments | `internal/pki/owner.go`, `handle.go` | `RecordSignatures` |
| Payment commands | `cmd/ddns/channels.go` | `PaymentCLI` |
| Fetch command, manifest of a download | `cmd/ddns-fetch`, `internal/pki/resource.go` | `FetchClient` |
| Commitments and proofs | `internal/zk`, `cmd/record-commit` | `RecordCommitment` |

The namespace contract asks the schema registry whether a record's type exists
and which fields it must have. A resolver answers a query from its cache or by
a call to the namespace contract, and then fills the cache; at the same time a
watcher polls the contract's event log and drops the cached records of every
name an event is about. A `ResourceRef` record leads to a torrent, which the
engine fetches, verifies and goes on seeding. Requests come by HTTP or UDP, and
both front ends share the rate limiter. Clients pay an operator through a
channel of the incentives contract. An owner's command signs a record, under
the generation it reads from the chain, and sends it in a transaction; a
lookup finds a resolver in the directory and checks its answer against the
owner's signature and the chain; a fetch checks the file and the headers it
came with against the resolver's signature. The resolver keeps its identity
and the files uploaded to it on the disk, and all else in memory.

## Modules

**`RecordSchemaRegistry`** `_schemas` and `_typeNames` are `schemas` and
`typeNames`; `declareType` is `declareType` with `_declare`, `Init` is what the
constructor declares. Valid type and field names are constant sets.

**`NamespaceDApp`** has one action for each external function that changes
state. `domains`, `records`, `recordKeys`, `recordKeyIndex`, `commitments` are
the contract's storage under the same names; slots of `records` are shared by
the generations of a name and key lists are not, as in the code. The views
`available`, `ownerOf`, `lookup`, `resolve` and `listRecords` are operators, and
so is what a call requires (`mayRegister` and its like): a transaction reverts
in exactly the states where its call is refused.
History variables: `author` (who wrote a slot), `collected` and `withdrawn`
(sums over events).

**`Namespace`** is what users of the contract rely on: a name has one holder
until the time they paid for is over, and shows exactly what was published
since it last changed hands. `NamespaceDApp` implements it; `Resolver` uses it
as its chain.

**`ResolverIncentives`** `channels` and `_nonce`, plus the set of vouchers
signed off chain. History: the channel as it was opened, and the wei paid and
refunded on it.

**`TTLCache`** The LRU is its map (`entries`) and its list (`lru`); `nameKeys`
and `hashNames` are the indexes. Each method holds the mutex throughout and is
one step. `lru.Add`, which is not in this repository, evicts the least recently
used key and runs the callback.

**`Resolver`** composes `Namespace`, an instance of `TTLCache`, query workers
and the watcher. `HandleQuery` is three steps (`Lookup`, `Resolve`, `Fill`),
because the cache's mutex is released in between. `WatchRecordEvents` is
`Boot`, `Poll`, `Filter`, `Deliver`, `RangeDone` and the failures `BootFails`
and `CollectFails`; a failing poll changes nothing.

**`TorrentEngine`** Goroutines in `Fetch` and `SeedFile`. What the mutex guards
is one step; adding a torrent to the client and dropping it are steps of their
own, because they happen outside it. `alive` says whether a goroutine's handle
is to a torrent that has since been dropped.

**`ResolverRegistry`** `_resolvers` and `_operators`, one action for each of the
two functions that change them; `activeResolvers` is the view. History: what
each operator announced.

**`Loops`** `Subsequence` is the loop by which `activeResolvers` and
`listRecords` copy what passes a test.

**`IPLimiter`** `buckets` is the map `entries`; `allow` holds the mutex and is
one step, pruning included. A tick is the time of one token. History: the
buckets of a limiter that never prunes (`ideal`). The burst may be above what
accrues in a minute, as in the configuration; `overhang` is by how much.

**`UDPFrontEnd`** The read loop (`RateLimited`, `Shed`, `Spawn`, `ReadFails`), the
handler goroutines (`Handle`, `Release`), and the two ways a server stops:
`Cancel` and then `Close`, or `Close` alone when the HTTP server fails.

**`UDPWire`** `decodeUDPQuery` step by step, on every packet up to a length, and
the encoder it is compared with.

**`ResourceGateway`** Requests of `/resource` and `/web`. A request is its loop
over selectors (`TrySelector`) and, in `fetchVerifiedResource`, the query, the
wait for a slot and the fetch, each a step; `view` is what `HandleQuery` would
answer and may change at any time. Error codes the loop does not tell apart
are one, and a record is sound if all checks of it pass. `given` tells a `/web`
request with a selector from one without: a selector of blanks is given, is
parsed to the empty one, and is tried alone. `Respond` is the write of the
response, which the client may never read.

**`ContentType`** `Validate` and `isText` as operators; how a media type is cut
out of text is the constant `baseType`.

**`FetchClient`** One download by `ddns-fetch` after another. The resolver's
signature is over `ResourceManifest`, which is built letter by letter; on the
way any of the headers, the verdict, the body and the resolver's name change,
and the signature becomes that of any answer a resolver gives.

**`DomainPage`** `handleDomain` as two reads of the chain (`GetDomain`,
`ListRecords`) with anything in between. The chain is `Namespace`, with the
counter of generations that the page shows; the resolver's clock may be ahead
or behind.

**`ResolverNode`** The process: `Start`, `LoadIdentity` or `CreateIdentity` and
`PersistIdentity`, `StartEngine`, `autoSeedUploads` file by file, `Run`,
`Shutdown`, and `Ends`, which is an error of the boot, a crash anywhere, or the
end of a shutdown. `keystore` and `uploads` survive it. An upload is written
and seeded in two steps (`WriteUpload`, `SeedUpload`), and
`fetchResolverPubKey` and `cmdAnnounceResolver` are the command that announces
the identity it has read. What an upload does to the cache is in `Resolver`
(`ClearCache`).

**`Configuration`** `loadDotEnv` takes the `.env` file line by line, `FromEnv`
makes the configuration of what is then in the environment; `resolveAddrs` and
its like are what the commands find. A value is one, not text to be parsed.

**`EventIterator`** The goroutine that sends logs (`SendLog`, `EndSubscription`)
and `Next` by its cases (`TakeLog`, `LearnOfEnd`, `NoMore`). All generated
iterators are the same code; `RecordSet`'s is mapped.

**`RecordCommitment`** Packing, commitment, proof, wire form and verification as
operators over two messages that grow byte by byte.

**`QuerySelector`** `ParsePairs`, `CanonicalSelector` and `parseResolveQuery` as
operators; what Go's string functions do to a token is given by constants. A map
of pairs is a function, and `range` over it any order of its keys (`orders`).
The only variable is the selector being written.

**`RecordSignatures`** What is signed, verified, committed to and proved, as
operators. A signature is who made it and over what.

**`OwnerCLI`** composes `NamespaceDApp` with the processes of the command line.
A command reads the chain, signs, submits and waits for the receipt in steps
of its own; `pool` holds each account's transactions in the order of their
nonces, and a transaction is mined (`Succeeds`, `Reverts`) whenever the chain
likes. `Ends` is the end of a process anywhere: done, failed or interrupted.
Processes in `Hasty` are other clients, which reveal without waiting.
`publish-resource` takes the steps of `set`; its seeding is in `TorrentEngine`.

**`PaymentCLI`** does the same for `ResolverIncentives` and the commands of
`channels.go`. `reports` is what the commands have printed as done.

**`Lookup`** composes `ResolverRegistry` with one run of `ddns-lookup`, while
operators announce and revoke, resolvers move (`Serve`) and the record changes
(`ChainChanges`). A resolver's answer is any of the possible ones.

The `MC*` modules give the constants their values. `MCResolverParts` holds ten
modules that share no state (`TTLCache`, `IPLimiter`, `QuerySelector`,
`UDPFrontEnd`, `UDPWire`, `EventIterator`, `DomainPage`, `ResolverNode`,
`Configuration`, `RecordCommitment`) and lets one of them, chosen at the start,
take steps. `MCResourceGateway` does so for `ResourceGateway` and
`FetchClient`, `MCPayments` lets the contract be called directly or through
the commands, and `MCLookup` lets the record change or the operator move.

### Abstractions

- keccak256 has no collisions, and signatures are not forged.
- A reverted call is no step. A call is atomic: the contracts call out only
  after all their state changes, so what the callee does in that call it could
  do in a transaction that follows.
- Record payloads, selectors, public keys and bodies are values of small sets;
  the checks on lengths and characters are attributes of them. `oversize`
  stands for all four length limits of `setRecord`.
- `expiry` and `generation` of a domain are unbounded: 64 bits are not reached
  by adding years or ones. The expiry of a channel keeps its width
  (`MAX_UINT64`), since the caller chooses what is added.
- In `Resolver` each transaction is a block, blocks are final, and the chain's
  and the resolver's clock are one. A restarted resolver is `Init` with a chain
  that already has blocks before `Boot`: the cache is in memory only.
- In `OwnerCLI` the commands' clock and the chain's are one. The fifteen seconds
  that `register` waits beyond the minimal age are there for clocks that differ;
  with one clock none are needed, and the run has `slack = 0`, the hardest case.
  `WaitingIsEnough` is for any slack.
- The numbers of the configuration are any positive ones; that `Atoi` refuses
  what does not fit 64 bits is left out.
- A record of a name that lapses stays in the cache for its TTL; the contract
  emits no event for it, and the properties do not say otherwise.
- In `RecordSignatures` the body of a record is one value. `diffAgainstChain`
  compares everything in it, and so does the model.
- In `OwnerCLI` a secret is drawn once. Fees paid by the commands are the price.
- `UDPWire` has bytes in base 3: a length still has two of them, and a packet of
  seven holds two fields.
- In `ResolverNode` a file that was written is on the disk: a crash ends the
  process, not the machine. An identity is drawn once.
- In `RecordCommitment` MiMC has no collisions, and a proof convinces for the
  commitment it was made for only. Bytes are bits, chunks have two of them, and
  there are two chunks; as in the code, every chunk is below the field's order.
- In `FetchClient` a digest and a length are one letter each, so that they can
  be taken for letters of a header, as bytes can.
- In `PaymentCLI` an ether has four wei, and the voucher that an operator
  redeems is any that the client has signed.
- Retries with back-off are one call that succeeds or fails. Statistics,
  logging, formats and wording are left out.

## Runs

| Run | Instance | Shows |
|---|---|---|
| `records` | one name, two accounts, three keys (one with two bodies), two generations, time to 4 | the list and `lookup` agree, live slots are the listed ones, only the owner's records resolve, refinement of `Namespace` |
| `registration` | one name of four letters, two accounts, payments below and above the price, one extra type, time to 5 | schemas, and that names pass only to commitments of the right age |
| `invalidation` | one name with two keys, one worker, cache of two, ranges of two blocks, three blocks, time to 3, filters that fail | no event lost, each delivered in the end; delivered events evict; the four event types suffice |
| `torrents` | three infohashes, two fetches, one seeder, one retained | reference counts, no torrent forgotten |
| `parts`: cache | three keys of two names, capacity two, lifetimes 1 and 2, time to 4 | the indexes are those of what the LRU holds |
| `parts`: limiter | three addresses, a map for two, burst 4, a minute of 2 ticks | pruning takes nothing from anybody, and gives no more than the burst is above a minute's tokens |
| `parts`: selectors | all selectors of up to two fragments of seven keys and thirteen values | order and spelling make no difference; canonical forms are stable; parameters merge |
| `parts`: udp | three datagrams, two handlers, envelopes that fit, are too large, and would be left out | each datagram answered once; no empty OK; the loop ends at shutdown |
| `parts`: wire | every packet of up to seven digits of base 3, and every bad header | decoding is exact and stays in bounds |
| `parts`: iterator | every sequence of up to three logs, one of them bad, a channel for two | an iteration without error is complete |
| `parts`: page | one name, two accounts, two keys, three generations, clocks one second apart | a record is shown under its author's ownership, or visibly under a later one |
| `parts`: node | two uploads, two publishers, two identities to draw, any number of crashes | the identity stays; answered uploads are seeded again |
| `parts`: config | 52 environments, `.env` files of up to two lines, any subset of four artifacts | the resolver and the commands are about the same contracts |
| `parts`: commitment | every two messages of up to five bits, of which four fit | a proof passes for its message only |
| `lookup` | two identities, two endpoints of 256 bytes and one of 257; two operators at one endpoint and records right, outdated and wrongly signed, or one operator that moves | each operator enumerated once; what is accepted was on the chain and from an announced identity; right answers pass |
| `owner` | two processes of two accounts, one hasty, three commands, ages 2 and 3, time to 6 | reveals are aged and not overtaken; a record verifies only if signed under the present ownership |
| `gateway`: server | two requests for one slot, two selectors, strict types, records good, of another type than declared, and not sound | slots balance; only signed and anchored files are served; no fallback past a broken record; every request comes to its response |
| `gateway`: client | two resolvers, two files, headers of up to two letters, each replaced by any other | a file that is kept was served, with these headers |
| `payments` | two accounts, two channels, two vouchers, a lifetime that overflows; direct calls, or four commands of two processes | payment as signed, the settlement window, and that reports are true |

The bounds are chosen for the cases that make the code hard. Three keys let
`removeRecord` move a key that is removed next; two generations let a slot be
left over, overwritten and listed again. The two keys of one name and the
capacity of two give evictions of a key of the name that is being filled. Three
blocks with ranges of two give a catch-up of two ranges, a failure in either
and events that arrive during it. Two fetches and one retained torrent give
every overlap of add, acquire, release, evict and drop of two torrents. The
bounds themselves are the constants `Max...`.

A hasty client and an age of 2 let a rival commit between a reveal's sending
and its mining; time to 6 lets a commitment grow too old, a name lapse and be
taken again. Two requests and one slot give a wait that ends by the slot or by
the deadline; a good record and two that are refused, under either selector,
give every fallback and its refusal. A map for two addresses and three of them
give pruning with and without an idle entry, and with a burst of twice a
minute's tokens an address does gain by being pruned, by two at most.

A clock that is a second behind lets the page ask for the records of a name that has just lapsed.
Two identities show a second one being drawn, if it ever were. Five bits give a
message that does not fit, and two chunks one that differs from another by a
zero at a chunk's end only. Headers of two letters can pass one on to the next.
Three eighths of an ether are one and a half wei, one eighth is below one; a
lifetime of zero makes `channel-open` revert, and a voucher of three is above a
deposit of two.

The operators of `lookup` revoke and announce again, and the endpoint that is
one byte too long is refused. That an operator moves while the lookup is under
way, and that the record changes, are explored one at a time; the theorems about
the lookup do not have this bound. Its clock stands still: of `updatedAt` the code
reads only whether it is zero. `DirectoryEnumerates` is proved with a clock.

Symmetry is used in the runs of `TorrentEngine` (infohashes and goroutines) and
in `lookup` (operators and identities), which check invariants only.

### Runs that end in a violation

Each states a line of the repository that the code does not keep.

- `stale_entries`: `README.md:86` says chain events evict stale entries. A
  query reads the record, the record changes, the watcher delivers the event,
  and only then does the query fill the cache: the old record is served for its
  TTL.
- `reader_dropped`: `torrent.go:266` says a torrent is never dropped under a
  reader. `Fetch` has the torrent before it counts itself, and `release` drops
  after it has given up the lock.
- `seeded_evicted`: `torrent.go:241` says a seeded file is never dropped. One
  that had been fetched before is still in the retention queue and is evicted
  from it.

### Differences that are not runs

- `NamespaceDApp.sol:33` says a stale commitment "does not linger in storage
  indefinitely". `register` refuses it, but nothing deletes it.
- `ratelimit.go:10` says `maxTrackedIPs` bounds the map. With more addresses
  active within a minute, nothing is pruned and the map grows.
  `OverflowOnlyWhileActive`, which is proved, says what does hold.
- `ddns-lookup` prints "record carries no commitment" (`main.go:161`) for every
  answer without a proof; `proveRecord` also makes none when the commitment is
  to something else.
- `web.go:23` says the verification has happened when the file is written. If
  the name or all selectors are rejected by `query`, `handleWeb` passes its
  error check with neither a file nor an error, and dereferences a nil pointer.
- `docs/incentives.md:25` lets the client close a channel after its expiry,
  where the code adds the settlement window.
- `zk.go:38` says that records too large to commit to "simply carry no
  commitment". `record-commit` does so; `ddns set` and the showcase refuse them.
- `ddns-fetch` compares the digest with the header as text in lower case, while
  `Fetch` in the resolver decodes it: a record with its digest in upper case is
  served and then refused.
- The resolver looks for addresses in the environment, then `.env`, then the
  artifact of its network; the commands in the artifact, by default always the
  local one, and then in the environment. `SameDeployment` says when they agree.
- `ResolverIncentives.sol:82` calls a replayed voucher a no-op, where the code
  reverts.

## Fairness

`LiveSpec` of `Resolver` assumes that the watcher's goroutine runs (weak fairness of its steps together: the ticker fires
and nothing else can disable it) and that from some time on filters do not
fail; the code retries for ever but cannot make a provider answer. A watcher
that could not read the head at its start is not restarted, and `EventsArrive`
is about one that started. `FairSpec` of `ResourceGateway` assumes that deadlines pass and that a
call returns once its context is done, no sooner. It assumes nothing of the
response: the HTTP server has no write timeout (`server.go:131`), and a client
that does not read keeps its handler for as long as it likes. So
`RequestsDecided` ends where the handler has its result and writes it;
by `SlotsExact` it has no fetch slot any more, and holds up no other request.
`UDPFairness` of `UDPFrontEnd`
assumes that a datagram in the socket's queue has its turn (it is first in,
first out), that handlers end (their queries have a timeout), that a closed
socket fails reads, and that a cancelled server closes its socket (shutdown
has five seconds).

## Proofs

All of them hold for any sets of names, accounts, keys, processes, requests
and infohashes, any prices and any bounds, from the assumptions named in the
modules (`SchemaAssumption`, `NamespaceAssumption`, `OwnerCLIAssumption`,
`CacheAssumption`, `ResolverAssumption`, `EngineAssumption`,
`IteratorAssumption`, `NodeAssumption`, `DomainPageAssumption`,
`IncentivesAssumption`, `PaymentAssumption`, `LimiterAssumption`,
`UDPAssumption`, `WireAssumption`, `GatewayAssumption`,
`ContentTypeAssumption`, `FetchAssumption`, `RegistryAssumption`,
`ConfAssumption`, `SelectorAssumption`, `CommitmentAssumption`). Three of them
are more than types. `FetchAssumption` includes that
different files have different digests. `SelectorAssumption` is what Go's
`ToLower`, `TrimSpace`, `Atoi` and `Itoa` do to keys and values: what is in
normal form stays as it is, lowering and trimming commute, and a port that is
written is read as that port. `CommitmentAssumption` is that a full chunk and
the length of a message are below the order of the field (31 bytes, BN254).

Leaves of proofs are tried with Zenon (`USE ZenonT(20)`); those that need
arithmetic or sequences cite SMT, with few facts each.

**`NamespaceDAppProofs`**, the namespace contract
- `TypeCorrect`, `FeesAreConserved`: type correctness and fees by induction; the
  balance is what was charged less what was withdrawn.
- `StoreInvariant` is the inductive invariant of the record store. That index
  and list are inverse (`KeyListExact`) and that live slots are the listed ones
  (`LiveIffListed`) are not inductive: a change of hands moves to the next
  generation, so the invariant adds that generations ahead of the current one
  are empty (`NothingAhead`), and that current slots were written by the owner
  (`WrittenByOwner`). `KeyListsAreExact`, `ListedAreLive` and
  `OwnersRecordsResolve` follow. The lemmas `AppendInverse` and
  `SwapPopInverse` are the arguments about `push` and about the swap with the
  last key.
- `ListsWhatResolves`: a list without repetitions has as many elements as the
  set of its elements, so `listRecords` counts what `lookup` finds; which
  elements its loop keeps is from `LoopTheorems`.
- `RecordsMeetSchema` needs that schemas do not change (`SchemasImmutable`).
- `TakenOnlyByCommitment` is the action property on registrations.
- `ContractImplementsNamespace` is the refinement: each call is a step of
  `Namespace` or leaves it alone.

**`OwnerCLIProofs`**, the commands of owners over that contract. `OwnerInv` has
two halves; `RaceInv` rests on both.
- `WaitingIsEnough` rests on `RevealInv`. That a pending register is mature
  (`Matured`) is kept only if nobody else can use up or renew its commitment,
  which is a fact about secrets: no two registrations under way, and no two
  transactions of the pool, have the same one, and while a process waits for
  its commitment to age no transaction of the pool has its secret
  (`SecretInv`). `Aging` says how old the commitment of a process is at every
  stage of its wait.
- `OldSignaturesDie` rests on `FreshInv`: every signature, in a process, in the
  pool or stored, is over an earlier generation than the present one, or was
  begun since the name last changed hands. The invariant follows a signature
  through a process that is stopped, and through transactions mined in any
  order between accounts.
- `FrontRunningFails` rests on `RaceInv`. A commitment can do harm as long as it
  is `held`: its secret is with a process that registers, or in a register of
  the pool. Of a register that was alone when it was sent, and for the minimal
  age after, the name stays free and every commitment to it that others hold is
  no older than the sending (`undisturbed`), so none of them is old enough to be
  revealed. That a secret is never on the chain before it is drawn
  (`secret <= drawn`) keeps old commitments, of registrations that were stopped,
  from being held again. Since `mayRegister` is a predicate, that the register
  does not revert is a fact about the state and not about `ENABLED`.

**`ResolverPartsProofs`**, the parts of the resolver that share no state
- `IndexesAreExact`: `IndexExact` with the types is inductive; `DropExact` and
  `AddExact` treat a key leaving and joining.
- `ReferencesAreCounted`, `NothingLeaks`: the two invariants of the torrent
  engine are inductive together with the types and with `TodoWhileEvicting`,
  that a fetch has torrents left to evict only while it evicts. `DropStep` and
  `ReleaseStep` are the steps in which somebody else's torrent could go.
- `IterationIsComplete`: what was delivered, what is in the channel and what is
  unsent make up what was found, in this order (`InThreePlaces`), and `Next`
  learns of the end after all is sent (`EndIsKnownLast`).
- `IdentityIsKept`: past the keystore the identity is the one on the disk, and
  nobody has seen another (`IdentityOnDisk`); in particular none is seen before
  it is whole. `UploadsDoReturn`: files answered for are whole on the disk, and
  from the start of the engine on each is still to do, skipped or seeded
  (`UploadsOnDisk`).
- `PagesAreAttributed`: records that are there are by the holder of their name
  (`AuthorHolds`), and between the two reads the head is still the chain's or
  the name has gone on to a later generation (`headKept`).

**`ResolverProofs`**, cache, watcher and query path together
- `NoEventIsLost`: `WatchInv` adds to `NoEventLost` what the current range has
  been through: the events of the filters that are done, and of the present one
  unless they are still to do, were delivered.
- `EveryChangeIsAnnounced`: `AnswerInv` carries an answer from the chain read
  over the fill into the cache (`Filling`, `Cached`); `ChangeIsAnnounced` is
  the argument that each transaction that changes an answer emits one of the
  four events.
- `EventsInvalidate`: an action property from the half of `IndexExact` that
  says every entry is found under its name (`Indexed`); `EventInvalidates` is
  the handler.
- `DecodingUndoesEncoding`, of the packets of the UDP front end: in `WireInv`,
  what the decoder has read is the encoding of the TLVs it has met (`IsRead`),
  and in any list that the whole packet is the encoding of it stands between two
  TLVs (`StandsIn`). The first says that what is accepted was encoded, the
  second that what was encoded is accepted (`Standing`: neither "truncated" nor
  "again" can come up). `TwoBytes` and `TwoBytesRead` are the lengths,
  `EncodedPrefix` the loop of the encoder.

**`PaymentProofs`**, the incentives contract and its commands
- `DepositsAreSplit`, `ResolversArePaidAsSigned`, `EarningsStayClaimable`:
  `ChannelInv` says of each id that it is blank, or open and as it was promised
  but for its claims, or closed, settled and past its window, and that its
  claims are covered by one voucher. The promise is in unbounded numbers: that
  the expiry stored is the one promised is from the checked addition.
- `ReportsAreTrue`: a report is true when it is printed and stays so (`Kept`:
  what no function of the contract undoes). Between its receipt and its report
  a command may be overtaken by any others, so `PayInv` speaks of the receipts
  as of the reports (`evidence`); `Numbered` ties a receipt to its command.
- `ProofsBind`, of the commitments to records: packing loses nothing
  (`PackInjective`), because the length goes first and numbers of as many digits
  are equal only if all digits are; nothing is reduced in the field
  (`CommitmentOf`); and calldata is read as it was written (`CalldataRead`).

**`FrontEndProofs`**, what answers requests, and ddns-fetch
- `ForgettingIsSafe`, for any rate and burst: an address without an entry was
  idle for a minute, so that its ideal bucket lacks at most the overhang
  (`IdleIsNearlyFull`); that a bucket has no less than the ideal one and at most
  the overhang more (`near`) is kept by time and by requests. The invariant adds
  that ideal buckets were not used after their entry was last seen (`Ordered`).
  With the defaults (40, and 20 per second) the overhang is zero, and pruning is
  not seen at all. `MapHoldsTheActive` is the action property
  on additions to a full map.
- `OneAnswerEach`: `AnsweredOnce` with the types is inductive.
- `SlotsAreGivenBack`: one request enters or leaves `fetch` at a time, and the
  count follows by the cardinality of its set. `OnlyAnchoredIsServed`:
  `todoSound` and `resultSound` say, at every stage of a request, what is still
  to be tried and what was found; `HistoryKept` ties the selector tried first
  to what the chain showed during the request.
- `KeptFilesAreServed`: the manifest determines its parts (`ManifestDecodes`).
  `PrefixDecodes` is the argument for one string, that its length comes first;
  it is applied from the left, part by part.

**`LookupProofs`**, the directory and the lookup
- `DirectoryEnumerates`: `announce` recognises a new operator by
  `updatedAt = 0`; `SentinelExact` says that this is right, since no block has
  the time 0.
- `FailsClosed`, `Attributed`: `LookupInv` adds that the directory lists only
  what was announced (`ActiveAnnounced`), that the pair a lookup asks was, and
  that the answer it keeps is of the key it pinned. `HonestPasses` is a fact
  about the checks, from the types.
- `OneDeployment`: `ConfInv` says what the environment holds after so many lines
  of the `.env` file: what was given, or the first line that sets the variable
  (`afterLines`). The rest is a distinction of cases on what `FromEnv` and the
  commands then find, and on which artifact is the first of its network
  (`FirstOfTheNetwork`).
- `SpellingDoesNotMatter`: ranging over a map in any order makes the same
  canonical map, or an error if any pair is bad or two have one canonical key
  (`AlongOrder`); so fragments with the same canonical map make the same
  selector (`Parsed`, `SameParsed`), and each way of writing one is shown to have
  the same (`ReorderedSame`, `RespelledSame`, `ParameterSame`). That a canonical
  selector is its own (`CanonicalStays`) needs that the keys can be sorted
  (`Sortable`), by inserting one after another.

**`LoopTheorems`** has the lemmas about `Subsequence`, the loop of
`activeResolvers` and `listRecords`: it keeps the elements of the set, in their
order, and without repetitions if there were none. The library's induction
theorems take an operator, which the provers cannot instantiate;
`LeastNumber` and `SetInduction` state induction for a set of numbers, and
`LoopRuns` derives from it that a loop written as a recursive function has a
value after every round.

Model-checked only: liveness (`EventsArrive`, `RequestsDecided`,
`ArrivedAreAnswered`, `ShutdownCompletes`), which is out of the prover's reach.
Every invariant and every action property of the runs that pass is proved.

Proved, and not in a run: `FeesConserved`, `KeyListExact` and
`OverflowOnlyWhileActive`.

## Not modelled

- `publish-resource`'s seeding of the file through `/showcase` and its wait for
  the resolver's cache, `seed`, and the reordering of command lines: requests
  and text without state of their own. The transaction of `publish-resource` is
  that of `set`.
- The type page, `/healthz`, the counters and the page of `/admin`, and the JSON
  of answers: one read each, and formatting.
- The expressions that names and types must match, hexadecimal and decimal
  parsing: valid and invalid values are sets.
- The trusted setup (`zkgen`), the loading of its artifacts and the verifier
  contract: arithmetic over a pairing-friendly curve, and generated code.
- In the bindings, calls and transactions are taken for the contracts'
  functions; subscriptions and sessions are not used by the program.
- Reorganisations of the chain, and an RPC provider that answers from an older
  head: the code takes every answer as final, and nothing says what it should
  do otherwise.
- The showcase's pages, the browser extension and the deployment scripts: user
  interface, and one-shot sequences of calls.
