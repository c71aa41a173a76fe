------------------------ MODULE ResolverPartsProofs -------------------------
(***************************************************************************)
(* The parts of the resolver process that share no state with one another, *)
(* each for any sizes and any order of its steps: the answer cache, the    *)
(* event iterators, the process through crashes, the domain page, and the  *)
(* torrent engine.                                                         *)
(***************************************************************************)
EXTENDS TTLCache, EventIterator, DomainPage, ResolverNode, TorrentEngine,
        SequenceTheorems, FiniteSetTheorems, TLAPS

(* Leaves are for Zenon unless they name another prover.                   *)
USE ZenonT(20)

-----------------------------------------------------------------------------
(* TTLCache: the cache's indexes are exact for every set of keys, every    *)
(* capacity and every sequence of calls.                                   *)

(* IndexExact, of any cached keys and any indexes.                         *)
exact(keys, index, hashes) ==
    /\ DOMAIN index = {KeyName[k] : k \in keys}
    /\ hashes = DOMAIN index
    /\ \A n \in DOMAIN index : index[n] = {k \in keys : KeyName[k] = n}

(* dropFromIndex follows the LRU when any keys leave it.                   *)
LEMMA DropExact ==
    ASSUME NEW keys \in SUBSET CacheKeys, NEW index, NEW hashes, NEW out,
           exact(keys, index, hashes)
    PROVE  exact(keys \ out, dropFromIndex(index, out), hashes \ emptied(index, out))
<1>1. \A n \in DOMAIN index : index[n] # {} /\ \A k \in index[n] : k \in keys /\ KeyName[k] = n
  BY DEF exact
<1>2. emptied(index, out) = {n \in DOMAIN index : index[n] \subseteq out}
  BY SMT, <1>1 DEF emptied
<1>. DEFINE index2 == dropFromIndex(index, out)
<1>3. /\ DOMAIN index2 = {n \in DOMAIN index : ~(index[n] \subseteq out)}
      /\ \A n \in DOMAIN index2 : index2[n] = index[n] \ out
  BY <1>2 DEF dropFromIndex
<1>. HIDE DEF index2
<1>4. DOMAIN index2 = {KeyName[k] : k \in keys \ out}
  BY SMT, <1>1, <1>3 DEF exact
<1>5. \A n \in DOMAIN index2 : index2[n] = {k \in keys \ out : KeyName[k] = n}
  BY <1>3 DEF exact
<1>6. hashes \ emptied(index, out) = DOMAIN index2
  BY <1>2, <1>3 DEF exact
<1>. QED BY <1>4, <1>5, <1>6 DEF exact, index2

(* Set registers the key before the LRU has it.                            *)
LEMMA AddExact ==
    ASSUME NEW keys \in SUBSET CacheKeys, NEW index, NEW hashes, NEW k \in CacheKeys,
           exact(keys, index, hashes)
    PROVE  exact(keys \cup {k}, withKey(index, k), hashes \cup {KeyName[k]})
<1>. DEFINE index2 == withKey(index, k)
<1>1. /\ DOMAIN index2 = DOMAIN index \cup {KeyName[k]}
      /\ \A n \in DOMAIN index2 :
           index2[n] = IF n # KeyName[k] THEN index[n]
                       ELSE IF n \in DOMAIN index THEN index[n] \cup {k} ELSE {k}
  BY DEF withKey
<1>. HIDE DEF index2
<1>2. DOMAIN index2 = {KeyName[j] : j \in keys \cup {k}}
  BY SMT, <1>1 DEF exact
<1>3. ASSUME NEW n \in DOMAIN index2
      PROVE  index2[n] = {j \in keys \cup {k} : KeyName[j] = n}
  <2>1. CASE n # KeyName[k]
    <3>1. n \in DOMAIN index /\ index2[n] = index[n]
      BY <1>1, <2>1
    <3>. QED BY <2>1, <3>1 DEF exact
  <2>2. CASE n = KeyName[k] /\ n \in DOMAIN index
    <3>1. index2[n] = index[n] \cup {k}
      BY <1>1, <2>2
    <3>. QED BY <2>2, <3>1 DEF exact
  <2>3. CASE n = KeyName[k] /\ n \notin DOMAIN index
    <3>1. index2[n] = {k} /\ \A j \in keys : KeyName[j] # n
      BY <1>1, <2>3 DEF exact
    <3>. QED BY <2>3, <3>1
  <2>. QED BY <2>1, <2>2, <2>3
<1>4. hashes \cup {KeyName[k]} = DOMAIN index2
  BY <1>1 DEF exact
<1>. QED BY <1>2, <1>3, <1>4 DEF exact, index2

(* Whatever leaves the cache, by expiry or by invalidation.                *)
LEMMA RemoveStep ==
    ASSUME NEW keys, remove(keys), CacheTypeOK, IndexExact, clock' \in Nat
    PROVE  CacheTypeOK' /\ IndexExact'
<1>1. exact(cached, nameKeys, hashNames) /\ cached \in SUBSET CacheKeys
  BY DEF IndexExact, exact, CacheTypeOK
<1>2. cached' = cached \ keys /\ \A k \in cached' : entries'[k] = entries[k]
  BY DEF remove, cached
<1>3. exact(cached', nameKeys', hashNames')
  BY <1>1, <1>2, DropExact DEF remove
<1>4. CacheTypeOK'
  BY SMT, <1>2, <1>3, CacheAssumption DEF CacheTypeOK, exact
<1>. QED BY <1>3, <1>4 DEF exact, IndexExact

(* Set, with the eviction it may cause.                                    *)
LEMMA SetStep ==
    ASSUME NEW k \in CacheKeys, NEW v \in Values, NEW ttl \in TTLs, Set(k, v, ttl),
           CacheTypeOK, IndexExact, UNCHANGED clock
    PROVE  CacheTypeOK' /\ IndexExact'
<1>. DEFINE out == oldest(Append(without(lru, {k}), k))
            new == [value |-> v, expiresAt |-> expiryAfter(ttl)]
<1>1. exact(cached, nameKeys, hashNames) /\ cached \in SUBSET CacheKeys
  BY DEF IndexExact, exact, CacheTypeOK
<1>2. exact(cached \cup {k}, withKey(nameKeys, k), hashNames \cup {KeyName[k]})
  BY <1>1, AddExact
<1>3. /\ entries' = [j \in (cached \cup {k}) \ out |-> IF j = k THEN new ELSE entries[j]]
      /\ nameKeys' = dropFromIndex(withKey(nameKeys, k), out)
      /\ hashNames' = (hashNames \cup {KeyName[k]}) \ emptied(withKey(nameKeys, k), out)
  BY DEF Set
<1>4. new \in [value : Values, expiresAt : Nat]
  BY SMT, CacheAssumption DEF CacheTypeOK, expiryAfter
<1>. HIDE DEF out, new
<1>5. cached' = (cached \cup {k}) \ out
  BY <1>3 DEF cached
<1>6. exact(cached', nameKeys', hashNames')
  <2>1. cached \cup {k} \in SUBSET CacheKeys
    BY <1>1
  <2>. QED BY <1>2, <1>3, <1>5, <2>1, DropExact
<1>7. \A j \in cached' : entries'[j] \in [value : Values, expiresAt : Nat]
  BY <1>3, <1>4, <1>5 DEF CacheTypeOK
<1>8. CacheTypeOK'
  BY SMT, <1>1, <1>5, <1>6, <1>7, CacheAssumption DEF CacheTypeOK, exact
<1>. QED BY <1>6, <1>8 DEF exact, IndexExact

(* Every call on the cache keeps its types and its indexes exact.          *)
LEMMA CacheStep ==
    CacheTypeOK /\ IndexExact /\ [CacheNext]_<<clock, cacheVars>> => CacheTypeOK' /\ IndexExact'
<1>. SUFFICES ASSUME CacheTypeOK, IndexExact, [CacheNext]_<<clock, cacheVars>>
              PROVE  CacheTypeOK' /\ IndexExact'
  OBVIOUS
<1>1. CASE UNCHANGED <<entries, nameKeys, hashNames>> /\ clock' \in Nat
  BY <1>1 DEF CacheTypeOK, IndexExact, cached
<1>2. clock' \in Nat
  BY SMT DEF CacheNext, CacheTick, CacheTypeOK
<1>3. ASSUME NEW n \in CacheNames, InvalidateName(n) PROVE CacheTypeOK' /\ IndexExact'
  BY <1>2, <1>3, RemoveStep DEF InvalidateName
<1>4. ASSUME NEW k \in CacheKeys, Get(k) PROVE CacheTypeOK' /\ IndexExact'
  BY <1>1, <1>2, <1>4, RemoveStep DEF Get, cacheVars
<1>5. ASSUME NEW kind \in EventKinds, NEW n \in CacheNames, HandleEvent(kind, n)
      PROVE  CacheTypeOK' /\ IndexExact'
  BY <1>1, <1>2, <1>3, <1>5 DEF HandleEvent, InvalidateNameHash, cacheVars
<1>6. CASE Flush
  BY SMT, <1>2, <1>6 DEF Flush, CacheTypeOK, IndexExact, cached
<1>. QED
  BY <1>1, <1>2, <1>4, <1>5, <1>6, SetStep DEF CacheNext, CacheTick, cacheVars

(* The indexes agree with the LRU after any sequence of calls, so that     *)
(* HandleEvent finds every entry of a name and nothing lingers in a map.   *)
THEOREM IndexesAreExact == CacheSpec => []IndexExact
<1>1. CacheStart => CacheTypeOK /\ IndexExact
  BY SMT DEF CacheStart, CacheInit, CacheTypeOK, IndexExact, cached
<1>. QED BY <1>1, CacheStep, PTL DEF CacheSpec

-----------------------------------------------------------------------------
(* EventIterator: the logs are always in three places: what was delivered, *)
(* what is in the channel, and what is not yet sent, in this order; and    *)
(* Next learns of the end only after all is sent.                          *)

IterType ==
    /\ {found, unsent, channel, delivered} \subseteq Seq(Logs)
    /\ subscribed \in BOOLEAN
    /\ iter \in [iterating : BOOLEAN, done : BOOLEAN, fail : BOOLEAN]

InThreePlaces == ~iter.fail => (delivered \o channel) \o unsent = found

EndIsKnownLast ==
    /\ iter.done => ~subscribed
    /\ iter.iterating /\ ~subscribed => unsent = << >>
    /\ ~iter.iterating /\ ~iter.fail => ~subscribed /\ channel = << >> /\ unsent = << >>

IterInv == IterType /\ InThreePlaces /\ EndIsKnownLast

(* The first element of the second sequence moves to the end of the first. *)
LEMMA MoveHead ==
    ASSUME NEW S, NEW s \in Seq(S), NEW t \in Seq(S), t # << >>
    PROVE  /\ Head(t) \in S /\ Tail(t) \in Seq(S)
           /\ Append(s, Head(t)) \in Seq(S)
           /\ Append(s, Head(t)) \o Tail(t) = s \o t
<1>1. Head(t) \in S /\ Tail(t) \in Seq(S)
  BY HeadTailProperties
<1>2. Len(Tail(t)) = Len(t) - 1 /\ \A i \in 1..(Len(t) - 1) : Tail(t)[i] = t[i + 1]
  BY HeadTailProperties
<1>3. Append(s, Head(t)) \in Seq(S) /\ Len(Append(s, Head(t))) = Len(s) + 1
  BY <1>1, AppendProperties
<1>. DEFINE left == Append(s, Head(t)) \o Tail(t)
            right == s \o t
<1>4. left \in Seq(S) /\ right \in Seq(S) /\ Len(left) = Len(right)
  BY SMT, <1>1, <1>2, <1>3, ConcatProperties
<1>5. \A i \in 1..Len(right) : left[i] = right[i]
  BY SMT, <1>1, <1>2, <1>3
<1>6. left = right
  BY <1>4, <1>5, SeqEqual
<1>. QED BY <1>1, <1>3, <1>6

(* Appending to the second sequence appends to both.                       *)
LEMMA AppendLast ==
    ASSUME NEW S, NEW s \in Seq(S), NEW t \in Seq(S), NEW e \in S
    PROVE  s \o Append(t, e) = Append(s \o t, e)
<1>. DEFINE left == s \o Append(t, e)
            right == Append(s \o t, e)
<1>1. left \in Seq(S) /\ right \in Seq(S) /\ Len(left) = Len(right)
  BY SMT, ConcatProperties, AppendProperties
<1>2. \A i \in 1..Len(right) : left[i] = right[i]
  BY SMT
<1>. QED BY <1>1, <1>2, SeqEqual

(* The iterator's invariant holds before the first log is sent.            *)
LEMMA IterInitially == IterInit => IterInv
<1>. SUFFICES ASSUME IterInit PROVE IterInv
  OBVIOUS
<1>1. found \in Seq(Logs)
  BY SMT DEF IterInit
<1>2. (<< >> \o << >>) \o found = found
  BY SMT, <1>1, ConcatEmptySeq
<1>. QED BY SMT, <1>1, <1>2 DEF IterInit, IterInv, IterType, InThreePlaces, EndIsKnownLast

(* The sending goroutine and Next keep it.                                 *)
LEMMA IterPreserved == IterInv /\ [IterNext]_iterVars => IterInv'
<1>. SUFFICES ASSUME IterInv, [IterNext]_iterVars PROVE IterInv'
  OBVIOUS
<1>. USE DEF IterInv, IterType, InThreePlaces, EndIsKnownLast
<1>1. CASE SendLog
  <2>1. /\ Append(channel, Head(unsent)) \in Seq(Logs)
        /\ Tail(unsent) \in Seq(Logs) /\ Head(unsent) \in Logs
    <3>1. channel \in Seq(Logs) /\ unsent \in Seq(Logs) /\ unsent # << >>
      BY <1>1 DEF SendLog
    <3>. QED BY ONLY <3>1, MoveHead
  <2>2. delivered \o Append(channel, Head(unsent)) = Append(delivered \o channel, Head(unsent))
    <3>1. channel \in Seq(Logs) /\ delivered \in Seq(Logs)
      OBVIOUS
    <3>. QED BY ONLY <2>1, <3>1, AppendLast
  <2>3. Append(delivered \o channel, Head(unsent)) \o Tail(unsent)
          = (delivered \o channel) \o unsent
    <3>1. delivered \o channel \in Seq(Logs)
      BY ConcatProperties
    <3>2. unsent \in Seq(Logs) /\ unsent # << >>
      BY <1>1 DEF SendLog
    <3>. DEFINE both == delivered \o channel
    <3>. HIDE DEF both
    <3>3. both \in Seq(Logs)
      BY <3>1 DEF both
    <3>4. Append(both, Head(unsent)) \o Tail(unsent) = both \o unsent
      BY ONLY <3>2, <3>3, MoveHead
    <3>. QED BY <3>4 DEF both
  <2>. QED BY <1>1, <2>1, <2>2, <2>3 DEF SendLog
<1>2. CASE EndSubscription
  BY <1>2 DEF EndSubscription
<1>3. CASE TakeLog
  <2>1. /\ Tail(channel) \in Seq(Logs) /\ Append(delivered, Head(channel)) \in Seq(Logs)
        /\ Append(delivered, Head(channel)) \o Tail(channel) = delivered \o channel
    <3>1. channel \in Seq(Logs) /\ delivered \in Seq(Logs) /\ channel # << >>
      BY <1>3 DEF TakeLog
    <3>. QED BY ONLY <3>1, MoveHead
  <2>2. CASE Head(channel) \in BadLogs
    BY <1>3, <2>1, <2>2 DEF TakeLog
  <2>3. CASE Head(channel) \notin BadLogs
    BY <1>3, <2>1, <2>3 DEF TakeLog
  <2>. QED BY <2>2, <2>3
<1>4. CASE LearnOfEnd
  BY <1>4 DEF LearnOfEnd
<1>5. CASE NoMore
  BY <1>5 DEF NoMore
<1>6. CASE CloseIterator
  BY <1>6 DEF CloseIterator
<1>7. CASE UNCHANGED iterVars
  BY <1>7 DEF iterVars
<1>. QED BY <1>1, <1>2, <1>3, <1>4, <1>5, <1>6, <1>7 DEF IterNext

(* Every iteration that ends without an error has delivered every log that *)
(* was found, whatever goroutine and reader do in between: Next drains the *)
(* channel after the end.                                                  *)
THEOREM IterationIsComplete == IterSpec => []IterationComplete
<1>1. IterInv => IterationComplete
  <2>. SUFFICES ASSUME IterInv, ~iter.iterating, ~iter.fail PROVE delivered = found
    BY DEF IterationComplete
  <2>1. (delivered \o << >>) \o << >> = found
    BY DEF IterInv, InThreePlaces, EndIsKnownLast
  <2>. QED BY <2>1, ConcatEmptySeq DEF IterInv, IterType
<1>. QED BY <1>1, IterInitially, IterPreserved, PTL DEF IterSpec

-----------------------------------------------------------------------------
(* ResolverNode: both results rest on what is on the disk before it is     *)
(* used.  A resolver past its keystore has the identity that is in it, and *)
(* who sees an identity sees that one; a file is answered for only when it *)
(* is whole, and it stays.                                                 *)

NodeType ==
    /\ keystore \in Nat \cup {Torn, Absent}
    /\ uploads \in [Uploads -> {Absent, Torn, "whole"}]
    /\ identity \in Nat \cup {Absent}
    /\ todo \subseteq Uploads
    /\ stage \in [Publishers -> {"idle", "writing", "seeding"}]
    /\ file \in [Publishers -> Uploads \cup {Absent}]
    /\ \A p \in Publishers : stage[p] # "idle" => file[p] \in Uploads
    /\ announcing \in Nat \cup {Absent}
    /\ drawn \in Nat
    /\ acked \subseteq Uploads

(* The identity in use is the one on the disk, and nobody knows another.   *)
IdentityOnDisk ==
    /\ phase = "creating" => keystore = Torn /\ identity \in Nat
    /\ phase \in {"engine", "reseeding", "up", "stopping"} =>
         keystore = identity /\ keystore \in Nat
    /\ known \subseteq {keystore}
    /\ announcing \in {Absent, keystore}
    /\ keystore \notin Nat => known = {} /\ announcing = Absent

(* Files that are seeded for a publication, or answered for, are whole, and*)
(* from the start of the engine on each one answered for has its turn.     *)
UploadsOnDisk ==
    /\ \A f \in acked : uploads[f] = "whole"
    /\ \A p \in Publishers : stage[p] = "seeding" => uploads[file[p]] = "whole"
    /\ phase \in {"reseeding", "up", "stopping"} =>
         \A f \in acked : f \in todo \/ f \in skipped \/ <<f, "whole">> \in seeds
    /\ phase \in {"up", "stopping"} => todo = {}

NodeInv == NodeType /\ IdentityOnDisk /\ UploadsOnDisk

(* A resolver that was never started has no identity and no uploads.       *)
LEMMA NodeInitially == NodeInit => NodeInv
BY SMT, NodeAssumption DEF NodeInit, NodeInv, NodeType, IdentityOnDisk, UploadsOnDisk

(* One lemma per part of the invariant, with a step per action.            *)
LEMMA TypePreserved == NodeInv /\ [NodeNext]_nodeVars => NodeType'
<1>. SUFFICES ASSUME NodeInv, [NodeNext]_nodeVars PROVE NodeType'
  OBVIOUS
<1>. USE NodeAssumption DEF disk, engine, handlers, seen, NodeInv, NodeType
<1>1. CASE Start BY <1>1 DEF Start
<1>2. CASE LoadIdentity BY <1>2 DEF LoadIdentity
<1>3. CASE CreateIdentity BY SMT, <1>3 DEF CreateIdentity
<1>4. CASE PersistIdentity BY <1>4 DEF PersistIdentity, IdentityOnDisk
<1>5. CASE StartEngine BY <1>5 DEF StartEngine, uploadedFiles
<1>6. CASE Run BY <1>6 DEF Run
<1>7. ASSUME NEW f \in Uploads, autoSeedUploads(f) PROVE NodeType'
  BY <1>7 DEF autoSeedUploads
<1>8. CASE Ends BY <1>8 DEF Ends
<1>9. CASE Shutdown BY <1>9 DEF Shutdown
<1>10. CASE Sign BY <1>10 DEF Sign
<1>11. ASSUME NEW p \in Publishers, NEW f \in Uploads, handleShowcasePublish(p, f) PROVE NodeType'
  BY <1>11 DEF handleShowcasePublish
<1>12. ASSUME NEW p \in Publishers, WriteUpload(p) PROVE NodeType'
  BY <1>12 DEF WriteUpload
<1>13. ASSUME NEW p \in Publishers, SeedUpload(p) PROVE NodeType'
  BY <1>13 DEF SeedUpload
<1>14. CASE fetchResolverPubKey BY <1>14 DEF fetchResolverPubKey, IdentityOnDisk
<1>15. CASE cmdAnnounceResolver BY <1>15 DEF cmdAnnounceResolver
<1>16. CASE UNCHANGED nodeVars BY <1>16 DEF nodeVars
<1>. QED
  BY <1>1, <1>2, <1>3, <1>4, <1>5, <1>6, <1>7, <1>8, <1>9, <1>10, <1>11, <1>12, <1>13, <1>14,
     <1>15, <1>16 DEF NodeNext

(* Boots, crashes and commands keep the identity that was seen.            *)
LEMMA IdentityPreserved == NodeInv /\ [NodeNext]_nodeVars => IdentityOnDisk'
<1>. SUFFICES ASSUME NodeInv, [NodeNext]_nodeVars PROVE IdentityOnDisk'
  OBVIOUS
<1>. USE NodeAssumption DEF disk, engine, handlers, seen, NodeInv, NodeType, IdentityOnDisk
<1>1. CASE Start BY <1>1 DEF Start
<1>2. CASE LoadIdentity BY <1>2 DEF LoadIdentity
<1>3. CASE CreateIdentity
  <2>1. Torn \notin Nat /\ Absent \notin Nat
    BY NodeAssumption
  <2>2. known' = {} /\ announcing' = Absent
    BY <1>3, <2>1 DEF CreateIdentity
  <2>3. identity' \in Nat /\ keystore' = Torn /\ phase' = "creating"
    BY SMT, <1>3 DEF CreateIdentity
  <2>. QED BY <2>1, <2>2, <2>3
<1>4. CASE PersistIdentity BY <1>4 DEF PersistIdentity
<1>5. CASE StartEngine BY <1>5 DEF StartEngine
<1>6. CASE Run BY <1>6 DEF Run
<1>7. ASSUME NEW f \in Uploads, autoSeedUploads(f) PROVE IdentityOnDisk'
  BY <1>7 DEF autoSeedUploads
<1>8. CASE Ends BY <1>8 DEF Ends
<1>9. CASE Shutdown BY <1>9 DEF Shutdown
<1>10. CASE Sign BY <1>10 DEF Sign
<1>11. ASSUME NEW p \in Publishers, NEW f \in Uploads, handleShowcasePublish(p, f)
       PROVE IdentityOnDisk'
  BY <1>11 DEF handleShowcasePublish
<1>12. ASSUME NEW p \in Publishers, WriteUpload(p) PROVE IdentityOnDisk'
  BY <1>12 DEF WriteUpload
<1>13. ASSUME NEW p \in Publishers, SeedUpload(p) PROVE IdentityOnDisk'
  BY <1>13 DEF SeedUpload
<1>14. CASE fetchResolverPubKey BY <1>14 DEF fetchResolverPubKey
<1>15. CASE cmdAnnounceResolver BY <1>15 DEF cmdAnnounceResolver
<1>16. CASE UNCHANGED nodeVars BY <1>16 DEF nodeVars
<1>. QED
  BY <1>1, <1>2, <1>3, <1>4, <1>5, <1>6, <1>7, <1>8, <1>9, <1>10, <1>11, <1>12, <1>13, <1>14,
     <1>15, <1>16 DEF NodeNext

(* So do they the uploads answered for, of which autoSeedUploads skips     *)
(* none.                                                                   *)
LEMMA UploadsPreserved == NodeInv /\ [NodeNext]_nodeVars => UploadsOnDisk'
<1>. SUFFICES ASSUME NodeInv, [NodeNext]_nodeVars PROVE UploadsOnDisk'
  OBVIOUS
<1>. USE NodeAssumption DEF disk, engine, handlers, seen, NodeInv, NodeType, UploadsOnDisk
<1>1. CASE Start BY <1>1 DEF Start
<1>2. CASE LoadIdentity BY <1>2 DEF LoadIdentity
<1>3. CASE CreateIdentity BY <1>3 DEF CreateIdentity
<1>4. CASE PersistIdentity BY <1>4 DEF PersistIdentity
<1>5. CASE StartEngine BY <1>5 DEF StartEngine, uploadedFiles
<1>6. CASE Run BY <1>6 DEF Run
<1>7. ASSUME NEW f \in Uploads, autoSeedUploads(f) PROVE UploadsOnDisk'
  BY <1>7 DEF autoSeedUploads
<1>8. CASE Ends BY <1>8 DEF Ends
<1>9. CASE Shutdown BY <1>9 DEF Shutdown
<1>10. CASE Sign BY <1>10 DEF Sign
<1>11. ASSUME NEW p \in Publishers, NEW f \in Uploads, handleShowcasePublish(p, f)
       PROVE UploadsOnDisk'
  BY <1>11 DEF handleShowcasePublish
<1>12. ASSUME NEW p \in Publishers, WriteUpload(p) PROVE UploadsOnDisk'
  BY SMT, <1>12 DEF WriteUpload
<1>13. ASSUME NEW p \in Publishers, SeedUpload(p) PROVE UploadsOnDisk'
  BY <1>13 DEF SeedUpload
<1>14. CASE fetchResolverPubKey BY <1>14 DEF fetchResolverPubKey
<1>15. CASE cmdAnnounceResolver BY <1>15 DEF cmdAnnounceResolver
<1>16. CASE UNCHANGED nodeVars BY <1>16 DEF nodeVars
<1>. QED
  BY <1>1, <1>2, <1>3, <1>4, <1>5, <1>6, <1>7, <1>8, <1>9, <1>10, <1>11, <1>12, <1>13, <1>14,
     <1>15, <1>16 DEF NodeNext

(* The invariant holds of every behaviour.                                 *)
LEMMA NodeInvariant == NodeSpec => []NodeInv
<1>1. NodeInv /\ [NodeNext]_nodeVars => NodeInv'
  BY TypePreserved, IdentityPreserved, UploadsPreserved DEF NodeInv
<1>. QED BY <1>1, NodeInitially, PTL DEF NodeSpec

(* A resolver signs with one identity for all its life, through crashes at *)
(* any step of any boot, and it is the one that was announced.             *)
THEOREM IdentityIsKept == NodeSpec => []IdentityKept
<1>1. NodeInv => IdentityKept
  BY DEF NodeInv, IdentityOnDisk, IdentityKept
<1>. QED BY <1>1, NodeInvariant, PTL

(* What a resolver has answered for it seeds in every later run, unless it *)
(* failed to in that very boot.                                            *)
THEOREM UploadsDoReturn == NodeSpec => []UploadsReturn
<1>1. NodeInv => UploadsReturn
  BY DEF NodeInv, UploadsOnDisk, UploadsReturn
<1>. QED BY <1>1, NodeInvariant, PTL

-----------------------------------------------------------------------------
(* DomainPage: what a page says of the records it shows is right.          *)

Holders == Accounts \cup {NoOwner}

ShownRecords == [key : Keys, generation : Nat, author : Holders]

Asking == [pc : {"domain"}, name : Names]

Shown == [pc : {"records", "sent"}, name : Names, owner : Holders, generation : Nat,
          records : SUBSET ShownRecords]

PageTypeOK ==
    /\ holder \in [Names -> Holders]
    /\ live \in [Names -> [Keys -> Bodies \cup {NoBody}]]
    /\ generation \in [Names -> Nat]
    /\ author \in [Names -> [Keys -> Holders]]
    /\ page \in [Requests -> {noPage} \cup Asking \cup Shown]

(* A record that is there was published by the name's holder.              *)
AuthorHolds ==
    \A n \in Names, k \in Keys : live[n][k] # NoBody => author[n][k] = holder[n]

(* The head of a page is the chain's, unless the name changed hands since. *)
headKept(q) ==
    q.pc = "records" => \/ q.generation < generation[q.name]
                        \/ q.generation = generation[q.name] /\ q.owner = holder[q.name]

attributed(q) ==
    q.pc = "sent" => \A rec \in q.records : IF rec.generation = q.generation THEN rec.author = q.owner
                                            ELSE rec.generation > q.generation

PageInv ==
    /\ PageTypeOK
    /\ AuthorHolds
    /\ \A r \in Requests : headKept(page[r]) /\ attributed(page[r])

(* A step of the chain leaves every page as it is, and a name that does    *)
(* not keep its holder goes on to the next generation.                     *)
LEMMA ChainStep ==
    ASSUME PageInv, NEW n \in Names, page' = page,
           holder' \in [Names -> Holders], live' \in [Names -> [Keys -> Bodies \cup {NoBody}]],
           generation' \in [Names -> Nat], author' \in [Names -> [Keys -> Holders]],
           AuthorHolds',
           \A m \in Names : \/ generation'[m] = generation[m] /\ holder'[m] = holder[m]
                            \/ generation'[m] = generation[m] + 1
    PROVE  PageInv'
<1>1. PageTypeOK'
  BY DEF PageInv, PageTypeOK
<1>2. ASSUME NEW r \in Requests PROVE headKept(page[r])'
  <2>. SUFFICES ASSUME page[r].pc = "records"
                PROVE  \/ page[r].generation < generation'[page[r].name]
                       \/ /\ page[r].generation = generation'[page[r].name]
                          /\ page[r].owner = holder'[page[r].name]
    BY DEF headKept
  <2>1. page[r] \in Shown
    BY SMT DEF PageInv, PageTypeOK, noPage, Asking
  <2>2. /\ page[r].name \in Names /\ page[r].generation \in Nat
        /\ generation[page[r].name] \in Nat
    BY <2>1 DEF Shown, PageInv, PageTypeOK
  <2>3. headKept(page[r])
    BY DEF PageInv
  <2>. QED BY SMT, <2>2, <2>3 DEF headKept
<1>3. \A r \in Requests : attributed(page[r])'
  BY DEF PageInv, attributed
<1>. QED BY <1>1, <1>2, <1>3 DEF PageInv

(* A step of a request changes its own page only.                          *)
LEMMA PageStep ==
    ASSUME PageInv, NEW r \in Requests, NEW q \in {noPage} \cup Asking \cup Shown,
           page' = [page EXCEPT ![r] = q], UNCHANGED chainVars, headKept(q), attributed(q)
    PROVE  PageInv'
<1>1. /\ UNCHANGED <<holder, live, generation, author>>
      /\ page'[r] = q /\ \A s \in Requests : s # r => page'[s] = page[s]
      /\ page' \in [Requests -> {noPage} \cup Asking \cup Shown]
  BY DEF chainVars, nsVars, PageInv, PageTypeOK
<1>2. PageTypeOK' /\ AuthorHolds'
  BY <1>1 DEF PageInv, PageTypeOK, AuthorHolds
<1>3. \A s \in Requests : headKept(page[s])'
  BY <1>1 DEF PageInv, headKept
<1>4. \A s \in Requests : attributed(page[s])'
  BY <1>1 DEF PageInv, attributed
<1>. QED BY <1>2, <1>3, <1>4 DEF PageInv

(* Every change of the chain and every step of a page keeps heads true.    *)
LEMMA PageInvariant == PageSpec => []PageInv
<1>1. PageInit => PageInv
  BY SMT DEF PageInit, NSInit, NoRecords, PageInv, PageTypeOK, AuthorHolds, headKept, attributed, noPage,
         Holders
<1>2. ASSUME PageInv, NEW n \in Names, NEW a \in Accounts, NEW p, ChangesHands(n, a, p) PROVE PageInv'
  <2>1. /\ holder' = [holder EXCEPT ![n] = a] /\ live' = [live EXCEPT ![n] = NoRecords]
        /\ generation' = [generation EXCEPT ![n] = @ + 1] /\ author' = author /\ page' = page
    BY <1>2 DEF ChangesHands, Take, HandOver, nextGeneration
  <2>2. /\ holder \in [Names -> Holders] /\ live \in [Names -> [Keys -> Bodies \cup {NoBody}]]
        /\ generation \in [Names -> Nat] /\ author \in [Names -> [Keys -> Holders]] /\ a \in Holders
        /\ NoRecords \in [Keys -> Bodies \cup {NoBody}] /\ \A k \in Keys : NoRecords[k] = NoBody
    BY <1>2 DEF PageInv, PageTypeOK, Holders, NoRecords
  <2>3. /\ holder' \in [Names -> Holders] /\ live' \in [Names -> [Keys -> Bodies \cup {NoBody}]]
        /\ generation' \in [Names -> Nat] /\ author' \in [Names -> [Keys -> Holders]]
    BY SMT, <2>1, <2>2
  <2>4. AuthorHolds'
    BY <1>2, <2>1, <2>2 DEF PageInv, AuthorHolds
  <2>5. \A m \in Names : \/ generation'[m] = generation[m] /\ holder'[m] = holder[m]
                         \/ generation'[m] = generation[m] + 1
    BY <2>1, <2>2
  <2>. QED BY <1>2, <2>1, <2>3, <2>4, <2>5, ChainStep
<1>3. ASSUME PageInv, NEW n \in Names, NEW k \in Keys, NEW b \in Bodies, SetRecord(n, k, b) PROVE PageInv'
  <2>1. /\ live' = [live EXCEPT ![n][k] = b] /\ author' = [author EXCEPT ![n][k] = holder[n]]
        /\ UNCHANGED <<holder, generation, page>>
    BY <1>3 DEF SetRecord, Publish
  <2>2. /\ holder \in [Names -> Holders] /\ live \in [Names -> [Keys -> Bodies \cup {NoBody}]]
        /\ generation \in [Names -> Nat] /\ author \in [Names -> [Keys -> Holders]]
    BY <1>3 DEF PageInv, PageTypeOK
  <2>3. /\ live' \in [Names -> [Keys -> Bodies \cup {NoBody}]] /\ author' \in [Names -> [Keys -> Holders]]
    BY <2>1, <2>2
  <2>4. AuthorHolds'
    <3>. SUFFICES ASSUME NEW m \in Names, NEW j \in Keys, live'[m][j] # NoBody
                  PROVE  author'[m][j] = holder'[m]
      BY DEF AuthorHolds
    <3>1. CASE m = n /\ j = k
      BY <2>1, <2>2, <3>1
    <3>2. CASE ~(m = n /\ j = k)
      <4>1. live'[m][j] = live[m][j] /\ author'[m][j] = author[m][j]
        BY <2>1, <2>2, <3>2
      <4>. QED BY <1>3, <2>1, <4>1 DEF PageInv, AuthorHolds
    <3>. QED BY <3>1, <3>2
  <2>. QED BY <1>3, <2>1, <2>2, <2>3, <2>4, ChainStep
<1>4. ASSUME PageInv, NEW n \in Names, OtherChange(n) PROVE PageInv'
  <2>1. /\ UNCHANGED <<holder, generation, author, page>>
        /\ live' = live \/ \E k \in Keys : live' = [live EXCEPT ![n][k] = NoBody]
    BY <1>4 DEF OtherChange, Extend, Unpublish, NSTick
  <2>2. /\ holder \in [Names -> Holders] /\ live \in [Names -> [Keys -> Bodies \cup {NoBody}]]
        /\ generation \in [Names -> Nat] /\ author \in [Names -> [Keys -> Holders]]
    BY <1>4 DEF PageInv, PageTypeOK
  <2>3. /\ live' \in [Names -> [Keys -> Bodies \cup {NoBody}]]
        /\ \A m \in Names, j \in Keys : live'[m][j] # NoBody => live'[m][j] = live[m][j]
    <3>1. CASE live' = live
      BY <2>2, <3>1
    <3>2. ASSUME NEW k \in Keys, live' = [live EXCEPT ![n][k] = NoBody]
          PROVE  /\ live' \in [Names -> [Keys -> Bodies \cup {NoBody}]]
                 /\ \A m \in Names, j \in Keys : live'[m][j] # NoBody => live'[m][j] = live[m][j]
      BY <2>2, <3>2
    <3>. QED BY <2>1, <3>1, <3>2
  <2>4. AuthorHolds'
    BY SMT, <1>4, <2>1, <2>3 DEF PageInv, AuthorHolds
  <2>. QED BY <1>4, <2>1, <2>2, <2>3, <2>4, ChainStep
<1>5. ASSUME PageInv, NEW r \in Requests, NEW n \in Names, handleDomain(r, n) PROVE PageInv'
  <2>1. [pc |-> "domain", name |-> n] \in Asking /\ [pc |-> "domain", name |-> n].pc = "domain"
    BY DEF Asking
  <2>2. headKept([pc |-> "domain", name |-> n]) /\ attributed([pc |-> "domain", name |-> n])
    BY DEF headKept, attributed
  <2>. QED BY <1>5, <2>1, <2>2, PageStep DEF handleDomain
<1>6. ASSUME PageInv, NEW r \in Requests, GetDomain(r) PROVE PageInv'
  <2>. DEFINE n == page[r].name
              shown(pc) == [pc |-> pc, name |-> n, owner |-> holder[n], generation |-> generation[n],
                            records |-> {}]
  <2>1. page[r] \in Asking
    <3>1. page[r].pc = "domain" /\ page[r] \in {noPage} \cup Asking \cup Shown
      BY <1>6 DEF GetDomain, PageInv, PageTypeOK
    <3>. QED BY SMT, <3>1 DEF noPage, Shown
  <2>2. n \in Names /\ holder[n] \in Holders /\ generation[n] \in Nat
    BY <1>6, <2>1 DEF Asking, PageInv, PageTypeOK
  <2>3. PICK q \in {noPage, shown("records"), shown("sent")} : page' = [page EXCEPT ![r] = q]
    BY <1>6 DEF GetDomain
  <2>4. CASE q = noPage
    <3>1. headKept(q) /\ attributed(q)
      BY <2>4 DEF headKept, attributed, noPage
    <3>. QED BY <1>6, <2>3, <2>4, <3>1, PageStep DEF GetDomain
  <2>5. ASSUME NEW pc \in {"records", "sent"}, q = shown(pc) PROVE PageInv'
    <3>1. /\ q \in Shown /\ q.pc = pc /\ q.name = n /\ q.owner = holder[n]
          /\ q.generation = generation[n] /\ q.records = {}
      BY <2>2, <2>5 DEF Shown
    <3>2. headKept(q) /\ attributed(q)
      BY <2>2, <3>1 DEF headKept, attributed
    <3>. QED BY <1>6, <2>3, <3>1, <3>2, PageStep DEF GetDomain
  <2>. QED BY <2>3, <2>4, <2>5
<1>7. ASSUME PageInv, NEW r \in Requests, ListRecords(r) PROVE PageInv'
  <2>. DEFINE x == page[r]
              n == x.name
              q == [x EXCEPT !.pc = "sent", !.records = liveRecords(n)]
  <2>1. x \in Shown /\ x.pc = "records" /\ headKept(x)
    BY SMT, <1>7 DEF ListRecords, PageInv, PageTypeOK, noPage, Asking
  <2>2. /\ n \in Names /\ generation[n] \in Nat /\ author[n] \in [Keys -> Holders]
        /\ x.generation \in Nat
    BY <1>7, <2>1 DEF Shown, PageInv, PageTypeOK
  <2>3. \A rec \in liveRecords(n) : /\ rec \in ShownRecords /\ rec.generation = generation[n]
                                    /\ rec.author = holder[n]
    <3>. SUFFICES ASSUME NEW k \in Keys, Visible(n, k) # NoBody
                  PROVE  LET rec == [key |-> k, generation |-> generation[n], author |-> author[n][k]]
                         IN  /\ rec \in ShownRecords /\ rec.generation = generation[n]
                             /\ rec.author = holder[n]
      BY DEF liveRecords
    <3>1. author[n][k] = holder[n]
      BY <1>7, <2>2 DEF Visible, PageInv, AuthorHolds
    <3>. QED BY <2>2, <3>1 DEF ShownRecords
  <2>4. liveRecords(n) \in SUBSET ShownRecords
    BY <2>3
  <2>5. /\ q \in Shown /\ q.pc = "sent" /\ q.owner = x.owner /\ q.generation = x.generation
        /\ q.records = liveRecords(n)
    BY <2>1, <2>4 DEF Shown
  <2>6. page' = [page EXCEPT ![r] = q] /\ UNCHANGED chainVars
    BY <1>7 DEF ListRecords
  <2>. HIDE DEF q
  <2>7. headKept(q) /\ attributed(q)
    <3>1. \/ x.generation < generation[n]
          \/ x.generation = generation[n] /\ x.owner = holder[n]
      BY <2>1 DEF headKept
    <3>2. \/ generation[n] > x.generation /\ generation[n] # x.generation
          \/ generation[n] = x.generation /\ x.owner = holder[n]
      <4>. PICK g \in Nat, h \in Nat : g = generation[n] /\ h = x.generation
        BY <2>2
      <4>1. h < g => g > h /\ g # h
        BY SMT
      <4>. QED BY <3>1, <4>1
    <3>. QED BY <2>3, <2>5, <3>2 DEF headKept, attributed
  <2>. QED BY <1>7, <2>5, <2>6, <2>7, PageStep
<1>8. ASSUME PageInv, NEW r \in Requests, PageEnds(r) PROVE PageInv'
  <2>1. headKept(noPage) /\ attributed(noPage)
    BY DEF headKept, attributed, noPage
  <2>. QED BY <1>8, <2>1, PageStep DEF PageEnds
<1>9. ASSUME PageInv, UNCHANGED <<chainVars, page>> PROVE PageInv'
  BY <1>9 DEF chainVars, nsVars, PageInv, PageTypeOK, AuthorHolds, headKept, attributed
<1>10. PageInv /\ [PageNext]_<<chainVars, page>> => PageInv'
  BY <1>2, <1>3, <1>4, <1>5, <1>6, <1>7, <1>8, <1>9 DEF PageNext
<1>. QED BY <1>1, <1>10, PTL DEF PageSpec

(* handleDomain: the two reads of a page put no record into the wrong      *)
(* mouth, for any names, records and changes of the chain between them.    *)
THEOREM PagesAreAttributed == PageSpec => []PageAttributed
<1>1. PageInv => PageAttributed
  BY DEF PageInv, attributed, PageAttributed
<1>. QED BY <1>1, PageInvariant, PTL

-----------------------------------------------------------------------------
(* TorrentEngine: the engine's reference counts, for any number of         *)
(* torrents, fetches and seedings.  RefCountsExact holds by counting the   *)
(* readers at each step; NoTorrentLeaks needs it, because a reader that is *)
(* not the last one leaves the torrent to the others, and an eviction      *)
(* leaves a torrent that is read to its readers.                           *)

(* The state of a Fetch under way.                                         *)
FetchState ==
    [pc : {"acquire", "read", "retain", "evict", "release", "drop"},
     ih : Hashes, alive : BOOLEAN, todo : SUBSET Hashes]

EngineTypeOK ==
    /\ client \subseteq Hashes /\ pinned \subseteq Hashes
    /\ inUse \in [Hashes -> Nat]
    /\ retained \in Seq(Hashes)
    /\ fetch \in [Fetchers -> FetchState \cup {idle}]
    /\ seed \in [Seeders -> [pc : {"pin"}, ih : Hashes] \cup {idle}]

(* Only a Fetch that evicts has torrents to drop.                          *)
TodoWhileEvicting == \A f \in Fetchers : fetch[f] # idle /\ fetch[f].todo # {} => fetch[f].pc = "evict"

EngineInv == EngineTypeOK /\ TodoWhileEvicting /\ RefCountsExact /\ NoTorrentLeaks

ReadStates == {"read", "retain", "evict", "release"}

(* Between two Fetches there is no reader.                                 *)
LEMMA IdleFetch == idle.pc \notin ReadStates /\ idle.pc # "acquire" /\ idle.pc # "drop"
BY DEF idle, ReadStates

(* A step that changes neither who is between acquire and release nor the  *)
(* counts keeps the counts exact.                                          *)
LEMMA SameReaders ==
    ASSUME RefCountsExact, inUse' = inUse,
           \A f \in Fetchers : fetch'[f].pc \in ReadStates <=> fetch[f].pc \in ReadStates,
           \A f \in Fetchers : fetch[f].pc \in ReadStates => fetch'[f].ih = fetch[f].ih
    PROVE  RefCountsExact'
<1>1. \A ih \in Hashes : Readers(ih)' = Readers(ih)
  BY DEF Readers, ReadStates
<1>. QED BY <1>1 DEF RefCountsExact

(* The counts are of finite sets.                                          *)
LEMMA ReadersFinite ==
    ASSUME NEW ih \in Hashes
    PROVE  IsFiniteSet(Readers(ih)) /\ Cardinality(Readers(ih)) \in Nat
<1>1. Readers(ih) \subseteq Fetchers
  BY DEF Readers
<1>. QED BY <1>1, EngineAssumption, FS_Subset, FS_CardinalityType

(* A Fetch under way has a state of its type.                              *)
LEMMA FetchTyped ==
    ASSUME EngineTypeOK, NEW f \in Fetchers, fetch[f].pc # "idle"
    PROVE  fetch[f] \in FetchState /\ fetch[f] # idle
BY SMT DEF EngineTypeOK, idle

(* This Fetch will drop or pin the torrent.                                *)
has(st, ih) == st # idle /\ (st.ih = ih \/ ih \in st.todo)

(* Nothing leaks in a step after which every torrent of the client that a  *)
(* Fetch or a SeedFile had is had by one, as is every torrent that is new  *)
(* to the client or no longer pinned.                                      *)
LEMMA StillWanted ==
    ASSUME NoTorrentLeaks, abandoned \subseteq abandoned',
           \A h \in client' \ pinned' :
               /\ \A g \in Fetchers : has(fetch[g], h) => \E k \in Fetchers : has(fetch'[k], h)
               /\ h \in client \ pinned
                  \/ (\E k \in Fetchers : has(fetch'[k], h))
                  \/ (\E s \in Seeders : seed'[s] # idle /\ seed'[s].ih = h),
           \A s \in Seeders : seed[s] # idle =>
               \/ seed'[s] = seed[s]
               \/ seed[s].ih \in pinned' \cup abandoned'
    PROVE  NoTorrentLeaks'
<1>. SUFFICES ASSUME NEW h \in client' \ (pinned' \cup abandoned')
              PROVE  \/ \E g \in Fetchers : has(fetch'[g], h)
                     \/ \E s \in Seeders : seed'[s] # idle /\ seed'[s].ih = h
  BY DEF NoTorrentLeaks, has
<1>1. CASE h \in client \ pinned
  <2>1. h \in client \ (pinned \cup abandoned)
    BY <1>1
  <2>2. \/ \E g \in Fetchers : has(fetch[g], h)
        \/ \E s \in Seeders : seed[s] # idle /\ seed[s].ih = h
    BY <2>1 DEF NoTorrentLeaks, has
  <2>3. CASE \E g \in Fetchers : has(fetch[g], h)
    BY <2>3
  <2>4. CASE \E s \in Seeders : seed[s] # idle /\ seed[s].ih = h
    BY <2>4
  <2>. QED BY <2>2, <2>3, <2>4
<1>2. CASE h \notin client \ pinned
  BY <1>2
<1>. QED BY <1>1, <1>2

(* Adding a torrent to the client.                                         *)
LEMMA AddTorrentStep ==
    ASSUME EngineInv, NEW f \in Fetchers, NEW ih \in Hashes, AddTorrent(f, ih)
    PROVE  EngineInv'
<1>1. /\ fetch' = [fetch EXCEPT ![f] = fetching("acquire", ih, TRUE, {})]
      /\ client' = client \cup {ih} /\ fetch[f] = idle
      /\ UNCHANGED <<pinned, inUse, retained, seed, abandoned>>
  BY DEF AddTorrent, engineVars, seedVars
<1>2. fetching("acquire", ih, TRUE, {}) \in FetchState
  BY DEF fetching, FetchState
<1>3. /\ fetch'[f] = fetching("acquire", ih, TRUE, {}) /\ fetch'[f] # idle
      /\ \A g \in Fetchers : g # f => fetch'[g] = fetch[g]
  BY <1>1 DEF EngineInv, EngineTypeOK, fetching, idle
<1>4. EngineTypeOK'
  BY <1>1, <1>2 DEF EngineInv, EngineTypeOK
<1>a. fetch'[f].ih = ih /\ fetch'[f].todo = {}
  <2>1. fetching("acquire", ih, TRUE, {}).ih = ih /\ fetching("acquire", ih, TRUE, {}).todo = {}
    BY DEF fetching
  <2>. QED BY <1>3, <2>1
<1>5. TodoWhileEvicting'
  BY <1>3, <1>a DEF EngineInv, TodoWhileEvicting
<1>6. RefCountsExact'
  <2>1. fetch'[f].pc \notin ReadStates /\ fetch[f].pc \notin ReadStates
    <3>1. fetching("acquire", ih, TRUE, {}).pc = "acquire"
      BY DEF fetching
    <3>. QED BY <1>1, <1>3, <3>1, IdleFetch DEF ReadStates
  <2>. QED BY <1>1, <1>3, <2>1, SameReaders DEF EngineInv
<1>7. NoTorrentLeaks'
  <2>2. has(fetch'[f], ih) /\ \A g \in Fetchers, h \in Hashes : has(fetch[g], h) => has(fetch'[g], h)
    BY <1>1, <1>3, <1>a DEF has
  <2>. QED BY <1>1, <1>4, <2>2, StillWanted DEF EngineInv, EngineTypeOK
<1>. QED BY <1>4, <1>5, <1>6, <1>7 DEF EngineInv

(* Counting a reader.                                                      *)
LEMMA AcquireStep ==
    ASSUME EngineInv, NEW f \in Fetchers, Acquire(f)
    PROVE  EngineInv'
<1>1. fetch[f].pc = "acquire" /\ fetch[f] \in FetchState /\ fetch[f] # idle
  BY FetchTyped DEF EngineInv, Acquire
<1>2. PICK ih \in Hashes : ih = fetch[f].ih
  BY <1>1 DEF FetchState
<1>3. /\ fetch' = [fetch EXCEPT ![f].pc = "read"]
      /\ inUse' = [inUse EXCEPT ![ih] = inUse[ih] + 1]
      /\ UNCHANGED <<client, pinned, retained, seed, abandoned>>
  BY <1>2 DEF Acquire, acquire, seedVars
<1>4. /\ fetch'[f] = [fetch[f] EXCEPT !.pc = "read"] /\ fetch'[f] \in FetchState
      /\ fetch'[f].pc = "read" /\ fetch'[f].ih = ih /\ fetch'[f].todo = fetch[f].todo
      /\ \A g \in Fetchers : g # f => fetch'[g] = fetch[g]
  BY <1>2, <1>3, <1>1 DEF EngineInv, EngineTypeOK, FetchState
<1>5. fetch'[f] # idle
  BY <1>4, IdleFetch DEF ReadStates
<1>6. EngineTypeOK'
  BY SMT, <1>3, <1>4, <1>5 DEF EngineInv, EngineTypeOK
<1>7. TodoWhileEvicting'
  BY <1>3, <1>1, <1>4 DEF EngineInv, TodoWhileEvicting
<1>8. RefCountsExact'
  <2>1. f \notin Readers(ih) /\ Readers(ih)' = Readers(ih) \cup {f}
    BY <1>1, <1>4 DEF Readers
  <2>2. \A h \in Hashes : h # ih => Readers(h)' = Readers(h)
    BY <1>1, <1>4 DEF Readers
  <2>3. Cardinality(Readers(ih)') = Cardinality(Readers(ih)) + 1
    BY <2>1, ReadersFinite, FS_AddElement
  <2>4. /\ inUse'[ih] = Cardinality(Readers(ih)) + 1
        /\ \A h \in Hashes : h # ih => inUse'[h] = inUse[h]
    BY <1>3 DEF EngineInv, EngineTypeOK, RefCountsExact
  <2>5. ASSUME NEW h \in Hashes PROVE inUse'[h] = Cardinality(Readers(h)')
    <3>1. CASE h = ih
      BY <2>3, <2>4, <3>1
    <3>2. CASE h # ih
      BY <2>2, <2>4, <3>2 DEF EngineInv, RefCountsExact
    <3>. QED BY <3>1, <3>2
  <2>. QED BY <2>5 DEF RefCountsExact
<1>9. NoTorrentLeaks'
  <2>1. \A g \in Fetchers, h \in Hashes : has(fetch[g], h) => has(fetch'[g], h)
    BY <1>1, <1>2, <1>4, <1>5 DEF has
  <2>. QED BY <1>3, <1>6, <2>1, StillWanted DEF EngineInv, EngineTypeOK
<1>. QED BY <1>6, <1>7, <1>8, <1>9 DEF EngineInv

(* The steps of a reader that touch nothing the engine shares.             *)
LEMMA ReaderStep ==
    ASSUME EngineInv, NEW f \in Fetchers, Verified(f) \/ Failed(f) \/ EvictDone(f)
    PROVE  EngineInv'
<1>1. PICK pc \in {"retain", "release"} : fetch' = [fetch EXCEPT ![f].pc = pc]
  BY DEF Verified, Failed, EvictDone
<1>2. /\ UNCHANGED <<client, pinned, inUse, retained, seed, abandoned>>
      /\ fetch[f].pc \in {"read", "evict"}
      /\ fetch[f].pc = "evict" => fetch[f].todo = {}
  BY DEF Verified, Failed, EvictDone, engineVars, seedVars
<1>3. fetch[f] \in FetchState /\ fetch[f] # idle
  BY <1>2, FetchTyped DEF EngineInv
<1>4. /\ fetch'[f] \in FetchState
      /\ fetch'[f].pc = pc /\ fetch'[f].ih = fetch[f].ih /\ fetch'[f].todo = fetch[f].todo
      /\ \A g \in Fetchers : g # f => fetch'[g] = fetch[g]
  BY <1>1, <1>3 DEF EngineInv, EngineTypeOK, FetchState
<1>5. fetch'[f] # idle
  BY <1>4, IdleFetch DEF ReadStates
<1>6. EngineTypeOK'
  BY <1>1, <1>2, <1>4 DEF EngineInv, EngineTypeOK
<1>7. TodoWhileEvicting'
  BY <1>2, <1>3, <1>4 DEF EngineInv, TodoWhileEvicting
<1>8. RefCountsExact'
  <2>1. fetch[f].pc \in ReadStates /\ fetch'[f].pc \in ReadStates
    BY <1>2, <1>4 DEF ReadStates
  <2>. QED BY <1>2, <1>4, <2>1, SameReaders DEF EngineInv
<1>9. NoTorrentLeaks'
  <2>1. \A g \in Fetchers, h \in Hashes : has(fetch[g], h) => has(fetch'[g], h)
    BY <1>3, <1>4, <1>5 DEF has
  <2>. QED BY <1>2, <1>6, <2>1, StillWanted DEF EngineInv, EngineTypeOK
<1>. QED BY <1>6, <1>7, <1>8, <1>9 DEF EngineInv

(* Retaining a torrent, and choosing what to evict.                        *)
LEMMA RetainStep ==
    ASSUME EngineInv, NEW f \in Fetchers, retain(f)
    PROVE  EngineInv'
<1>. DEFINE queue == queueWith(fetch[f].ih)
            out   == evicted(queue)
<1>1. /\ fetch[f].pc = "retain"
      /\ retained' = SubSeq(queue, excess(queue) + 1, Len(queue))
      /\ pinned' = (pinned \cup {fetch[f].ih}) \ out
      /\ fetch' = [fetch EXCEPT ![f].pc = "evict", ![f].todo = unread(out)]
      /\ UNCHANGED <<client, inUse, seed, abandoned>>
  BY DEF retain, seedVars
<1>2. fetch[f] \in FetchState /\ fetch[f] # idle
  BY <1>1, FetchTyped DEF EngineInv
<1>3. queue \in Seq(Hashes)
  <2>1. retained \in Seq(Hashes)
    BY DEF EngineInv, EngineTypeOK
  <2>2. PICK ih \in Hashes : ih = fetch[f].ih
    BY <1>2 DEF FetchState
  <2>3. Append(retained, ih) \in Seq(Hashes)
    BY SMT, <2>1
  <2>. QED BY <2>1, <2>2, <2>3 DEF queueWith
<1>4. excess(queue) \in Nat /\ excess(queue) <= Len(queue)
  BY SMT, <1>3, EngineAssumption DEF excess
<1>5. out \subseteq Hashes
  BY SMT, <1>3, <1>4 DEF evicted
<1>6. retained' \in Seq(Hashes)
  BY SMT, <1>1, <1>3, <1>4
<1>. HIDE DEF queue, out
<1>7. /\ fetch'[f] = [fetch[f] EXCEPT !.pc = "evict", !.todo = unread(out)]
      /\ \A g \in Fetchers : g # f => fetch'[g] = fetch[g]
  BY <1>1 DEF EngineInv, EngineTypeOK
<1>8. unread(out) \subseteq Hashes
  BY <1>5 DEF unread
<1>9. /\ fetch'[f] \in FetchState /\ fetch'[f] # idle
      /\ fetch'[f].pc = "evict" /\ fetch'[f].ih = fetch[f].ih /\ fetch'[f].todo = unread(out)
  BY <1>2, <1>7, <1>8 DEF FetchState, idle
<1>10. EngineTypeOK'
  <2>1. fetch' \in [Fetchers -> FetchState \cup {idle}]
    BY <1>1, <1>7, <1>9 DEF EngineInv, EngineTypeOK
  <2>. QED BY <1>1, <1>2, <1>6, <2>1 DEF EngineInv, EngineTypeOK, FetchState
<1>11. TodoWhileEvicting'
  BY <1>7, <1>9 DEF EngineInv, TodoWhileEvicting
<1>12. RefCountsExact'
  <2>1. fetch[f].pc \in ReadStates /\ fetch'[f].pc \in ReadStates
    BY <1>1, <1>9 DEF ReadStates
  <2>. QED BY <1>1, <1>7, <1>9, <2>1, SameReaders DEF EngineInv
<1>13. NoTorrentLeaks'
  <2>1. fetch[f].todo = {}
    BY <1>1, <1>2 DEF EngineInv, TodoWhileEvicting
  <2>2. \A g \in Fetchers, h \in Hashes : has(fetch[g], h) => has(fetch'[g], h)
    BY <1>2, <1>7, <1>9, <2>1 DEF has
  <2>3. ASSUME NEW h \in Hashes, h \in pinned, h \notin pinned'
        PROVE  \E k \in Fetchers : has(fetch'[k], h)
    <3>1. h \in out
      BY <1>1, <2>3
    <3>2. CASE inUse[h] = 0
      <4>1. h \in fetch'[f].todo
        BY <1>9, <3>1, <3>2 DEF unread
      <4>. QED BY <1>9, <4>1 DEF has
    <3>3. CASE inUse[h] # 0
      <4>1. Readers(h) # {}
        BY <3>3, FS_EmptySet DEF EngineInv, RefCountsExact
      <4>2. PICK g \in Fetchers : fetch[g].pc # "idle" /\ fetch[g].ih = h
        BY <4>1 DEF Readers
      <4>3. has(fetch[g], h)
        BY SMT, <4>2 DEF has, idle
      <4>. QED BY <2>2, <4>3
    <3>. QED BY <3>2, <3>3
  <2>. QED BY <1>1, <1>10, <2>2, <2>3, StillWanted DEF EngineInv, EngineTypeOK
<1>. QED BY <1>10, <1>11, <1>12, <1>13 DEF EngineInv

(* The client drops a torrent: handles to it close, nothing else changes.  *)
LEMMA DropStep ==
    ASSUME EngineInv, NEW f \in Fetchers, NEW ih \in Hashes,
           NEW next \in FetchState \cup {idle}, drop(ih, f, next),
           fetch[f].pc # "idle", fetch[f].todo \subseteq Hashes,
           next = idle => fetch[f].pc = "drop" /\ fetch[f].ih = ih,
           next # idle => /\ next.pc = "evict" /\ fetch[f].pc = "evict" /\ next.ih = fetch[f].ih
                          /\ next.todo = fetch[f].todo \ {ih}
    PROVE  EngineInv'
<1>1. /\ client' = client \ {ih}
      /\ UNCHANGED <<pinned, inUse, retained, seed, abandoned>>
      /\ fetch' = [g \in Fetchers |->
                     IF g = f THEN next
                     ELSE IF fetch[g] # idle /\ fetch[g].ih = ih
                       THEN [fetch[g] EXCEPT !.alive = FALSE]
                       ELSE fetch[g]]
  BY DEF drop, engineVars, seedVars
<1>2. fetch[f] \in FetchState /\ fetch[f] # idle
  BY FetchTyped DEF EngineInv
<1>3. ASSUME NEW g \in Fetchers, g # f
      PROVE  /\ fetch'[g] \in FetchState \cup {idle}
             /\ fetch'[g].pc = fetch[g].pc
             /\ fetch[g] = idle => fetch'[g] = idle
             /\ fetch[g] # idle => /\ fetch'[g] # idle /\ fetch'[g].ih = fetch[g].ih
                                  /\ fetch'[g].todo = fetch[g].todo
  <2>1. fetch[g] \in FetchState \cup {idle}
    BY DEF EngineInv, EngineTypeOK
  <2>2. CASE fetch[g] # idle /\ fetch[g].ih = ih
    <3>1. fetch'[g] = [fetch[g] EXCEPT !.alive = FALSE] /\ fetch[g] \in FetchState
      BY <1>1, <1>3, <2>1, <2>2
    <3>2. fetch'[g] \in FetchState /\ fetch'[g].pc = fetch[g].pc
          /\ fetch'[g].ih = fetch[g].ih /\ fetch'[g].todo = fetch[g].todo
      BY <3>1 DEF FetchState
    <3>3. fetch'[g] # idle
      BY SMT, <3>2 DEF FetchState, idle
    <3>. QED BY <2>2, <3>2, <3>3
  <2>3. CASE ~(fetch[g] # idle /\ fetch[g].ih = ih)
    <3>1. fetch'[g] = fetch[g]
      BY <1>1, <1>3, <2>3
    <3>. QED BY <2>1, <3>1
  <2>. QED BY <2>2, <2>3
<1>4. fetch'[f] = next
  BY <1>1
<1>5. EngineTypeOK'
  <2>1. fetch' \in [Fetchers -> FetchState \cup {idle}]
    <3>1. \A g \in Fetchers : fetch'[g] \in FetchState \cup {idle}
      BY <1>3, <1>4
    <3>2. fetch' = [g \in Fetchers |-> fetch'[g]]
      BY <1>1
    <3>. QED BY <3>1, <3>2
  <2>. QED BY <1>1, <2>1 DEF EngineInv, EngineTypeOK
<1>6. TodoWhileEvicting'
  BY <1>3, <1>4 DEF EngineInv, TodoWhileEvicting
<1>7. RefCountsExact'
  <2>1. fetch[f].pc \in ReadStates <=> next # idle
    BY <1>2 DEF ReadStates, idle
  <2>2. next.pc \in ReadStates <=> next # idle
    BY SMT DEF ReadStates, idle
  <2>3. \A g \in Fetchers : fetch[g].pc \in ReadStates => fetch[g] # idle
    BY SMT DEF ReadStates, idle
  <2>4. \A g \in Fetchers : fetch'[g].pc \in ReadStates <=> fetch[g].pc \in ReadStates
    BY <1>3, <1>4, <2>1, <2>2
  <2>5. \A g \in Fetchers : fetch[g].pc \in ReadStates => fetch'[g].ih = fetch[g].ih
    BY <1>3, <1>4, <2>1, <2>3
  <2>. QED BY <1>1, <2>4, <2>5, SameReaders DEF EngineInv
<1>8. NoTorrentLeaks'
  <2>1. ASSUME NEW h \in client', NEW g \in Fetchers, has(fetch[g], h)
        PROVE  has(fetch'[g], h)
    <3>1. CASE g # f
      BY <1>3, <2>1, <3>1 DEF has
    <3>2. CASE g = f
      <4>1. h # ih
        BY <1>1
      <4>2. next # idle
        <5>1. fetch[f].pc = "drop" => fetch[f].todo = {}
          BY <1>2 DEF EngineInv, TodoWhileEvicting
        <5>. QED BY <2>1, <3>2, <4>1, <5>1 DEF has
      <4>. QED BY <1>4, <2>1, <3>2, <4>1, <4>2 DEF has
    <3>. QED BY <3>1, <3>2
  <2>. QED BY <1>1, <2>1, StillWanted DEF EngineInv
<1>. QED BY <1>5, <1>6, <1>7, <1>8 DEF EngineInv

(* What retain evicted without readers, and what release found unread.     *)
LEMMA DropsStep ==
    ASSUME EngineInv, NEW f \in Fetchers, DropEvicted(f) \/ DropReleased(f)
    PROVE  EngineInv'
<1>1. fetch[f].pc \in {"evict", "drop"} /\ fetch[f] \in FetchState
  BY FetchTyped DEF DropEvicted, DropReleased, EngineInv
<1>2. fetch[f].todo \subseteq Hashes /\ fetch[f].ih \in Hashes
  BY <1>1 DEF FetchState
<1>3. CASE DropReleased(f)
  BY <1>1, <1>2, <1>3, DropStep DEF DropReleased
<1>4. CASE DropEvicted(f)
  <2>1. PICK ih \in fetch[f].todo :
           drop(ih, f, [fetch[f] EXCEPT !.todo = fetch[f].todo \ {ih},
                                        !.alive = fetch[f].alive /\ ih # fetch[f].ih])
    BY <1>4 DEF DropEvicted
  <2>. DEFINE next == [fetch[f] EXCEPT !.todo = fetch[f].todo \ {ih},
                                       !.alive = fetch[f].alive /\ ih # fetch[f].ih]
  <2>2. fetch[f].pc = "evict"
    BY <1>4 DEF DropEvicted
  <2>3. /\ next \in FetchState /\ next.pc = "evict" /\ next.ih = fetch[f].ih
        /\ next.todo = fetch[f].todo \ {ih}
    BY <1>1, <1>2, <2>2 DEF FetchState
  <2>4. next # idle
    BY <2>3 DEF idle
  <2>. HIDE DEF next
  <2>. QED BY <1>2, <2>1, <2>2, <2>3, <2>4, DropStep DEF next
<1>. QED BY <1>3, <1>4

(* A reader that ends: the last one of a torrent that is not pinned drops  *)
(* it, any other leaves it to the rest.                                    *)
LEMMA ReleaseStep ==
    ASSUME EngineInv, NEW f \in Fetchers, release(f)
    PROVE  EngineInv'
<1>1. fetch[f].pc = "release" /\ fetch[f] \in FetchState /\ fetch[f] # idle
  BY FetchTyped DEF EngineInv, release
<1>2. PICK ih \in Hashes : ih = fetch[f].ih
  BY <1>1 DEF FetchState
<1>3. PICK left : left = readersLeft(ih)
  OBVIOUS
<1>4. PICK next : next = IF left = 0 /\ ih \notin pinned THEN [fetch[f] EXCEPT !.pc = "drop"] ELSE idle
  OBVIOUS
<1>5. /\ inUse' = [inUse EXCEPT ![ih] = left]
      /\ fetch' = [fetch EXCEPT ![f] = next]
      /\ UNCHANGED <<client, pinned, retained, seed, abandoned>>
  BY <1>2, <1>3, <1>4 DEF release, seedVars
<1>6. /\ next \in FetchState \cup {idle} /\ next.pc \in {"drop", "idle"}
      /\ next # idle => next.ih = ih /\ next.todo = fetch[f].todo
      /\ next = idle <=> ~(left = 0 /\ ih \notin pinned)
  BY <1>1, <1>2, <1>4 DEF FetchState, idle
<1>7. /\ fetch'[f] = next
      /\ \A g \in Fetchers : g # f => fetch'[g] = fetch[g]
  BY <1>5 DEF EngineInv, EngineTypeOK
<1>8. fetch[f].todo = {}
  BY <1>1 DEF EngineInv, TodoWhileEvicting
<1>9. f \in Readers(ih) /\ Readers(ih)' = Readers(ih) \ {f}
  BY <1>1, <1>2, <1>6, <1>7 DEF Readers
<1>10. /\ IsFiniteSet(Readers(ih)) /\ Cardinality(Readers(ih)) \in Nat
       /\ Cardinality(Readers(ih) \ {f}) = Cardinality(Readers(ih)) - 1
       /\ Cardinality(Readers(ih) \ {f}) \in Nat
  <2>1. IsFiniteSet(Readers(ih)) /\ Cardinality(Readers(ih)) \in Nat
    BY ReadersFinite
  <2>2. IsFiniteSet(Readers(ih) \ {f}) /\ Cardinality(Readers(ih) \ {f}) = Cardinality(Readers(ih)) - 1
    BY <1>9, <2>1, FS_RemoveElement
  <2>. QED BY <2>1, <2>2, FS_CardinalityType
<1>11. left = Cardinality(Readers(ih) \ {f}) /\ left \in Nat
  <2>1. inUse[ih] = Cardinality(Readers(ih))
    BY DEF EngineInv, RefCountsExact
  <2>. QED BY SMT, <1>3, <1>10, <2>1 DEF readersLeft
<1>12. EngineTypeOK'
  BY <1>5, <1>6, <1>11 DEF EngineInv, EngineTypeOK
<1>13. TodoWhileEvicting'
  BY <1>6, <1>7, <1>8 DEF EngineInv, TodoWhileEvicting
<1>14. RefCountsExact'
  <2>1. \A h \in Hashes : h # ih => Readers(h)' = Readers(h)
    BY <1>1, <1>2, <1>6, <1>7 DEF Readers
  <2>2. inUse'[ih] = left /\ \A h \in Hashes : h # ih => inUse'[h] = inUse[h]
    BY <1>5 DEF EngineInv, EngineTypeOK
  <2>3. ASSUME NEW h \in Hashes PROVE inUse'[h] = Cardinality(Readers(h)')
    <3>1. CASE h = ih
      BY <1>9, <1>11, <2>2, <3>1
    <3>2. CASE h # ih
      BY <2>1, <2>2, <3>2 DEF EngineInv, RefCountsExact
    <3>. QED BY <3>1, <3>2
  <2>. QED BY <2>3 DEF RefCountsExact
<1>15. NoTorrentLeaks'
  <2>1. ASSUME NEW h \in client' \ pinned', NEW g \in Fetchers, has(fetch[g], h)
        PROVE  \E k \in Fetchers : has(fetch'[k], h)
    <3>1. CASE g # f
      BY <1>7, <2>1, <3>1
    <3>2. CASE g = f
      <4>1. h = ih
        BY <1>2, <1>8, <2>1, <3>2 DEF has
      <4>2. CASE next # idle
        BY <1>6, <1>7, <4>1, <4>2 DEF has
      <4>3. CASE next = idle
        <5>1. left # 0
          BY <1>5, <1>6, <2>1, <4>1, <4>3
        <5>2. Readers(ih) \ {f} # {}
          BY <1>11, <5>1, FS_EmptySet
        <5>3. PICK k \in Fetchers : k # f /\ fetch[k].pc # "idle" /\ fetch[k].ih = ih
          BY <5>2 DEF Readers
        <5>4. has(fetch'[k], h)
          BY SMT, <1>7, <4>1, <5>3 DEF has, idle
        <5>. QED BY <5>4
      <4>. QED BY <4>2, <4>3
    <3>. QED BY <3>1, <3>2
  <2>. QED BY <1>5, <2>1, StillWanted DEF EngineInv
<1>. QED BY <1>12, <1>13, <1>14, <1>15 DEF EngineInv

(* SeedFile, its end and its failure.                                      *)
LEMMA SeedStep ==
    ASSUME EngineInv, NEW s \in Seeders, SeedNext(s)
    PROVE  EngineInv'
<1>1. UNCHANGED <<inUse, retained, fetch>>
  BY DEF SeedNext, SeedTorrent, pin, SeedFails, engineVars
<1>2. TodoWhileEvicting' /\ RefCountsExact'
  <2>1. TodoWhileEvicting'
    BY <1>1 DEF EngineInv, TodoWhileEvicting
  <2>. QED BY <1>1, <2>1, SameReaders DEF EngineInv
<1>3. ASSUME NEW ih \in Hashes, SeedTorrent(s, ih)
      PROVE  EngineTypeOK' /\ NoTorrentLeaks'
  <2>1. /\ client' = client \cup {ih} /\ UNCHANGED <<pinned, abandoned>> /\ seed[s] = idle
        /\ seed' = [seed EXCEPT ![s] = [pc |-> "pin", ih |-> ih]]
    BY <1>3 DEF SeedTorrent, engineVars
  <2>2. /\ seed'[s] = [pc |-> "pin", ih |-> ih]
        /\ \A t \in Seeders : t # s => seed'[t] = seed[t]
    BY <2>1 DEF EngineInv, EngineTypeOK
  <2>3. seed'[s] # idle /\ seed'[s].ih = ih
    BY SMT, <2>2 DEF idle
  <2>4. EngineTypeOK'
    BY <1>1, <2>1 DEF EngineInv, EngineTypeOK
  <2>5. NoTorrentLeaks'
    BY <1>1, <2>1, <2>2, <2>3, StillWanted DEF EngineInv
  <2>. QED BY <2>4, <2>5
<1>4. ASSUME pin(s) \/ SeedFails(s)
      PROVE  EngineTypeOK' /\ NoTorrentLeaks'
  <2>1. /\ client' = client /\ abandoned \subseteq abandoned' /\ pinned \subseteq pinned'
        /\ pinned' \subseteq pinned \cup {seed[s].ih}
        /\ seed[s].ih \in pinned' \cup abandoned'
        /\ seed[s].pc = "pin" /\ seed' = [seed EXCEPT ![s] = idle]
    BY <1>4 DEF pin, SeedFails, engineVars
  <2>2. seed[s].ih \in Hashes
    <3>1. seed[s] \in [pc : {"pin"}, ih : Hashes] \cup {idle}
      BY DEF EngineInv, EngineTypeOK
    <3>2. idle.pc # "pin"
      BY DEF idle
    <3>3. seed[s] \in [pc : {"pin"}, ih : Hashes]
      BY <2>1, <3>1, <3>2
    <3>. QED BY <3>3
  <2>3. \A t \in Seeders : t # s => seed'[t] = seed[t]
    BY <2>1 DEF EngineInv, EngineTypeOK
  <2>4. EngineTypeOK'
    BY <1>1, <2>1, <2>2 DEF EngineInv, EngineTypeOK
  <2>5. NoTorrentLeaks'
    BY <1>1, <2>1, <2>3, StillWanted DEF EngineInv
  <2>. QED BY <2>4, <2>5
<1>. QED BY <1>2, <1>3, <1>4 DEF EngineInv, SeedNext

(* The engine's invariant holds of every behaviour.                        *)
LEMMA EngineInvariant == Spec => []EngineInv
<1>1. Init => EngineInv
  <2>. SUFFICES ASSUME Init PROVE EngineInv
    OBVIOUS
  <2>1. EngineTypeOK
    BY SMT DEF Init, EngineTypeOK
  <2>2. TodoWhileEvicting /\ NoTorrentLeaks
    BY DEF Init, TodoWhileEvicting, NoTorrentLeaks
  <2>3. \A ih \in Hashes : Readers(ih) = {}
    BY DEF Init, Readers, idle
  <2>4. RefCountsExact
    BY <2>3, FS_EmptySet DEF Init, RefCountsExact
  <2>. QED BY <2>1, <2>2, <2>4 DEF EngineInv
<1>2. EngineInv /\ UNCHANGED vars => EngineInv'
  <2>. SUFFICES ASSUME EngineInv, UNCHANGED vars PROVE EngineInv'
    OBVIOUS
  <2>1. UNCHANGED <<client, pinned, inUse, retained, fetch, seed, abandoned>>
    BY DEF vars, engineVars, seedVars
  <2>2. EngineTypeOK' /\ TodoWhileEvicting'
    BY <2>1 DEF EngineInv, EngineTypeOK, TodoWhileEvicting
  <2>3. RefCountsExact'
    BY <2>1 DEF EngineInv, RefCountsExact, Readers
  <2>4. NoTorrentLeaks'
    BY <2>1 DEF EngineInv, NoTorrentLeaks
  <2>. QED BY <2>2, <2>3, <2>4 DEF EngineInv
<1>3. EngineInv /\ Next => EngineInv'
  BY AddTorrentStep, AcquireStep, ReaderStep, RetainStep, DropsStep, ReleaseStep, SeedStep
     DEF Next, FetchNext
<1>. QED BY <1>1, <1>2, <1>3, PTL DEF Spec

(* acquire and release: a torrent's reference count is the number of its   *)
(* readers, on every path through Fetch.                                   *)
THEOREM ReferencesAreCounted == Spec => []RefCountsExact
BY EngineInvariant, PTL DEF EngineInv

(* retain, release and pin: every torrent of the client is pinned, or some *)
(* call under way will drop or pin it, or a failed SeedFile added it.      *)
THEOREM NothingLeaks == Spec => []NoTorrentLeaks
BY EngineInvariant, PTL DEF EngineInv
=============================================================================
