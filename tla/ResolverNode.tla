---------------------------- MODULE ResolverNode ----------------------------
(***************************************************************************)
(* The resolver as a process on a machine (resolver/cmd/resolver, Server   *)
(* in internal/server, Identity in internal/pki): it boots, serves, stops  *)
(* or crashes at any point, and boots again from what is on the disk, its  *)
(* keystore and the files uploaded to it.  A file that is being written is *)
(* torn until it is whole.  An operator announces the identity that the    *)
(* resolver shows (ddns announce-resolver).                                *)
(***************************************************************************)
EXTENDS Naturals

CONSTANTS
    Uploads,        \* names of uploaded files; no two publications share one
    Publishers,     \* the handlers of /showcase/api/publish
    Torn, Absent,   \* contents of a file
    MaxKeys         \* bound of the model: identities drawn

VARIABLES
    keystore,       \* the keystore file: an identity, Torn or Absent
    uploads,        \* the files of the directory uploads: "whole" or Torn, or Absent
    phase,          \* where the process is: "down", in a phase of the boot, "up" or "stopping"
    identity,       \* its identity
    seeds,          \* what its engine seeds: files and their contents
    todo,           \* the uploads that it still has to seed again
    skipped,        \* those that it failed to seed again
    stage, file,    \* publisher -> where it is, and the file it publishes
    announcing,     \* the identity that the operator has read and not yet announced
    drawn,          \* identities drawn so far; the n-th one is n
    known,          \* history: the identities signed with or announced
    acked           \* history: the uploads that were answered with success

disk == <<keystore, uploads>>
engine == <<seeds, todo, skipped>>
handlers == <<stage, file, acked>>
seen == <<announcing, known>>
nodeVars == <<disk, phase, identity, engine, handlers, drawn, seen>>

ASSUME NodeAssumption ==
    /\ Torn # Absent
    /\ {Torn, Absent} \cap (Nat \cup {"whole"}) = {}
    /\ MaxKeys \in Nat

NodeInit ==
    /\ keystore = Absent
    /\ uploads = [f \in Uploads |-> Absent]
    /\ phase = "down"
    /\ identity = Absent
    /\ seeds = {} /\ todo = {} /\ skipped = {}
    /\ stage = [p \in Publishers |-> "idle"]
    /\ file = [p \in Publishers |-> Absent]
    /\ announcing = Absent
    /\ drawn = 0
    /\ known = {} /\ acked = {}

-----------------------------------------------------------------------------
(* The boot: main and New.                                                 *)
Start ==
    /\ phase = "down"
    /\ phase' = "config"
    /\ UNCHANGED <<disk, identity, engine, handlers, drawn, seen>>

(* The keystore holds an identity.                                         *)
LoadIdentity ==
    /\ phase = "config"
    /\ keystore \notin {Torn, Absent}
    /\ identity' = keystore
    /\ phase' = "engine"
    /\ UNCHANGED <<disk, engine, handlers, drawn, seen>>

(* There is none: a new one is drawn, and its file created.                *)
CreateIdentity ==
    /\ phase = "config"
    /\ keystore = Absent
    /\ drawn < MaxKeys
    /\ drawn' = drawn + 1
    /\ identity' = drawn'
    /\ keystore' = Torn
    /\ phase' = "creating"
    /\ UNCHANGED <<uploads, engine, handlers, seen>>

(* Faulty variant: the identity is used whether or not it could be kept.   *)
UseIdentity ==
    /\ phase = "creating"
    /\ keystore' \in {identity, Absent}
    /\ phase' = "engine"
    /\ UNCHANGED <<uploads, identity, engine, handlers, drawn, seen>>

PersistIdentity ==
    /\ phase = "creating"
    /\ keystore' = identity
    /\ phase' = "engine"
    /\ UNCHANGED <<uploads, identity, engine, handlers, drawn, seen>>

(* Faulty variant: only what is uploaded in this run is seeded.            *)
noFiles == {}

uploadedFiles == {f \in Uploads : uploads[f] # Absent}

(* The BitTorrent engine starts empty, and autoSeedUploads lists the files.*)
StartEngine ==
    /\ phase = "engine"
    /\ phase' = "reseeding"
    /\ todo' = uploadedFiles
    /\ UNCHANGED <<disk, identity, seeds, skipped, handlers, drawn, seen>>

(* A file that SeedFile fails on is passed over.                           *)
autoSeedUploads(f) ==
    /\ phase = "reseeding"
    /\ f \in todo
    /\ todo' = todo \ {f}
    /\ \/ seeds' = seeds \cup {<<f, uploads[f]>>} /\ UNCHANGED skipped
       \/ skipped' = skipped \cup {f} /\ UNCHANGED seeds
    /\ UNCHANGED <<disk, phase, identity, handlers, drawn, seen>>

Run ==
    /\ phase = "reseeding" /\ todo = {}
    /\ phase' = "up"
    /\ UNCHANGED <<disk, identity, engine, handlers, drawn, seen>>

(* The signal to stop: the listeners are closed, handlers go on.           *)
Shutdown ==
    /\ phase = "up"
    /\ phase' = "stopping"
    /\ UNCHANGED <<disk, identity, engine, handlers, drawn, seen>>

(* An error at any point of the boot, such as a keystore that cannot be    *)
(* decoded; a crash; or the end of a shutdown, which waits for handlers    *)
(* for five seconds at most.  What is on the disk stays.                   *)
Ends ==
    /\ phase # "down"
    /\ phase' = "down"
    /\ identity' = Absent
    /\ seeds' = {} /\ todo' = {} /\ skipped' = {}
    /\ stage' = [p \in Publishers |-> "idle"]
    /\ UNCHANGED <<disk, file, acked, drawn, seen>>

-----------------------------------------------------------------------------
(* The handlers.                                                           *)

(* An answer, signed.                                                      *)
Sign ==
    /\ phase \in {"up", "stopping"}
    /\ known' = known \cup {identity}
    /\ UNCHANGED <<disk, phase, identity, engine, handlers, drawn, announcing>>

handleShowcasePublish(p, f) ==
    /\ phase = "up"
    /\ stage[p] = "idle"
    /\ uploads[f] = Absent
    /\ uploads' = [uploads EXCEPT ![f] = Torn]
    /\ stage' = [stage EXCEPT ![p] = "writing"]
    /\ file' = [file EXCEPT ![p] = f]
    /\ UNCHANGED <<keystore, phase, identity, engine, acked, drawn, seen>>

(* The file is written, or what there is of it stays.                      *)
WriteUpload(p) ==
    /\ stage[p] = "writing"
    /\ \/ /\ uploads' = [uploads EXCEPT ![file[p]] = "whole"]
          /\ stage' = [stage EXCEPT ![p] = "seeding"]
       \/ stage' = [stage EXCEPT ![p] = "idle"] /\ UNCHANGED uploads
    /\ UNCHANGED <<keystore, phase, identity, engine, file, acked, drawn, seen>>

(* SeedFile returned: success is answered, or an error, and the file stays.*)
SeedUpload(p) ==
    /\ stage[p] = "seeding"
    /\ stage' = [stage EXCEPT ![p] = "idle"]
    /\ \/ /\ seeds' = seeds \cup {<<file[p], uploads[file[p]]>>}
          /\ acked' = acked \cup {file[p]}
       \/ UNCHANGED <<seeds, acked>>
    /\ UNCHANGED <<disk, phase, identity, todo, skipped, file, drawn, seen>>

-----------------------------------------------------------------------------
(* ddns announce-resolver reads the identity from /admin/stats...          *)
fetchResolverPubKey ==
    /\ phase = "up"
    /\ announcing = Absent
    /\ announcing' = identity
    /\ UNCHANGED <<disk, phase, identity, engine, handlers, drawn, known>>

(* ... and the transaction is mined later, or the command fails.           *)
cmdAnnounceResolver ==
    /\ announcing # Absent
    /\ announcing' = Absent
    /\ known' \in {known, known \cup {announcing}}
    /\ UNCHANGED <<disk, phase, identity, engine, handlers, drawn>>

NodeNext ==
    \/ Start \/ LoadIdentity \/ CreateIdentity \/ PersistIdentity \/ StartEngine \/ Run
    \/ \E f \in Uploads : autoSeedUploads(f)
    \/ Shutdown \/ Ends \/ Sign
    \/ \E p \in Publishers, f \in Uploads : handleShowcasePublish(p, f)
    \/ \E p \in Publishers : WriteUpload(p) \/ SeedUpload(p)
    \/ fetchResolverPubKey \/ cmdAnnounceResolver

NodeSpec == NodeInit /\ [][NodeNext]_nodeVars

-----------------------------------------------------------------------------
(* Properties.                                                             *)

(* The resolver keeps its identity: through any sequence of crashes, also  *)
(* during the first boot, every key that clients have seen an answer       *)
(* signed with, or that the registry lists for the endpoint, is the one    *)
(* that it signs with whenever it runs.                                    *)
IdentityKept == phase \in {"up", "stopping"} => known \subseteq {identity}

(* Uploads survive: whenever the resolver serves, it seeds, in full, every *)
(* file whose publication it has ever answered with success, except those  *)
(* that it failed to seed again in this very boot.                         *)
UploadsReturn == phase = "up" => \A f \in acked \ skipped : <<f, "whole">> \in seeds
=============================================================================
