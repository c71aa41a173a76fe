----------------------------- MODULE FetchClient -----------------------------
(***************************************************************************)
(* ddns-fetch (resolver/cmd/ddns-fetch) and the answer of /resource it     *)
(* downloads: the resolver signs a manifest of the body and of all that    *)
(* the headers say (resolver/internal/pki/resource.go), and the command    *)
(* writes the file only if all of it arrived as it was signed.  On the way *)
(* any header and the body may change.  A string is a sequence of letters, *)
(* numbered from 1; a file stands for its bytes.                           *)
(***************************************************************************)
EXTENDS Naturals, Sequences

CONSTANTS
    Resolvers,      \* the identities that sign
    Strings,        \* what headers may say
    Files,          \* what may arrive as the body
    sha256,         \* file -> its digest, a letter; different files differ
    hexOf,          \* digest -> as this program spells it
    Served          \* the answers resolvers give: who, the headers and the body

VARIABLES
    answer,         \* the answer that was sent, the signature included
    got,            \* the answer as it arrived
    client          \* where ddns-fetch is: "get", "check", "write", "done" or "failed"

fetchVars == <<answer, got, client>>

(* The headers that the signature covers, but for the verdict on the       *)
(* owner's signature.                                                      *)
Headers == {"owner", "pubKey", "infoHash", "sha", "contentType", "zkProof"}

ASSUME FetchAssumption ==
    /\ Strings \subseteq Seq(Nat)
    /\ sha256 \in [Files -> Nat] /\ \A f, g \in Files : sha256[f] = sha256[g] => f = g
    /\ Served \subseteq [resolver : Resolvers, header : [Headers -> Strings], body : Files]

-----------------------------------------------------------------------------
(* Faulty variant: the strings are put one after the other.                *)
plainStr(s) == s

(* The length, in a fixed number of bytes, and the string.                 *)
writeStr(s) == <<Len(s)>> \o s

(* The verdict is one byte, and the digest of the body ends the manifest.  *)
ResourceManifest(header, ownerVerified, body) ==
    writeStr(header["owner"]) \o writeStr(header["pubKey"]) \o writeStr(header["infoHash"])
      \o writeStr(header["sha"]) \o writeStr(header["contentType"])
      \o <<IF ownerVerified THEN 1 ELSE 0>> \o writeStr(header["zkProof"]) \o <<sha256[body]>>

(* The signature of a resolver on an answer that it gives: only what it    *)
(* has verified.                                                           *)
signatureOf(s) == [key |-> s.resolver, manifest |-> ResourceManifest(s.header, TRUE, s.body)]

VerifyResourceSignature(a) ==
    a.signature = [key |-> a.resolver,
                   manifest |-> ResourceManifest(a.header, a.ownerVerified, a.body)]

respond(s) ==
    [resolver |-> s.resolver, header |-> s.header, ownerVerified |-> TRUE, body |-> s.body,
     signature |-> signatureOf(s)]

FetchInit ==
    /\ answer \in {respond(s) : s \in Served}
    /\ got = answer
    /\ client = "get"

(* Every header and the body may change on the way, and the signature be   *)
(* that of any answer that was given.                                      *)
Arrives ==
    /\ client = "get"
    /\ got' \in [resolver : Resolvers, header : [Headers -> Strings], ownerVerified : BOOLEAN,
                 body : Files, signature : {signatureOf(s) : s \in Served}]
    /\ client' = "check"
    /\ UNCHANGED answer

(* No answer, one that is cut off, or one with another status than 200.    *)
NoAnswer ==
    /\ client = "get"
    /\ client' = "failed"
    /\ UNCHANGED <<answer, got>>

(* The checks before the file is written.  A type that the bytes do not    *)
(* look like only gives a warning.                                         *)
verified(a) ==
    /\ hexOf[sha256[a.body]] = a.header["sha"]
    /\ VerifyResourceSignature(a)
    /\ a.ownerVerified

Check ==
    /\ client = "check"
    /\ client' = IF verified(got) THEN "write" ELSE "failed"
    /\ UNCHANGED <<answer, got>>

(* WriteFile succeeds or fails.                                            *)
WriteFile ==
    /\ client = "write"
    /\ client' \in {"done", "failed"}
    /\ UNCHANGED <<answer, got>>

(* The next download.                                                      *)
Again ==
    /\ client \in {"done", "failed"}
    /\ answer' \in {respond(s) : s \in Served}
    /\ got' = answer'
    /\ client' = "get"

FetchNext == Arrives \/ NoAnswer \/ Check \/ WriteFile \/ Again

FetchSpec == FetchInit /\ [][FetchNext]_fetchVars

-----------------------------------------------------------------------------
(* Properties.                                                             *)

(* The comment on handleResource: nobody between the two can rewrite what  *)
(* the headers say.  A file that ddns-fetch keeps is one that the resolver *)
(* it names served, with these very headers: no part of one header can     *)
(* have become a part of the next one, and no body that of another.        *)
KeptAsServed ==
    client = "done" =>
        \E s \in Served :
            s.resolver = got.resolver /\ s.header = got.header /\ s.body = got.body
=============================================================================
