-------------------------- MODULE MCResourceGateway --------------------------
(***************************************************************************)
(* An instance of ResourceGateway and of FetchClient for TLC, the handlers *)
(* or the command that downloads from them.                                *)
(***************************************************************************)
EXTENDS ResourceGateway, FetchClient, TLC

CONSTANTS r1, r2

VARIABLE part

ref(sound, declared, detected) ==
    [sound |-> sound, declared |-> declared, detected |-> detected]

mediaTypes == {"", "image/png", "text/html", "text/html; charset=utf-8", "application/json",
               "application/octet-stream"}
baseTypes == [t \in mediaTypes |-> IF t = "text/html; charset=utf-8" THEN "text/html" ELSE t]

(* Text that is declared as text or as an image, and a record that is not  *)
(* sound.                                                                  *)
refs == {ref(TRUE, "application/json", "text/html; charset=utf-8"),
         ref(TRUE, "image/png", "text/html"), ref(FALSE, "", "image/png")}

(* Two resolvers, two files.  A letter of an owner may seem to be one of   *)
(* the public key, and so on; one of the records spells the digest in      *)
(* another way than this program.                                          *)
strings == {<< >>, <<1>>, <<1, 1>>}
digests == "f1" :> 1 @@ "f2" :> 2
spelling == 1 :> <<1>> @@ 2 :> <<1, 1>>
answerOf(id, file, owner, pubKey, sha) ==
    [resolver |-> id, body |-> file,
     header |-> [owner |-> owner, pubKey |-> pubKey, infoHash |-> <<1>>, sha |-> sha,
                 contentType |-> << >>, zkProof |-> <<1>>]]
answers == {answerOf("R1", "f1", <<1>>, <<1, 1>>, <<1>>), answerOf("R2", "f2", << >>, <<1>>, <<1, 1>>),
            answerOf("R1", "f1", <<1>>, <<1>>, << >>)}

-----------------------------------------------------------------------------
(* Until the command runs there is no answer yet.                          *)
NoDownload == answer = << >> /\ got = << >> /\ client = "failed"

MCInit ==
    /\ part \in {"handlers", "fetch"}
    /\ Init
    /\ IF part = "fetch" THEN FetchInit ELSE NoDownload

MCNext ==
    /\ UNCHANGED part
    /\ \/ part = "handlers" /\ Next /\ UNCHANGED fetchVars
       \/ part = "fetch" /\ FetchNext /\ UNCHANGED vars

MCSpec == MCInit /\ [][MCNext]_<<part, vars, fetchVars>> /\ Fairness
=============================================================================
