--------------------------- MODULE ResourceGateway ---------------------------
(***************************************************************************)
(* The handlers that serve the files behind ResourceRef records:           *)
(* /resource (resolver/internal/server/resource.go) and /web (web.go), and *)
(* the pipeline they share.  Requests run concurrently and contend for the *)
(* fetch slots; what HandleQuery answers may change between their steps.   *)
(* A slot of Requests is a connection: it serves one request after another.*)
(***************************************************************************)
EXTENDS ContentType, Sequences, FiniteSets

CONSTANTS
    Requests,
    Selectors,          \* canonical selectors
    HTTP, NoSelector,   \* "service=HTTP" and "", two of them
    BadQuery,           \* a name or selector that package query rejects
    Refs,               \* what HandleQuery may find: the fields named below
    NoRef,              \* and when it finds nothing
    maxConcurrentResourceFetches,
    enforceType

(* A record found is sound, with a valid owner signature and the fields it *)
(* needs, or not; it declares a type, and the file it anchors looks like   *)
(* one.                                                                    *)
ASSUME GatewayAssumption ==
    /\ IsFiniteSet(Requests)
    /\ {HTTP, NoSelector} \subseteq Selectors /\ HTTP # NoSelector /\ BadQuery \notin Selectors
    /\ NoRef \notin Refs
    /\ \A ref \in Refs : DOMAIN ref = {"sound", "declared", "detected"}
    /\ maxConcurrentResourceFetches \in Nat \ {0}
    /\ enforceType \in BOOLEAN

VARIABLES
    view,       \* selector -> what HandleQuery answers for the name
    req,        \* the requests
    slots,      \* the length of the channel resourceSem
    noHTTP      \* history: request -> it may fall back, and HTTP had no record at
                \* some time since it began

vars == <<view, req, slots, noHTTP>>

(* The code of a resourceError: "none" for nil; other than "no_match" all  *)
(* codes are treated alike.                                                *)
NotServed == [code |-> "none", selector |-> NoSelector, ref |-> NoRef]

(* given: /web was asked for a selector, so that there is no other to try. *)
idle == [pc |-> "idle", web |-> FALSE, given |-> FALSE, todo |-> << >>, expired |-> FALSE,
         result |-> NotServed]

active(r) == req[r].pc # "idle"

(* /web with its own list of selectors.                                    *)
fallsBack(q) == q.web /\ ~q.given

-----------------------------------------------------------------------------
(* The record is set, removed, cached or evicted.                          *)
ViewChanges(sel, ref) ==
    /\ view' = [view EXCEPT ![sel] = ref]
    /\ noHTTP' = [r \in Requests |-> noHTTP[r] \/ (fallsBack(req[r]) /\ view'[HTTP] = NoRef)]
    /\ UNCHANGED <<req, slots>>

begin(r, web, given, todo) ==
    /\ req[r] = idle
    /\ req' = [req EXCEPT ![r] = [idle EXCEPT !.pc = "loop", !.web = web, !.given = given,
                                             !.todo = todo]]
    /\ noHTTP' = [noHTTP EXCEPT ![r] = fallsBack(req'[r]) /\ view[HTTP] = NoRef]
    /\ UNCHANGED <<view, slots>>

(* /resource answers a query it cannot parse at once: not a step here.     *)
handleResource(r) == \E sel \in Selectors : begin(r, FALSE, FALSE, <<sel>>)

(* /web tries the selector given, or these two; a bad name is bad twice.   *)
(* A selector of blanks counts as given and is parsed to the empty one.    *)
handleWeb(r) ==
    \/ \E sel \in Selectors \cup {BadQuery} : begin(r, TRUE, TRUE, <<sel>>)
    \/ begin(r, TRUE, FALSE, <<HTTP, NoSelector>>)
    \/ begin(r, TRUE, FALSE, <<BadQuery, BadQuery>>)

(* The ten seconds are over, or the client has gone.                       *)
CtxDone(r) ==
    /\ req[r].pc \in {"query", "slot", "fetch"}
    /\ ~req[r].expired
    /\ req' = [req EXCEPT ![r].expired = TRUE]
    /\ UNCHANGED <<view, slots, noHTTP>>

(* The handler goes on to its response, and is done with the context and   *)
(* the selectors.                                                          *)
responds(q) == [q EXCEPT !.pc = "respond", !.todo = << >>, !.expired = FALSE]

(* The next selector, skipping those that do not parse.                    *)
TrySelector(r) ==
    /\ req[r].pc = "loop"
    /\ req' = [req EXCEPT ![r] =
                 IF req[r].todo = << >> THEN responds(req[r])
                 ELSE IF Head(req[r].todo) = BadQuery
                   THEN [req[r] EXCEPT !.todo = Tail(@)]
                 ELSE [req[r] EXCEPT !.pc = "query"]]
    /\ UNCHANGED <<view, slots, noHTTP>>

-----------------------------------------------------------------------------
(* fetchVerifiedResource.                                                  *)

(* It returned an error: /web goes on only after "no_match".               *)
failed(r, code) ==
    LET q == [req[r] EXCEPT !.result = [NotServed EXCEPT !.code = code]]
    IN  IF code = "no_match" /\ req[r].web THEN [q EXCEPT !.pc = "loop", !.todo = Tail(@)]
                                           ELSE responds(q)

(* Faulty variant: the record found is not looked at.                      *)
refusedIfNone(ref) == IF ref = NoRef THEN "no_match" ELSE "none"

(* Why a record is not fetched.                                            *)
refused(ref) ==
    IF ref = NoRef THEN "no_match"
    ELSE IF ref.sound THEN "none" ELSE "error"

HandleQuery(r) ==
    LET sel == Head(req[r].todo)
        ref == view[sel]
    IN  /\ req[r].pc = "query"
        /\ req' = [req EXCEPT ![r] =
                     IF refused(ref) # "none" THEN failed(r, refused(ref))
                     ELSE [req[r] EXCEPT !.pc = "slot",
                             !.result = [code |-> "none", selector |-> sel, ref |-> ref]]]
        /\ UNCHANGED <<view, slots, noHTTP>>

QueryFails(r) ==
    /\ req[r].pc = "query"
    /\ req' = [req EXCEPT ![r] = failed(r, "error")]
    /\ UNCHANGED <<view, slots, noHTTP>>

Acquire(r) ==
    /\ req[r].pc = "slot"
    /\ slots < maxConcurrentResourceFetches
    /\ slots' = slots + 1
    /\ req' = [req EXCEPT ![r].pc = "fetch"]
    /\ UNCHANGED <<view, noHTTP>>

(* Faulty variant: only a free slot ends the wait.                         *)
WaitOn(r) == FALSE /\ UNCHANGED vars

(* The context ends while the request waits for a slot.                    *)
Busy(r) ==
    /\ req[r].pc = "slot"
    /\ req[r].expired
    /\ req' = [req EXCEPT ![r] = failed(r, "error")]
    /\ UNCHANGED <<view, slots, noHTTP>>

(* Faulty variant: the slot is given back on success only.                 *)
releaseOnSuccess(code) == IF code = "none" THEN slots - 1 ELSE slots

(* The deferred receive, on every return after Acquire.                    *)
release(code) == slots - 1

typeOK(ref) == Validate(ref.declared, ref.detected)

(* Fetch returned the bytes with the anchored hash, and their type is      *)
(* validated; or it failed, after the context ended if not before.         *)
Fetched(r) ==
    LET bad  == ~typeOK(req[r].result.ref) /\ enforceType
        code == IF bad THEN "error" ELSE "none"
    IN  /\ req[r].pc = "fetch"
        /\ req' = [req EXCEPT ![r] = IF bad THEN failed(r, code)
                                     ELSE responds(req[r])]
        /\ slots' = release(code)
        /\ UNCHANGED <<view, noHTTP>>

(* A hash mismatch, a file too large, a timeout or any other error.        *)
FetchFails(r) ==
    /\ req[r].pc = "fetch"
    /\ req' = [req EXCEPT ![r] = failed(r, "error")]
    /\ slots' = release("error")
    /\ UNCHANGED <<view, noHTTP>>

(* The response is written: an error, or the file.  Without either, web.go *)
(* dereferences a nil pointer, and net/http drops the connection.  There   *)
(* is no WriteTimeout: a client that does not read puts this step off.     *)
Respond(r) ==
    /\ req[r].pc = "respond"
    /\ req' = [req EXCEPT ![r] = idle]
    /\ noHTTP' = [noHTTP EXCEPT ![r] = FALSE]
    /\ UNCHANGED <<view, slots>>

Init ==
    /\ view = [sel \in Selectors |-> NoRef]
    /\ req = [r \in Requests |-> idle]
    /\ slots = 0
    /\ noHTTP = [r \in Requests |-> FALSE]

Step(r) ==
    \/ TrySelector(r) \/ HandleQuery(r) \/ QueryFails(r) \/ Acquire(r) \/ Busy(r)
    \/ Fetched(r) \/ FetchFails(r) \/ Respond(r)

Next ==
    \/ \E sel \in Selectors, ref \in Refs \cup {NoRef} : ViewChanges(sel, ref)
    \/ \E r \in Requests : handleResource(r) \/ handleWeb(r) \/ CtxDone(r) \/ Step(r)

Spec == Init /\ [][Next]_vars

(* Contexts have a deadline; the chain call, the wait and Fetch are        *)
(* assumed to return only once their context is done, the loop is prompt.  *)
(* The response is written if and when the client reads it.                *)
StepInTime(r) ==
    /\ Step(r)
    /\ req[r].pc = "loop" \/ (req[r].pc \in {"query", "slot", "fetch"} /\ req[r].expired)

Fairness == \A r \in Requests : WF_vars(CtxDone(r)) /\ WF_vars(StepInTime(r))

FairSpec == Spec /\ Fairness

-----------------------------------------------------------------------------
(* Properties.                                                             *)

serves(r) == req[r].pc = "respond" /\ req[r].result.code = "none" /\ req[r].result.ref # NoRef

(* Every path through the pipeline gives its slot back, once: the slots    *)
(* taken are those of the requests that are fetching, and no more than     *)
(* there are.                                                              *)
SlotsExact ==
    /\ slots = Cardinality({r \in Requests : req[r].pc = "fetch"})
    /\ slots <= maxConcurrentResourceFetches

(* The comment on handleWeb: what is served is what the owner signed and   *)
(* anchored.  Whichever selector a file is found under in the end, its     *)
(* record has a valid owner signature and the fields to fetch it by, and   *)
(* in strict mode no text is served as an image or another type of bytes.  *)
(* And /web, asked for no selector, falls back to the record without one   *)
(* only if at some time during the request there was none for HTTP: not    *)
(* because that one was broken, unsigned, or slow to fetch.                *)
ServedIsAnchored ==
    \A r \in Requests : serves(r) =>
        LET ref == req[r].result.ref
        IN  /\ ref.sound
            /\ enforceType /\ isText(baseType[ref.detected]) =>
                 baseType[ref.declared] \in Textual \cup {"", "application/octet-stream"}
            /\ fallsBack(req[r]) /\ req[r].result.selector = NoSelector => noHTTP[r]

(* Every request comes to its response, also when all slots are taken: the *)
(* wait for a slot ends with the request's deadline.  Clients that never   *)
(* read theirs hold up nobody else.                                        *)
RequestsDecided == \A r \in Requests : active(r) ~> req[r].pc = "respond"
=============================================================================
