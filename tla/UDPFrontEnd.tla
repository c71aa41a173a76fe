---------------------------- MODULE UDPFrontEnd -----------------------------
(***************************************************************************)
(* The UDP front end (resolver/internal/server/udp.go): the read loop, its *)
(* semaphore, the handler goroutines, and shutdown.  A member of Datagrams *)
(* is a client's packet on its way; once done with, it may come again.     *)
(* The verdict of the rate limiter and the outcome of the query are        *)
(* chosen freely: IPLimiter and Resolver are about those.                  *)
(***************************************************************************)
EXTENDS Naturals, Sequences, FiniteSets

CONSTANTS
    Datagrams,
    WellFormed,         \* those that decodeUDPQuery accepts
    udpMaxInFlight,
    udpMaxResp,         \* the longest envelope sent
    maxValue,           \* 0xffff: the longest value of a TLV
    Lengths             \* the lengths of envelopes

ASSUME UDPAssumption ==
    /\ IsFiniteSet(Datagrams) /\ WellFormed \subseteq Datagrams
    /\ udpMaxInFlight \in Nat \ {0}
    /\ udpMaxResp \in Nat /\ maxValue \in Nat /\ Lengths \subseteq Nat
    /\ udpMaxResp <= maxValue

VARIABLES
    dgram,      \* datagram -> "away", "arrived", "handled" or "answered"
    reply,      \* datagram -> the replies written since it arrived
    sem,        \* the length of the channel sem
    loop,       \* the read loop: "reading" or "returned"
    cancelled,  \* ctx.Err() is not nil
    closed      \* the socket is closed

server == <<cancelled, closed>>

udpVars == <<dgram, reply, sem, loop, server>>

-----------------------------------------------------------------------------
(* Replies.                                                                *)

(* encodeUDPResponse leaves out a value that is too long for a TLV.        *)
encodeUDPResponse(status, len) == [status |-> status, value |-> len <= maxValue]

(* The body of an error fits: it quotes at most a packet.                  *)
encodeUDPError(status) == encodeUDPResponse(status, 0)

fits(len) == len <= udpMaxResp

(* The possible results for a packet: the query does not parse, fails, its *)
(* answer cannot be signed or marshalled, or there is an envelope.         *)
handleUDPPacket(d) ==
    IF d \notin WellFormed THEN {encodeUDPError("BadQuery")}
    ELSE {encodeUDPError("Chain"), encodeUDPError("Internal")} \cup
         {IF fits(len) THEN encodeUDPResponse("OK", len)
                       ELSE encodeUDPError("TooLarge") : len \in Lengths}

(* A write to a closed socket is lost; the error is logged.                *)
written(d, r) ==
    IF closed THEN reply ELSE [reply EXCEPT ![d] = Append(@, r)]

-----------------------------------------------------------------------------
Arrive(d) ==
    /\ dgram[d] = "away"
    /\ ~closed
    /\ dgram' = [dgram EXCEPT ![d] = "arrived"]
    /\ reply' = [reply EXCEPT ![d] = << >>]
    /\ UNCHANGED <<sem, loop, server>>

read(d) == loop = "reading" /\ ~closed /\ dgram[d] = "arrived"

(* Faulty variant: the loop goes on to the query.                          *)
LimitedThenHandled(d) ==
    /\ read(d)
    /\ sem < udpMaxInFlight
    /\ reply' = written(d, encodeUDPError("RateLimited"))
    /\ dgram' = [dgram EXCEPT ![d] = "handled"]
    /\ sem' = sem + 1
    /\ UNCHANGED <<loop, server>>

(* The limiter does not allow the sender's address.                        *)
RateLimited(d) ==
    /\ read(d)
    /\ reply' = written(d, encodeUDPError("RateLimited"))
    /\ dgram' = [dgram EXCEPT ![d] = "away"]
    /\ UNCHANGED <<sem, loop, server>>

(* Faulty variant: the datagram is dropped without a word.                 *)
ShedSilently(d) ==
    /\ read(d)
    /\ sem >= udpMaxInFlight
    /\ dgram' = [dgram EXCEPT ![d] = "away"]
    /\ UNCHANGED <<reply, sem, loop, server>>

Shed(d) ==
    /\ read(d)
    /\ sem >= udpMaxInFlight
    /\ reply' = written(d, encodeUDPError("Internal"))
    /\ dgram' = [dgram EXCEPT ![d] = "away"]
    /\ UNCHANGED <<sem, loop, server>>

Spawn(d) ==
    /\ read(d)
    /\ sem < udpMaxInFlight
    /\ sem' = sem + 1
    /\ dgram' = [dgram EXCEPT ![d] = "handled"]
    /\ UNCHANGED <<reply, loop, server>>

(* The goroutine: the reply, then the deferred release of its slot.        *)
Handle(d) ==
    /\ dgram[d] = "handled"
    /\ \E r \in handleUDPPacket(d) : reply' = written(d, r)
    /\ dgram' = [dgram EXCEPT ![d] = "answered"]
    /\ UNCHANGED <<sem, loop, server>>

Release(d) ==
    /\ dgram[d] = "answered"
    /\ sem' = sem - 1
    /\ dgram' = [dgram EXCEPT ![d] = "away"]
    /\ UNCHANGED <<reply, loop, server>>

-----------------------------------------------------------------------------
(* Faulty variant: only the context is looked at.                          *)
stopping == cancelled

(* A read error ends the loop if the context is cancelled or the error is  *)
(* that the socket is closed.                                              *)
ending == cancelled \/ closed

(* Any other read error is logged and the loop goes on.                    *)
ReadFails ==
    /\ loop = "reading"
    /\ ending
    /\ loop' = "returned"
    /\ UNCHANGED <<dgram, reply, sem, server>>

Cancel ==
    /\ ~cancelled
    /\ cancelled' = TRUE
    /\ UNCHANGED <<dgram, reply, sem, loop, closed>>

(* Run returns and closes the socket: once the HTTP server is shut down,   *)
(* or because that server failed.                                          *)
Close ==
    /\ ~closed
    /\ closed' = TRUE
    /\ UNCHANGED <<dgram, reply, sem, loop, cancelled>>

UDPInit ==
    /\ dgram = [d \in Datagrams |-> "away"]
    /\ reply = [d \in Datagrams |-> << >>]
    /\ sem = 0
    /\ loop = "reading"
    /\ cancelled = FALSE
    /\ closed = FALSE

Read(d) == RateLimited(d) \/ Shed(d) \/ Spawn(d)

UDPNext ==
    \/ \E d \in Datagrams : Arrive(d) \/ Read(d) \/ Handle(d) \/ Release(d)
    \/ ReadFails \/ Cancel \/ Close

UDPSpec == UDPInit /\ [][UDPNext]_udpVars

(* The socket's queue is read in order, so every datagram in it has its    *)
(* turn; a query has a timeout; a closed socket fails every read; and      *)
(* shutdown has a deadline.                                                *)
UDPFairness ==
    /\ \A d \in Datagrams : WF_udpVars(Read(d)) /\ WF_udpVars(Handle(d)) /\ WF_udpVars(Release(d))
    /\ WF_udpVars(closed /\ ReadFails) /\ WF_udpVars(cancelled /\ Close)

-----------------------------------------------------------------------------
(* Properties.                                                             *)

(* A datagram is answered once: nothing is written before its turn, and    *)
(* whoever answers it, the loop or the handler, is the only one to.  After *)
(* the socket is closed an answer may be missing, never doubled.  And as   *)
(* the comment in handleUDPPacket has it, an answer that does not fit is   *)
(* an error of its own and is never read as an empty OK.                   *)
AnsweredOnce ==
    \A d \in Datagrams :
        /\ dgram[d] \in {"arrived", "handled"} => reply[d] = << >>
        /\ Len(reply[d]) <= 1
        /\ dgram[d] = "answered" /\ ~closed => Len(reply[d]) = 1
        /\ reply[d] # << >> /\ reply[d][1].status = "OK" => reply[d][1].value

(* Every datagram that arrives is answered, also when no handler is free,  *)
(* unless the server stops.                                                *)
ArrivedAreAnswered ==
    \A d \in Datagrams :
        dgram[d] = "arrived" ~> (reply[d] # << >> \/ cancelled \/ closed)

(* When the server stops, told to or because its HTTP side failed, the     *)
(* loop returns and every handler gives its slot back.                     *)
ShutdownCompletes == (cancelled \/ closed) ~> (loop = "returned" /\ sem = 0)
=============================================================================
