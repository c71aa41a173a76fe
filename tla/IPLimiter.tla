----------------------------- MODULE IPLimiter ------------------------------
(***************************************************************************)
(* The per-address rate limiter of both front ends                         *)
(* (resolver/internal/server/ratelimit.go).  allow holds the mutex         *)
(* throughout and is one step.  A tick is the time in which one token       *)
(* accrues, 1/rps of a second.                                             *)
(***************************************************************************)
EXTENDS Integers, FiniteSets

CONSTANTS
    IPs,
    burst,
    minute,         \* the ticks of time.Minute: 60 * rps
    maxTrackedIPs,
    MaxTicks        \* bound of the model

(* config.Load asks no more than this of the rate and the burst.           *)
ASSUME LimiterAssumption ==
    /\ IsFiniteSet(IPs)
    /\ burst \in Nat \ {0} /\ minute \in Nat \ {0} /\ maxTrackedIPs \in Nat \ {0}
    /\ MaxTicks \in Nat

VARIABLES
    ticks,          \* the time
    buckets,        \* entries: the tracked addresses: bucket and time last seen
    ideal           \* history: the buckets of a limiter that forgets nobody

limiterVars == <<ticks, buckets, ideal>>

tracked == DOMAIN buckets

Buckets == [tokens : 0..burst, last : Nat]

-----------------------------------------------------------------------------
(* golang.org/x/time/rate.Limiter.                                         *)

(* The tokens in a bucket at time t.                                       *)
level(b, t) ==
    LET n == b.tokens + (t - b.last) IN IF n > burst THEN burst ELSE n

newLimiter == [tokens |-> burst, last |-> ticks]

granted(b) == level(b, ticks) >= 1

(* What Allow leaves in the bucket; a refusal takes nothing.               *)
taken(b) == IF granted(b) THEN [tokens |-> level(b, ticks) - 1, last |-> ticks] ELSE b

-----------------------------------------------------------------------------
(* Faulty variant: idle for a minute counts from the time of the cutoff.   *)
pruneRecent == {ip \in tracked : buckets[ip].lastSeen < ticks}

(* The addresses prune drops.                                              *)
prune == {ip \in tracked : buckets[ip].lastSeen < ticks - minute}

(* The addresses still tracked when an entry for ip is looked for or made. *)
kept(ip) ==
    IF ip \notin tracked /\ Cardinality(tracked) >= maxTrackedIPs
      THEN tracked \ prune ELSE tracked

allow(ip) ==
    LET b == IF ip \in tracked THEN buckets[ip].lim ELSE newLimiter
    IN  /\ buckets' = [i \in kept(ip) \cup {ip} |->
                         IF i = ip THEN [lim |-> taken(b), lastSeen |-> ticks]
                                   ELSE buckets[i]]
        /\ ideal' = [ideal EXCEPT ![ip] = taken(@)]
        /\ UNCHANGED ticks

LimiterTick ==
    /\ ticks < MaxTicks
    /\ ticks' = ticks + 1
    /\ UNCHANGED <<buckets, ideal>>

LimiterInit ==
    /\ ticks = 0
    /\ buckets = [i \in {} |-> newLimiter]
    /\ ideal = [ip \in IPs |-> [tokens |-> burst, last |-> 0]]

LimiterNext == LimiterTick \/ \E ip \in IPs : allow(ip)

LimiterSpec == LimiterInit /\ [][LimiterNext]_limiterVars

-----------------------------------------------------------------------------
(* Properties.                                                             *)

(* The time, the buckets and the ideal buckets have values of their type.  *)
LimiterTypeOK ==
    /\ ticks \in 0..MaxTicks
    /\ tracked \subseteq IPs
    /\ \A ip \in tracked : buckets[ip] \in [lim : Buckets, lastSeen : 0..ticks]
    /\ ideal \in [IPs -> Buckets]

(* The tokens an address has: who is not tracked gets a full bucket.       *)
tokensOf(ip) == IF ip \in tracked THEN level(buckets[ip].lim, ticks) ELSE burst

(* By how much a burst is more than what accrues in a minute: by nothing,  *)
(* for the default of 40 requests at once and 20 per second.               *)
overhang == IF burst > minute THEN burst - minute ELSE 0

(* prune forgets an address and with it how much of its burst it used, and *)
(* the next request of that address gets a full bucket.  Whatever is       *)
(* forgotten and when, and however often, an address has never fewer       *)
(* tokens than it would have had, had nothing been forgotten, and never    *)
(* more than the overhang on top of them: if there is none, who else uses  *)
(* the resolver makes no difference.                                       *)
ForgettingBounded ==
    \A ip \in IPs :
        /\ level(ideal[ip], ticks) <= tokensOf(ip)
        /\ tokensOf(ip) <= level(ideal[ip], ticks) + overhang

(* What allow ensures about the size of its map: when an address is added  *)
(* beyond maxTrackedIPs, every address in the map was seen in the last     *)
(* minute.                                                                 *)
OverflowOnlyWhileActive ==
    [][tracked' # tracked /\ Cardinality(tracked') > maxTrackedIPs =>
         \A ip \in tracked' : buckets'[ip].lastSeen >= ticks - minute]_limiterVars
=============================================================================
