--------------------------- MODULE FrontEndProofs ---------------------------
(***************************************************************************)
(* The resolver's front ends, for any number of clients: forgetting idle   *)
(* addresses loosens the rate limit by what a burst is above a minute's    *)
(* tokens and no more, a datagram is answered once,                        *)
(* the gateway gives its slots back and serves only what is anchored, and  *)
(* ddns-fetch keeps a file only as it was served.                          *)
(***************************************************************************)
EXTENDS IPLimiter, UDPFrontEnd, ResourceGateway, FetchClient, FiniteSetTheorems, TLAPS

(* Leaves are for Zenon unless they name another prover.                   *)
USE ZenonT(20)

-----------------------------------------------------------------------------
(* The rate limiter.                                                       *)

(* A bucket, and the ideal one, is last changed when its address is seen,  *)
(* and not in the future.                                                  *)
Ordered ==
    /\ \A ip \in tracked : /\ buckets[ip].lim.last <= buckets[ip].lastSeen
                            /\ ideal[ip].last <= buckets[ip].lastSeen
    /\ \A ip \in IPs : ideal[ip].last <= ticks

LimiterInv == LimiterTypeOK /\ Ordered /\ ForgettingBounded

(* A level m, and one that is no lower and higher by the overhang at most. *)
near(m, n) == m <= n /\ n <= m + overhang

(* The overhang is a number.                                               *)
LEMMA OverhangType == overhang \in Nat
BY SMT, LimiterAssumption DEF overhang

(* A tick leaves such levels near each other,                              *)
LEMMA NearAfterTick ==
    ASSUME NEW m \in 0..burst, NEW n \in 0..burst, near(m, n)
    PROVE  near(IF m = burst THEN burst ELSE m + 1, IF n = burst THEN burst ELSE n + 1)
BY SMT, LimiterAssumption, OverhangType DEF near

(* and so does a request, whether one of the two refuses it or both or     *)
(* none.                                                                   *)
LEMMA NearAfterAllow ==
    ASSUME NEW m \in 0..burst, NEW n \in 0..burst, near(m, n)
    PROVE  near(IF m >= 1 THEN m - 1 ELSE m, IF n >= 1 THEN n - 1 ELSE n)
BY SMT, LimiterAssumption, OverhangType DEF near

(* The invariant, one address at a time.                                   *)
LEMMA Bounded == ForgettingBounded <=> \A ip \in IPs : near(level(ideal[ip], ticks), tokensOf(ip))
BY DEF ForgettingBounded, near

(* A bucket holds between none and a burst of tokens.                      *)
LEMMA LevelType ==
    ASSUME NEW b \in Buckets, NEW t \in Nat, b.last <= t
    PROVE  level(b, t) \in 0..burst
BY SMT, LimiterAssumption DEF level, Buckets

(* A tick adds one token, up to a burst.                                   *)
LEMMA LevelTick ==
    ASSUME NEW b \in Buckets, NEW t \in Nat, b.last <= t
    PROVE  level(b, t + 1) = IF level(b, t) = burst THEN burst ELSE level(b, t) + 1
BY SMT, LimiterAssumption DEF level, Buckets

(* What Allow leaves depends on the level it found and nothing else.       *)
LEMMA TakenLevel ==
    ASSUME NEW b \in Buckets, ticks \in Nat, b.last <= ticks
    PROVE  /\ taken(b) \in Buckets
           /\ taken(b).last <= ticks
           /\ level(taken(b), ticks) =
                IF level(b, ticks) >= 1 THEN level(b, ticks) - 1 ELSE level(b, ticks)
<1>1. level(b, ticks) \in 0..burst
  BY LevelType
<1>2. CASE granted(b)
  <2>1. taken(b) = [tokens |-> level(b, ticks) - 1, last |-> ticks]
    BY <1>2 DEF taken
  <2>2. level(b, ticks) - 1 \in 0..burst /\ level(b, ticks) >= 1
    BY SMT, <1>1, <1>2, LimiterAssumption DEF granted
  <2>3. taken(b) \in Buckets /\ taken(b).last <= ticks
    BY SMT, <2>1, <2>2 DEF Buckets
  <2>4. ASSUME NEW n \in 0..burst
        PROVE  level([tokens |-> n, last |-> ticks], ticks) = n
    BY SMT, LimiterAssumption DEF level
  <2>. QED BY <2>1, <2>2, <2>3, <2>4
<1>3. CASE ~granted(b)
  BY <1>3 DEF taken, granted
<1>. QED BY <1>2, <1>3

(* The initial state.                                                      *)
LEMMA LimiterStarts == LimiterInit => LimiterInv
<1>. SUFFICES ASSUME LimiterInit PROVE LimiterInv
  OBVIOUS
<1>1. [tokens |-> burst, last |-> 0] \in Buckets
  BY SMT, LimiterAssumption DEF Buckets
<1>2. tracked = {}
  BY DEF LimiterInit, tracked
<1>3. LimiterTypeOK
  BY SMT, <1>1, <1>2, LimiterAssumption DEF LimiterTypeOK, LimiterInit
<1>4. Ordered
  BY SMT, <1>2 DEF Ordered, LimiterInit
<1>5. ForgettingBounded
  <2>1. \A ip \in IPs : level(ideal[ip], ticks) = burst
    BY SMT, LimiterAssumption DEF LimiterInit, level
  <2>2. \A ip \in IPs : tokensOf(ip) = burst
    BY <1>2 DEF tokensOf
  <2>3. near(burst, burst)
    BY SMT, LimiterAssumption, OverhangType DEF near
  <2>. QED BY <2>1, <2>2, <2>3, Bounded
<1>. QED BY <1>3, <1>4, <1>5 DEF LimiterInv

(* Time passes for both limiters alike.                                    *)
LEMMA TickStep == LimiterInv /\ LimiterTick => LimiterInv'
<1>. SUFFICES ASSUME LimiterInv, LimiterTick PROVE LimiterInv'
  OBVIOUS
<1>1. ticks' = ticks + 1 /\ ticks \in Nat /\ ticks' \in 0..MaxTicks
  BY SMT, LimiterAssumption DEF LimiterTick, LimiterInv, LimiterTypeOK
<1>2. buckets' = buckets /\ ideal' = ideal /\ tracked' = tracked
  BY DEF LimiterTick, tracked
<1>3. LimiterTypeOK'
  <2>1. \A ip \in tracked : buckets[ip] \in [lim : Buckets, lastSeen : 0..ticks']
    <3>1. 0..ticks \subseteq 0..ticks'
      BY SMT, <1>1
    <3>. QED BY <3>1 DEF LimiterInv, LimiterTypeOK
  <2>. QED BY <1>1, <1>2, <2>1 DEF LimiterInv, LimiterTypeOK
<1>4. Ordered'
  <2>1. \A ip \in IPs : ideal[ip].last \in Nat
    BY DEF LimiterInv, LimiterTypeOK, Buckets
  <2>. QED BY SMT, <1>1, <1>2, <2>1 DEF LimiterInv, Ordered
<1>5. ASSUME NEW ip \in IPs
      PROVE  near(level(ideal[ip], ticks + 1),
                  IF ip \in tracked THEN level(buckets[ip].lim, ticks + 1) ELSE burst)
  <2>1. near(level(ideal[ip], ticks), tokensOf(ip))
    BY Bounded DEF LimiterInv
  <2>2. ideal[ip] \in Buckets /\ ideal[ip].last <= ticks
    BY DEF LimiterInv, LimiterTypeOK, Ordered
  <2>. DEFINE m == level(ideal[ip], ticks)
              n == tokensOf(ip)
  <2>3. m \in 0..burst /\ level(ideal[ip], ticks + 1) = IF m = burst THEN burst ELSE m + 1
    BY <1>1, <2>2, LevelType, LevelTick
  <2>4. /\ n \in 0..burst
        /\ (IF ip \in tracked THEN level(buckets[ip].lim, ticks + 1) ELSE burst)
             = IF n = burst THEN burst ELSE n + 1
    <3>1. CASE ip \in tracked
      <4>1. buckets[ip].lim \in Buckets /\ buckets[ip].lastSeen \in 0..ticks
        BY <3>1 DEF LimiterInv, LimiterTypeOK
      <4>2. buckets[ip].lim.last <= ticks
        BY SMT, <1>1, <3>1, <4>1 DEF LimiterInv, Ordered, Buckets
      <4>. QED BY <1>1, <3>1, <4>1, <4>2, LevelType, LevelTick DEF tokensOf
    <3>2. CASE ip \notin tracked
      <4>1. n = burst /\ burst \in 0..burst
        BY SMT, <3>2, LimiterAssumption DEF tokensOf
      <4>. QED BY <3>2, <4>1
    <3>. QED BY <3>1, <3>2
  <2>. HIDE DEF m, n
  <2>5. near(m, n)
    BY <2>1 DEF m, n
  <2>6. near(IF m = burst THEN burst ELSE m + 1, IF n = burst THEN burst ELSE n + 1)
    BY <2>3, <2>4, <2>5, NearAfterTick
  <2>. QED BY <2>3, <2>4, <2>6
<1>6. ForgettingBounded'
  BY <1>1, <1>2, <1>5 DEF ForgettingBounded, near, tokensOf
<1>. QED BY <1>3, <1>4, <1>6 DEF LimiterInv

(* An address idle for a minute has a minute's tokens or its whole burst   *)
(* back, so that forgetting it gives it the overhang at most.              *)
LEMMA IdleIsNearlyFull ==
    ASSUME LimiterInv, NEW ip \in prune
    PROVE  near(level(ideal[ip], ticks), burst)
<1>1. /\ ip \in tracked /\ ip \in IPs
      /\ ideal[ip] \in Buckets /\ buckets[ip].lastSeen \in 0..ticks
      /\ ideal[ip].last <= buckets[ip].lastSeen
      /\ buckets[ip].lastSeen < ticks - minute
      /\ ticks \in Nat
  BY SMT DEF LimiterInv, LimiterTypeOK, Ordered, prune
<1>2. ideal[ip].tokens \in 0..burst /\ ideal[ip].last \in Nat
  BY <1>1 DEF Buckets
<1>. QED BY SMT, <1>1, <1>2, LimiterAssumption DEF level, near, overhang

(* A request: the two limiters find levels near each other and leave such. *)
LEMMA AllowStep ==
    ASSUME LimiterInv, NEW ip \in IPs, allow(ip)
    PROVE  LimiterInv'
<1>. DEFINE b == IF ip \in tracked THEN buckets[ip].lim ELSE newLimiter
<1>1. ticks' = ticks /\ ticks \in Nat /\ ticks \in 0..MaxTicks
  BY SMT, LimiterAssumption DEF allow, LimiterInv, LimiterTypeOK
<1>2. /\ tracked' = kept(ip) \cup {ip}
      /\ buckets'[ip] = [lim |-> taken(b), lastSeen |-> ticks]
      /\ \A i \in kept(ip) : i # ip => buckets'[i] = buckets[i]
  BY DEF allow, tracked
<1>3. kept(ip) \subseteq tracked /\ \A i \in tracked \ kept(ip) : i \in prune
  BY DEF kept
<1>4. b \in Buckets /\ b.last <= ticks
  <2>1. CASE ip \in tracked
    <3>1. buckets[ip].lim \in Buckets /\ buckets[ip].lastSeen \in 0..ticks
      BY <2>1 DEF LimiterInv, LimiterTypeOK
    <3>2. buckets[ip].lim.last <= buckets[ip].lastSeen
      BY <2>1 DEF LimiterInv, Ordered
    <3>. QED BY SMT, <1>1, <2>1, <3>1, <3>2 DEF Buckets
  <2>2. CASE ip \notin tracked
    BY SMT, <1>1, <2>2, LimiterAssumption DEF newLimiter, Buckets
  <2>. QED BY <2>1, <2>2
<1>5. near(level(ideal[ip], ticks), level(b, ticks))
  <2>1. near(level(ideal[ip], ticks), tokensOf(ip))
    BY Bounded DEF LimiterInv
  <2>2. tokensOf(ip) = level(b, ticks)
    <3>1. level(newLimiter, ticks) = burst
      BY SMT, <1>1, LimiterAssumption DEF newLimiter, level
    <3>. QED BY <3>1 DEF tokensOf
  <2>. QED BY <2>1, <2>2
<1>6. /\ taken(b) \in Buckets /\ taken(b).last <= ticks
      /\ level(taken(b), ticks) =
           IF level(b, ticks) >= 1 THEN level(b, ticks) - 1 ELSE level(b, ticks)
  BY <1>1, <1>4, TakenLevel
<1>7. ideal[ip] \in Buckets /\ ideal[ip].last <= ticks
  BY DEF LimiterInv, LimiterTypeOK, Ordered
<1>8. /\ taken(ideal[ip]) \in Buckets /\ taken(ideal[ip]).last <= ticks
      /\ near(level(taken(ideal[ip]), ticks), level(taken(b), ticks))
  <2>. DEFINE m == level(ideal[ip], ticks)
              n == level(b, ticks)
  <2>1. m \in 0..burst /\ n \in 0..burst
    BY <1>1, <1>4, <1>7, LevelType
  <2>2. /\ taken(ideal[ip]) \in Buckets /\ taken(ideal[ip]).last <= ticks
        /\ level(taken(ideal[ip]), ticks) = IF m >= 1 THEN m - 1 ELSE m
    BY <1>1, <1>7, TakenLevel
  <2>3. near(IF m >= 1 THEN m - 1 ELSE m, IF n >= 1 THEN n - 1 ELSE n)
    BY <1>5, <2>1, NearAfterAllow
  <2>. QED BY <1>6, <2>2, <2>3
<1>9. /\ ideal' = [ideal EXCEPT ![ip] = taken(ideal[ip])]
      /\ ideal \in [IPs -> Buckets]
  BY DEF allow, LimiterInv, LimiterTypeOK
<1>. HIDE DEF b
<1>10. LimiterTypeOK'
  <2>1. ideal' \in [IPs -> Buckets]
    BY <1>8, <1>9
  <2>2. tracked' \subseteq IPs
    BY <1>2, <1>3 DEF LimiterInv, LimiterTypeOK
  <2>3. \A i \in tracked' : buckets'[i] \in [lim : Buckets, lastSeen : 0..ticks]
    BY SMT, <1>1, <1>2, <1>3, <1>6 DEF LimiterInv, LimiterTypeOK
  <2>. QED BY <1>1, <2>1, <2>2, <2>3 DEF LimiterTypeOK
<1>11. Ordered'
  BY SMT, <1>1, <1>2, <1>3, <1>6, <1>8, <1>9 DEF LimiterInv, Ordered
<1>12. ASSUME NEW i \in IPs
       PROVE  near(level(ideal'[i], ticks),
                   IF i \in tracked' THEN level(buckets'[i].lim, ticks) ELSE burst)
  <2>0. near(level(ideal[i], ticks), tokensOf(i))
    BY Bounded DEF LimiterInv
  <2>1. CASE i = ip
    <3>1. buckets'[ip].lim = taken(b) /\ ip \in tracked'
      BY SMT, <1>2
    <3>2. ideal'[ip] = taken(ideal[ip])
      BY <1>9
    <3>. QED BY <1>8, <2>1, <3>1, <3>2
  <2>2. CASE i # ip /\ i \in kept(ip)
    BY <1>2, <1>3, <1>9, <2>0, <2>2 DEF tokensOf
  <2>3. CASE i # ip /\ i \in tracked \ kept(ip)
    <3>1. near(level(ideal[i], ticks), burst)
      BY <1>3, <2>3, IdleIsNearlyFull
    <3>. QED BY <1>2, <1>9, <2>3, <3>1
  <2>4. CASE i # ip /\ i \notin tracked
    BY <1>2, <1>3, <1>9, <2>0, <2>4 DEF tokensOf
  <2>. QED BY <2>1, <2>2, <2>3, <2>4
<1>13. ForgettingBounded'
  BY <1>1, <1>12 DEF ForgettingBounded, near, tokensOf
<1>. QED BY <1>10, <1>11, <1>13 DEF LimiterInv

(* The invariant holds of every behaviour.                                 *)
LEMMA LimiterInvariant == LimiterSpec => []LimiterInv
<1>1. LimiterInv /\ UNCHANGED limiterVars => LimiterInv'
  BY DEF LimiterInv, LimiterTypeOK, Ordered, ForgettingBounded, tokensOf, limiterVars, tracked,
         level
<1>2. LimiterInv /\ [LimiterNext]_limiterVars => LimiterInv'
  BY <1>1, TickStep, AllowStep DEF LimiterNext
<1>. QED BY <1>2, LimiterStarts, PTL DEF LimiterSpec

(* The limiter gives each address what a limiter that tracks every address *)
(* for ever would give it, and at no time more than the overhang on top:   *)
(* allow and prune of ratelimit.go, for every rate and burst.              *)
THEOREM ForgettingIsSafe == LimiterSpec => []ForgettingBounded
BY LimiterInvariant, PTL DEF LimiterInv

(* What allow ensures of the size of its map: an address beyond            *)
(* maxTrackedIPs is only added while all others are active.                *)
THEOREM MapHoldsTheActive == LimiterSpec => OverflowOnlyWhileActive
<1>1. ASSUME LimiterInv, NEW ip \in IPs, allow(ip),
             tracked' # tracked, Cardinality(tracked') > maxTrackedIPs
      PROVE  \A i \in tracked' : buckets'[i].lastSeen >= ticks - minute
  <2>1. /\ tracked' = kept(ip) \cup {ip}
        /\ buckets'[ip].lastSeen = ticks
        /\ \A i \in kept(ip) : i # ip => buckets'[i] = buckets[i]
    BY <1>1 DEF allow, tracked
  <2>2. ip \notin tracked
    BY <1>1, <2>1 DEF kept
  <2>3. IsFiniteSet(tracked)
    BY <1>1, LimiterAssumption, FS_Subset DEF LimiterInv, LimiterTypeOK
  <2>4. Cardinality(tracked) >= maxTrackedIPs
    <3>1. SUFFICES ASSUME ~(Cardinality(tracked) >= maxTrackedIPs) PROVE FALSE
      OBVIOUS
    <3>2. tracked' = tracked \cup {ip}
      BY <2>1, <3>1 DEF kept
    <3>3. Cardinality(tracked) \in Nat /\ Cardinality(tracked') = Cardinality(tracked) + 1
      BY <2>2, <2>3, <3>2, FS_AddElement, FS_CardinalityType
    <3>. QED BY SMT, <1>1, <3>1, <3>3, LimiterAssumption
  <2>5. kept(ip) = tracked \ prune
    BY <2>2, <2>4 DEF kept
  <2>6. \A i \in kept(ip) : buckets[i].lastSeen >= ticks - minute
    BY SMT, <1>1, <2>5, LimiterAssumption DEF prune, LimiterInv, LimiterTypeOK
  <2>7. ticks \in Nat
    BY SMT, <1>1 DEF LimiterInv, LimiterTypeOK
  <2>. QED BY SMT, <2>1, <2>6, <2>7, LimiterAssumption
<1>2. LimiterTick \/ UNCHANGED limiterVars => tracked' = tracked
  BY DEF LimiterTick, limiterVars, tracked
<1>3. LimiterInv /\ [LimiterNext]_limiterVars =>
        [tracked' # tracked /\ Cardinality(tracked') > maxTrackedIPs =>
           \A ip \in tracked' : buckets'[ip].lastSeen >= ticks - minute]_limiterVars
  BY <1>1, <1>2 DEF LimiterNext
<1>. QED BY <1>3, LimiterInvariant, PTL DEF LimiterSpec, OverflowOnlyWhileActive

-----------------------------------------------------------------------------
(* The UDP front end.                                                      *)

Replies ==
    [status : {"OK", "BadQuery", "Chain", "Internal", "TooLarge", "RateLimited"}, value : BOOLEAN]

UDPTypeOK ==
    /\ dgram \in [Datagrams -> {"away", "arrived", "handled", "answered"}]
    /\ reply \in [Datagrams -> Seq(Replies)]
    /\ closed \in BOOLEAN

UDPInv == UDPTypeOK /\ AnsweredOnce

(* handleUDPPacket, RateLimited and Shed never make an OK without a value. *)
LEMMA ReplyMade ==
    ASSUME NEW d \in Datagrams,
           NEW r \in handleUDPPacket(d) \cup {encodeUDPError("RateLimited"), encodeUDPError("Internal")}
    PROVE  r \in Replies /\ (r.status = "OK" => r.value)
<1>1. \A len \in Nat : fits(len) => len <= maxValue
  BY SMT, UDPAssumption DEF fits
<1>2. CASE \E status \in {"BadQuery", "Chain", "Internal", "TooLarge", "RateLimited"} :
             r = encodeUDPError(status)
  BY SMT, <1>2 DEF encodeUDPError, encodeUDPResponse, Replies
<1>3. CASE \E len \in Lengths : fits(len) /\ r = encodeUDPResponse("OK", len)
  <2>1. PICK len \in Lengths : len <= maxValue /\ r = encodeUDPResponse("OK", len)
    BY <1>1, <1>3, UDPAssumption
  <2>2. r = [status |-> "OK", value |-> len <= maxValue]
    BY <2>1 DEF encodeUDPResponse
  <2>3. r.value = (len <= maxValue)
    BY <2>2
  <2>4. r.value
    BY <2>1, <2>3
  <2>5. r \in Replies
    BY SMT, <2>2 DEF Replies
  <2>. QED BY <2>4, <2>5
<1>. QED BY <1>2, <1>3 DEF handleUDPPacket

(* A datagram whose turn it is and that has no reply yet gets one, unless  *)
(* the socket is closed.                                                   *)
LEMMA WrittenStep ==
    ASSUME UDPInv, NEW d \in Datagrams, dgram[d] \in {"arrived", "handled"},
           NEW r \in Replies, r.status = "OK" => r.value,
           reply' = written(d, r), closed' = closed,
           NEW to \in {"away", "answered"}, dgram' = [dgram EXCEPT ![d] = to]
    PROVE  UDPInv'
<1>1. reply[d] = << >>
  BY DEF UDPInv, AnsweredOnce
<1>2. /\ reply' \in [Datagrams -> Seq(Replies)]
      /\ reply'[d] = IF closed THEN << >> ELSE <<r>>
      /\ \A e \in Datagrams : e # d => reply'[e] = reply[e]
  <2>1. CASE closed
    BY <1>1, <2>1 DEF written, UDPInv, UDPTypeOK
  <2>2. CASE ~closed
    <3>1. reply' = [reply EXCEPT ![d] = Append(reply[d], r)] /\ Append(reply[d], r) = <<r>>
      BY SMT, <1>1, <2>2 DEF written
    <3>. QED BY SMT, <2>2, <3>1 DEF UDPInv, UDPTypeOK
  <2>. QED BY <2>1, <2>2
<1>3. /\ dgram'[d] = to /\ \A e \in Datagrams : e # d => dgram'[e] = dgram[e]
      /\ UDPTypeOK'
  BY <1>2 DEF UDPInv, UDPTypeOK
<1>4. ASSUME NEW e \in Datagrams
      PROVE  /\ dgram'[e] \in {"arrived", "handled"} => reply'[e] = << >>
             /\ Len(reply'[e]) <= 1
             /\ dgram'[e] = "answered" /\ ~closed' => Len(reply'[e]) = 1
             /\ reply'[e] # << >> /\ reply'[e][1].status = "OK" => reply'[e][1].value
  <2>1. CASE e # d
    BY <1>2, <1>3, <2>1 DEF UDPInv, AnsweredOnce
  <2>2. CASE e = d /\ closed
    BY SMT, <1>2, <1>3, <2>2
  <2>3. CASE e = d /\ ~closed
    <3>1. reply'[e] = <<r>> /\ dgram'[e] = to
      BY <1>2, <1>3, <2>3
    <3>2. Len(<<r>>) = 1 /\ <<r>>[1] = r
      OBVIOUS
    <3>3. Len(reply'[e]) = 1 /\ reply'[e][1] = r
      BY <3>1, <3>2
    <3>4. r.status = "OK" => r.value
      OBVIOUS
    <3>. QED BY SMT, <3>1, <3>3, <3>4
  <2>. QED BY <2>1, <2>2, <2>3
<1>. QED BY <1>3, <1>4 DEF UDPInv, AnsweredOnce

(* A datagram that moves on without a reply.                               *)
LEMMA MovedStep ==
    ASSUME UDPInv, NEW d \in Datagrams, dgram' = [dgram EXCEPT ![d] = "handled"]
                                        \/ dgram' = [dgram EXCEPT ![d] = "away"],
           reply' = reply, closed' = closed, dgram[d] \in {"arrived", "answered"},
           dgram[d] = "answered" => dgram' = [dgram EXCEPT ![d] = "away"]
    PROVE  UDPInv'
<1>1. PICK to \in {"handled", "away"} : dgram' = [dgram EXCEPT ![d] = to]
  OBVIOUS
<1>2. /\ dgram'[d] = to /\ \A e \in Datagrams : e # d => dgram'[e] = dgram[e]
      /\ UDPTypeOK'
  BY <1>1 DEF UDPInv, UDPTypeOK
<1>3. to = "handled" => dgram[d] = "arrived"
  BY SMT, <1>1, <1>2
<1>. QED BY <1>2, <1>3 DEF UDPInv, AnsweredOnce

(* Every step of the loop, the handlers and the shutdown keeps the answers *)
(* single.                                                                 *)
LEMMA UDPInvariant == UDPSpec => []UDPInv
<1>1. UDPInit => UDPInv
  <2>. SUFFICES ASSUME UDPInit PROVE UDPInv
    OBVIOUS
  <2>1. << >> \in Seq(Replies) /\ Len(<< >>) = 0
    BY SMT
  <2>2. UDPTypeOK
    BY <2>1 DEF UDPInit, UDPTypeOK
  <2>3. \A d \in Datagrams : reply[d] = << >> /\ dgram[d] = "away"
    BY DEF UDPInit
  <2>. QED BY SMT, <2>1, <2>2, <2>3 DEF UDPInv, AnsweredOnce
<1>2. ASSUME UDPInv, NEW d \in Datagrams, Arrive(d) PROVE UDPInv'
  <2>1. /\ dgram' = [dgram EXCEPT ![d] = "arrived"] /\ reply' = [reply EXCEPT ![d] = << >>]
        /\ closed' = closed
    BY <1>2 DEF Arrive, server
  <2>2. /\ dgram'[d] = "arrived" /\ reply'[d] = << >>
        /\ \A e \in Datagrams : e # d => dgram'[e] = dgram[e] /\ reply'[e] = reply[e]
        /\ UDPTypeOK'
    BY SMT, <1>2, <2>1 DEF UDPInv, UDPTypeOK
  <2>. QED BY SMT, <1>2, <2>1, <2>2 DEF UDPInv, AnsweredOnce
<1>3. ASSUME UDPInv, NEW d \in Datagrams, RateLimited(d) \/ Shed(d) PROVE UDPInv'
  <2>1. /\ dgram[d] = "arrived" /\ dgram' = [dgram EXCEPT ![d] = "away"] /\ closed' = closed
        /\ \E r \in {encodeUDPError("RateLimited"), encodeUDPError("Internal")} : reply' = written(d, r)
    BY <1>3 DEF RateLimited, Shed, read, server
  <2>. QED BY <1>3, <2>1, ReplyMade, WrittenStep
<1>4. ASSUME UDPInv, NEW d \in Datagrams, Handle(d) PROVE UDPInv'
  <2>1. /\ dgram[d] = "handled" /\ dgram' = [dgram EXCEPT ![d] = "answered"] /\ closed' = closed
        /\ \E r \in handleUDPPacket(d) : reply' = written(d, r)
    BY <1>4 DEF Handle, server
  <2>. QED BY <1>4, <2>1, ReplyMade, WrittenStep
<1>5. ASSUME UDPInv, NEW d \in Datagrams, Spawn(d) \/ Release(d) PROVE UDPInv'
  BY <1>5, MovedStep DEF Spawn, Release, read, server
<1>6. ASSUME UDPInv, ReadFails \/ Cancel \/ Close \/ UNCHANGED udpVars PROVE UDPInv'
  <2>1. UNCHANGED <<dgram, reply>> /\ closed' \in BOOLEAN /\ (closed => closed')
    BY <1>6 DEF ReadFails, Cancel, Close, udpVars, server, UDPInv, UDPTypeOK
  <2>. QED BY <1>6, <2>1 DEF UDPInv, UDPTypeOK, AnsweredOnce
<1>7. UDPInv /\ [UDPNext]_udpVars => UDPInv'
  BY <1>2, <1>3, <1>4, <1>5, <1>6 DEF UDPNext, Read
<1>. QED BY <1>1, <1>7, PTL DEF UDPSpec

(* runUDP and handleUDPPacket: one reply per datagram, by the loop or by   *)
(* the handler, and none that reads as an empty OK.                        *)
THEOREM OneAnswerEach == UDPSpec => []AnsweredOnce
BY UDPInvariant, PTL DEF UDPInv

-----------------------------------------------------------------------------
(* The gateway.                                                            *)

(* A request, and what fetchVerifiedResource found for it.                 *)
Results == [code : {"none", "no_match", "error"}, selector : Selectors, ref : Refs \cup {NoRef}]

RequestStates ==
    [pc : {"idle", "loop", "query", "slot", "fetch", "respond"}, web : BOOLEAN,
     given : BOOLEAN, todo : Seq(Selectors \cup {BadQuery}), expired : BOOLEAN, result : Results]

GatewayTypeOK ==
    /\ view \in [Selectors -> Refs \cup {NoRef}]
    /\ req \in [Requests -> RequestStates]
    /\ noHTTP \in [Requests -> BOOLEAN]

(* The history variable is not behind the view.                            *)
HistoryKept == \A r \in Requests : fallsBack(req[r]) /\ view[HTTP] = NoRef => noHTTP[r]

(* What is still to be tried: /web, if no selector is given, comes to the  *)
(* record without one only after HTTP, and only if that one had no record. *)
todoSound(q, none) ==
    /\ q.pc \in {"query", "slot", "fetch"} => q.todo # << >>
    /\ q.pc = "query" => Head(q.todo) \in Selectors
    /\ q.pc \in {"loop", "query"} /\ fallsBack(q) =>
         \/ q.todo = <<HTTP, NoSelector>>
         \/ none
         \/ \A i \in 1..Len(q.todo) : q.todo[i] # NoSelector

(* What has been found, from HandleQuery to the response.                  *)
resultSound(q, none) ==
    /\ q.pc = "loop" => q.result.ref = NoRef
    /\ q.pc \in {"slot", "fetch"} => q.result.ref # NoRef
    /\ q.pc \in {"slot", "fetch", "respond"} /\ q.result.ref # NoRef =>
         /\ q.result.ref.sound
         /\ fallsBack(q) /\ q.result.selector = NoSelector => none
    /\ q.pc = "respond" /\ q.result.ref # NoRef /\ enforceType => typeOK(q.result.ref)

GatewayInv ==
    /\ GatewayTypeOK
    /\ HistoryKept
    /\ \A r \in Requests : todoSound(req[r], noHTTP[r]) /\ resultSound(req[r], noHTTP[r])

fetching == {r \in Requests : req[r].pc = "fetch"}

(* The result of an error: no record.                                      *)
LEMMA NotServedTyped ==
    ASSUME NEW code \in {"none", "no_match", "error"}
    PROVE  /\ [NotServed EXCEPT !.code = code] \in Results
           /\ [NotServed EXCEPT !.code = code].ref = NoRef
BY GatewayAssumption DEF NotServed, Results

(* A connection between two requests.                                      *)
LEMMA IdleTyped == idle \in RequestStates /\ idle.pc = "idle"
BY SMT, GatewayAssumption DEF idle, NotServed, Results, RequestStates

(* Only the request that takes the step changes.                           *)
LEMMA OneRequest ==
    ASSUME GatewayInv, NEW r \in Requests, NEW q \in RequestStates,
           req' = [req EXCEPT ![r] = q], view' = view, noHTTP' = noHTTP,
           fallsBack(q) => fallsBack(req[r]),
           todoSound(q, noHTTP[r]), resultSound(q, noHTTP[r])
    PROVE  GatewayInv'
<1>1. /\ req'[r] = q /\ \A s \in Requests : s # r => req'[s] = req[s]
      /\ GatewayTypeOK'
  BY DEF GatewayInv, GatewayTypeOK
<1>2. HistoryKept'
  BY <1>1 DEF GatewayInv, HistoryKept
<1>3. \A s \in Requests : todoSound(req'[s], noHTTP'[s]) /\ resultSound(req'[s], noHTTP'[s])
  BY <1>1 DEF GatewayInv
<1>. QED BY <1>1, <1>2, <1>3 DEF GatewayInv

(* A request moves on with what it has.                                    *)
LEMMA MovesOn ==
    ASSUME NEW q \in RequestStates,
           NEW p \in {"idle", "loop", "query", "slot", "fetch", "respond"}
    PROVE  /\ [q EXCEPT !.pc = p] \in RequestStates
           /\ [q EXCEPT !.pc = p].pc = p
           /\ \A f \in {"todo", "expired", "result"} : [q EXCEPT !.pc = p][f] = q[f]
           /\ fallsBack([q EXCEPT !.pc = p]) = fallsBack(q)
           /\ [q EXCEPT !.expired = TRUE] \in RequestStates
           /\ \A f \in {"todo", "pc", "result"} : [q EXCEPT !.expired = TRUE][f] = q[f]
           /\ fallsBack([q EXCEPT !.expired = TRUE]) = fallsBack(q)
BY DEF RequestStates, fallsBack

(* A request comes to its response with what it has found.                 *)
LEMMA Responds ==
    ASSUME NEW q \in RequestStates
    PROVE  /\ responds(q) \in RequestStates
           /\ responds(q).pc = "respond" /\ responds(q).result = q.result
           /\ fallsBack(responds(q)) = fallsBack(q)
<1>. DEFINE T == Seq(Selectors \cup {BadQuery})
<1>0. << >> \in T
  BY SMT
<1>1. << >> \in T /\ q \in [pc : {"idle", "loop", "query", "slot", "fetch", "respond"}, web : BOOLEAN,
                             given : BOOLEAN, todo : T, expired : BOOLEAN, result : Results]
  BY <1>0 DEF RequestStates
<1>. HIDE DEF T
<1>2. /\ responds(q) \in [pc : {"idle", "loop", "query", "slot", "fetch", "respond"}, web : BOOLEAN,
                           given : BOOLEAN, todo : T, expired : BOOLEAN, result : Results]
      /\ responds(q).pc = "respond" /\ responds(q).result = q.result
      /\ fallsBack(responds(q)) = fallsBack(q)
  BY <1>1 DEF responds, fallsBack
<1>. QED BY <1>2 DEF T, RequestStates

(* An error ends the request, or sends /web to the next selector: to the   *)
(* one without only if HTTP had no record.                                 *)
LEMMA FailedSound ==
    ASSUME GatewayInv, NEW r \in Requests, req[r].pc \in {"query", "slot", "fetch"},
           NEW code \in {"no_match", "error"},
           code = "no_match" => req[r].pc = "query" /\ view[Head(req[r].todo)] = NoRef
    PROVE  /\ failed(r, code) \in RequestStates
           /\ failed(r, code).pc \in {"loop", "respond"}
           /\ fallsBack(failed(r, code)) = fallsBack(req[r])
           /\ todoSound(failed(r, code), noHTTP[r]) /\ resultSound(failed(r, code), noHTTP[r])
<1>. DEFINE q == failed(r, code)
            cell == [NotServed EXCEPT !.code = code]
<1>1. req[r] \in RequestStates
  BY DEF GatewayInv, GatewayTypeOK
<1>2. req[r].todo # << >> /\ req[r].todo \in Seq(Selectors \cup {BadQuery})
  BY <1>1 DEF GatewayInv, todoSound, RequestStates
<1>3. cell \in Results /\ cell.ref = NoRef
  BY NotServedTyped
<1>4. Tail(req[r].todo) \in Seq(Selectors \cup {BadQuery})
  BY SMT, <1>2
<1>5. /\ q \in RequestStates
      /\ q.pc = IF code = "no_match" /\ req[r].web THEN "loop" ELSE "respond"
      /\ fallsBack(q) = fallsBack(req[r])
      /\ q.pc = "loop" => q.todo = Tail(req[r].todo)
      /\ q.result = cell
  <2>. DEFINE T == Seq(Selectors \cup {BadQuery})
              t == Tail(req[r].todo)
              y == [req[r] EXCEPT !.result = cell]
  <2>1. /\ q = IF code = "no_match" /\ req[r].web THEN [y EXCEPT !.pc = "loop", !.todo = t]
                                                  ELSE responds(y)
        /\ t \in T /\ y \in RequestStates /\ fallsBack(y) = fallsBack(req[r]) /\ y.result = cell
    BY <1>1, <1>3, <1>4 DEF failed, RequestStates, fallsBack
  <2>. HIDE DEF t, T, q, cell, y
  <2>2. CASE code = "no_match" /\ req[r].web
    <3>1. q = [y EXCEPT !.pc = "loop", !.todo = t]
      BY <2>1, <2>2
    <3>. QED BY <2>1, <2>2, <3>1 DEF t, T, RequestStates, fallsBack
  <2>3. CASE ~(code = "no_match" /\ req[r].web)
    BY <2>1, <2>3, Responds
  <2>. QED BY <2>2, <2>3
<1>. HIDE DEF q, cell
<1>6. resultSound(q, noHTTP[r])
  BY <1>3, <1>5 DEF resultSound
<1>7. ASSUME q.pc = "loop", fallsBack(q)
      PROVE  \/ noHTTP[r]
             \/ \A i \in 1..Len(q.todo) : q.todo[i] # NoSelector
  <2>1. /\ code = "no_match" /\ fallsBack(req[r]) /\ req[r].pc = "query"
        /\ view[Head(req[r].todo)] = NoRef
        /\ req[r].todo # << >> /\ req[r].todo \in Seq(Selectors \cup {BadQuery})
        /\ todoSound(req[r], noHTTP[r])
    BY <1>1, <1>2, <1>5, <1>7 DEF GatewayInv, todoSound, RequestStates
  <2>2. CASE req[r].todo = <<HTTP, NoSelector>>
    BY SMT, <2>1, <2>2 DEF GatewayInv, HistoryKept
  <2>3. CASE \A i \in 1..Len(req[r].todo) : req[r].todo[i] # NoSelector
    <3>. DEFINE t == req[r].todo
    <3>0. q.todo = Tail(t) /\ t # << >> /\ t \in Seq(Selectors \cup {BadQuery})
      BY <1>5, <1>7, <2>1
    <3>. HIDE DEF t
    <3>2. \A i \in 1..Len(Tail(t)) : i + 1 \in 1..Len(t) /\ Tail(t)[i] = t[i + 1]
      BY SMT, <3>0
    <3>1. \A i \in 1..Len(q.todo) : i + 1 \in 1..Len(req[r].todo) /\ q.todo[i] = req[r].todo[i + 1]
      BY <3>0, <3>2 DEF t
    <3>. QED BY <2>3, <3>1
  <2>. QED BY <2>1, <2>2, <2>3 DEF todoSound
<1>8. todoSound(q, noHTTP[r])
  BY <1>5, <1>7 DEF todoSound
<1>9. q.pc \in {"loop", "respond"}
  BY <1>5
<1>. QED BY <1>5, <1>6, <1>8, <1>9 DEF q

(* What HandleQuery answers changes: the history of every request is kept, *)
(* and nothing that a request has found is undone.                         *)
LEMMA ViewStep ==
    ASSUME GatewayInv, NEW sel \in Selectors, NEW ref \in Refs \cup {NoRef}, ViewChanges(sel, ref)
    PROVE  GatewayInv'
<1>1. /\ view' \in [Selectors -> Refs \cup {NoRef}] /\ req' = req
      /\ \A r \in Requests : noHTTP'[r] = (noHTTP[r] \/ (fallsBack(req[r]) /\ view'[HTTP] = NoRef))
      /\ noHTTP' \in [Requests -> BOOLEAN]
  BY DEF ViewChanges, GatewayInv, GatewayTypeOK
<1>2. GatewayTypeOK'
  BY <1>1 DEF GatewayInv, GatewayTypeOK
<1>3. HistoryKept'
  BY <1>1 DEF HistoryKept
<1>4. \A r \in Requests : (noHTTP[r] => noHTTP'[r]) /\ req'[r] = req[r]
  BY <1>1
<1>5. \A r \in Requests : todoSound(req'[r], noHTTP'[r])
  BY SMT, <1>4 DEF GatewayInv, todoSound
<1>6. \A r \in Requests : resultSound(req'[r], noHTTP'[r])
  BY SMT, <1>4 DEF GatewayInv, resultSound
<1>. QED BY <1>2, <1>3, <1>5, <1>6 DEF GatewayInv

(* A request begins with the selectors its handler lists.                  *)
LEMMA BeginStep ==
    ASSUME GatewayInv, NEW r \in Requests, handleResource(r) \/ handleWeb(r)
    PROVE  GatewayInv' /\ fetching' = fetching /\ slots' = slots
<1>1. PICK web \in BOOLEAN, given \in BOOLEAN, todo \in Seq(Selectors \cup {BadQuery}) :
        /\ begin(r, web, given, todo)
        /\ web /\ ~given => todo = <<HTTP, NoSelector>> \/ \A i \in 1..Len(todo) : todo[i] # NoSelector
  <2>1. CASE \E sel \in Selectors : begin(r, FALSE, FALSE, <<sel>>)
    <3>1. PICK sel \in Selectors : begin(r, FALSE, FALSE, <<sel>>)
      BY <2>1
    <3>2. <<sel>> \in Seq(Selectors \cup {BadQuery})
      BY SMT
    <3>. QED BY <3>1, <3>2
  <2>2. CASE \E sel \in Selectors \cup {BadQuery} : begin(r, TRUE, TRUE, <<sel>>)
    <3>1. PICK sel \in Selectors \cup {BadQuery} : begin(r, TRUE, TRUE, <<sel>>)
      BY <2>2
    <3>2. <<sel>> \in Seq(Selectors \cup {BadQuery})
      BY SMT
    <3>. QED BY <3>1, <3>2
  <2>3. CASE begin(r, TRUE, FALSE, <<HTTP, NoSelector>>)
    <3>1. <<HTTP, NoSelector>> \in Seq(Selectors \cup {BadQuery})
      BY SMT, GatewayAssumption
    <3>. QED BY <2>3, <3>1
  <2>4. CASE begin(r, TRUE, FALSE, <<BadQuery, BadQuery>>)
    <3>1. BadQuery # NoSelector
      BY GatewayAssumption
    <3>2. /\ <<BadQuery, BadQuery>> \in Seq(Selectors \cup {BadQuery})
          /\ \A i \in 1..Len(<<BadQuery, BadQuery>>) : <<BadQuery, BadQuery>>[i] # NoSelector
      BY SMT, <3>1
    <3>. QED BY <2>4, <3>2
  <2>. QED BY <2>1, <2>2, <2>3, <2>4 DEF handleResource, handleWeb
<1>. DEFINE q == [idle EXCEPT !.pc = "loop", !.web = web, !.given = given, !.todo = todo]
<1>2. /\ q \in RequestStates
      /\ q.pc = "loop" /\ q.web = web /\ q.given = given /\ q.todo = todo /\ q.result = NotServed
  <2>. DEFINE T == Seq(Selectors \cup {BadQuery})
              All == [pc : {"idle", "loop", "query", "slot", "fetch", "respond"}, web : BOOLEAN,
                      given : BOOLEAN, todo : T, expired : BOOLEAN, result : Results]
  <2>1. idle \in All /\ todo \in T /\ idle.result = NotServed
    BY IdleTyped DEF RequestStates, idle
  <2>. HIDE DEF T
  <2>2. q \in All /\ q.pc = "loop" /\ q.web = web /\ q.given = given /\ q.todo = todo /\ q.result = NotServed
    BY <2>1
  <2>. QED BY <2>2 DEF T, RequestStates
<1>3. q.result.ref = NoRef
  BY SMT, <1>2 DEF NotServed
<1>4. /\ req[r].pc = "idle" /\ req' = [req EXCEPT ![r] = q]
      /\ noHTTP' = [noHTTP EXCEPT ![r] = fallsBack(req'[r]) /\ view[HTTP] = NoRef]
      /\ view' = view /\ slots' = slots
  BY <1>1, IdleTyped DEF begin
<1>. HIDE DEF q
<1>5. /\ req'[r] = q /\ \A s \in Requests : s # r => req'[s] = req[s] /\ noHTTP'[s] = noHTTP[s]
      /\ noHTTP'[r] = (fallsBack(req'[r]) /\ view[HTTP] = NoRef)
      /\ req' \in [Requests -> RequestStates] /\ noHTTP' \in [Requests -> BOOLEAN]
  BY <1>2, <1>4 DEF GatewayInv, GatewayTypeOK, fallsBack
<1>6. GatewayTypeOK'
  BY <1>4, <1>5 DEF GatewayInv, GatewayTypeOK
<1>7. HistoryKept'
  BY <1>4, <1>5 DEF GatewayInv, HistoryKept
<1>8. todoSound(q, noHTTP'[r]) /\ resultSound(q, noHTTP'[r])
  BY <1>1, <1>2, <1>3 DEF todoSound, resultSound, fallsBack
<1>9. \A s \in Requests : todoSound(req'[s], noHTTP'[s]) /\ resultSound(req'[s], noHTTP'[s])
  BY <1>5, <1>8 DEF GatewayInv
<1>10. fetching' = fetching
  BY <1>2, <1>4, <1>5 DEF fetching
<1>. QED BY <1>4, <1>6, <1>7, <1>9, <1>10 DEF GatewayInv

(* A step of one request moves at most that request in or out of the fetch.*)
LEMMA FetchingMoves ==
    ASSUME GatewayTypeOK, NEW r \in Requests, NEW q \in RequestStates, req' = [req EXCEPT ![r] = q]
    PROVE  fetching' = IF q.pc = "fetch" THEN fetching \cup {r} ELSE fetching \ {r}
<1>1. req'[r] = q /\ \A s \in Requests : s # r => req'[s] = req[s]
  BY DEF GatewayTypeOK
<1>. QED BY <1>1 DEF fetching

(* The requests in the fetch can be counted.                               *)
LEMMA FetchingFinite == IsFiniteSet(fetching) /\ Cardinality(fetching) \in Nat
<1>1. fetching \subseteq Requests
  BY DEF fetching
<1>. QED BY <1>1, GatewayAssumption, FS_Subset, FS_CardinalityType

(* Steps that neither take nor give back a slot.                           *)
LEMMA OutsideStep ==
    ASSUME GatewayInv, NEW r \in Requests,
           CtxDone(r) \/ TrySelector(r) \/ HandleQuery(r) \/ QueryFails(r) \/ Busy(r)
    PROVE  GatewayInv' /\ fetching' = fetching /\ slots' = slots
<1>. DEFINE x == req[r]
<1>1. x \in RequestStates /\ todoSound(x, noHTTP[r]) /\ resultSound(x, noHTTP[r]) /\ GatewayTypeOK
  BY DEF GatewayInv, GatewayTypeOK
<1>2. ASSUME NEW q \in RequestStates, req' = [req EXCEPT ![r] = q],
             fallsBack(q) = fallsBack(x), todoSound(q, noHTTP[r]), resultSound(q, noHTTP[r]),
             UNCHANGED <<view, slots, noHTTP>>, (x.pc = "fetch") <=> (q.pc = "fetch")
      PROVE  GatewayInv' /\ fetching' = fetching /\ slots' = slots
  <2>1. GatewayInv'
    BY <1>2, OneRequest
  <2>2. fetching' = fetching
    BY <1>1, <1>2, FetchingMoves DEF fetching
  <2>. QED BY <1>2, <2>1, <2>2
<1>3. CASE CtxDone(r)
  <2>. DEFINE q == [x EXCEPT !.expired = TRUE]
  <2>1. /\ q \in RequestStates /\ q.pc = x.pc /\ fallsBack(q) = fallsBack(x) /\ q.todo = x.todo
        /\ q.result = x.result
    BY <1>1, MovesOn
  <2>2. /\ req' = [req EXCEPT ![r] = q] /\ UNCHANGED <<view, slots, noHTTP>>
        /\ x.pc \in {"query", "slot", "fetch"}
    BY <1>3 DEF CtxDone
  <2>. HIDE DEF q
  <2>3. todoSound(q, noHTTP[r])
    BY <1>1, <2>1 DEF todoSound
  <2>4. resultSound(q, noHTTP[r])
    BY <1>1, <2>1 DEF resultSound
  <2>. QED BY <1>2, <2>1, <2>2, <2>3, <2>4
<1>4. CASE TrySelector(r)
  <2>0. x.pc = "loop" /\ UNCHANGED <<view, slots, noHTTP>> /\ x.todo \in Seq(Selectors \cup {BadQuery})
    BY <1>1, <1>4 DEF TrySelector, RequestStates
  <2>1. CASE x.todo = << >>
    <3>. DEFINE q == responds(x)
    <3>1. /\ q \in RequestStates /\ q.pc = "respond" /\ fallsBack(q) = fallsBack(x)
          /\ q.result = x.result
      BY <1>1, Responds
    <3>2. req' = [req EXCEPT ![r] = q]
      BY <1>4, <2>1 DEF TrySelector
    <3>. HIDE DEF q
    <3>3. todoSound(q, noHTTP[r]) /\ resultSound(q, noHTTP[r])
      BY <1>1, <2>0, <3>1 DEF todoSound, resultSound
    <3>. QED BY <1>2, <2>0, <3>1, <3>2, <3>3
  <2>2. CASE x.todo # << >> /\ Head(x.todo) = BadQuery
    <3>. DEFINE q == [x EXCEPT !.todo = Tail(@)]
                T == Seq(Selectors \cup {BadQuery})
                t == Tail(x.todo)
    <3>1. t \in T /\ \A i \in 1..Len(t) : i + 1 \in 1..Len(x.todo) /\ t[i] = x.todo[i + 1]
      BY SMT, <2>0, <2>2
    <3>2. /\ q \in RequestStates /\ q.pc = x.pc /\ fallsBack(q) = fallsBack(x) /\ q.todo = t
          /\ q.result = x.result
      <4>1. q = [x EXCEPT !.todo = t]
        OBVIOUS
      <4>. HIDE DEF t
      <4>2. q \in RequestStates
        BY <1>1, <3>1, <4>1 DEF RequestStates
      <4>. QED BY <1>1, <4>1, <4>2 DEF RequestStates, fallsBack
    <3>3. req' = [req EXCEPT ![r] = q]
      BY <1>4, <2>2 DEF TrySelector
    <3>. HIDE DEF q
    <3>4. todoSound(q, noHTTP[r])
      <4>1. x.todo # <<HTTP, NoSelector>>
        BY SMT, <2>2, GatewayAssumption
      <4>2. fallsBack(x) => noHTTP[r] \/ \A i \in 1..Len(x.todo) : x.todo[i] # NoSelector
        BY <1>1, <2>0, <4>1 DEF todoSound
      <4>3. fallsBack(q) => noHTTP[r] \/ \A i \in 1..Len(q.todo) : q.todo[i] # NoSelector
        BY <3>1, <3>2, <4>2
      <4>. QED BY <2>0, <3>2, <4>3 DEF todoSound
    <3>5. resultSound(q, noHTTP[r])
      BY <1>1, <2>0, <3>2 DEF resultSound
    <3>. QED BY <1>2, <2>0, <3>2, <3>3, <3>4, <3>5
  <2>3. CASE x.todo # << >> /\ Head(x.todo) # BadQuery
    <3>. DEFINE q == [x EXCEPT !.pc = "query"]
    <3>1. /\ q \in RequestStates /\ q.pc = "query" /\ fallsBack(q) = fallsBack(x) /\ q.todo = x.todo
          /\ q.result = x.result
      BY <1>1, MovesOn
    <3>2. req' = [req EXCEPT ![r] = q]
      BY <1>4, <2>3 DEF TrySelector
    <3>3. Head(x.todo) \in Selectors
      BY SMT, <2>0, <2>3
    <3>. HIDE DEF q
    <3>4. todoSound(q, noHTTP[r])
      BY <1>1, <2>0, <2>3, <3>1, <3>3 DEF todoSound
    <3>5. resultSound(q, noHTTP[r])
      BY <1>1, <2>0, <3>1 DEF resultSound
    <3>. QED BY <1>2, <2>0, <3>1, <3>2, <3>4, <3>5
  <2>. QED BY <2>1, <2>2, <2>3
<1>5. ASSUME NEW code \in {"no_match", "error"}, x.pc \in {"query", "slot"},
             code = "no_match" => x.pc = "query" /\ view[Head(x.todo)] = NoRef,
             req' = [req EXCEPT ![r] = failed(r, code)], UNCHANGED <<view, slots, noHTTP>>
      PROVE  GatewayInv' /\ fetching' = fetching /\ slots' = slots
  <2>1. /\ failed(r, code) \in RequestStates /\ fallsBack(failed(r, code)) = fallsBack(x)
        /\ failed(r, code).pc \in {"loop", "respond"}
        /\ todoSound(failed(r, code), noHTTP[r]) /\ resultSound(failed(r, code), noHTTP[r])
    BY <1>5, FailedSound
  <2>. QED BY <1>2, <1>5, <2>1
<1>6. CASE QueryFails(r) \/ Busy(r)
  BY <1>5, <1>6 DEF QueryFails, Busy
<1>7. CASE HandleQuery(r)
  <2>. DEFINE sel == Head(x.todo)
              ref == view[sel]
              res == [code |-> "none", selector |-> sel, ref |-> ref]
              q == [x EXCEPT !.pc = "slot", !.result = res]
  <2>1. x.pc = "query" /\ UNCHANGED <<view, slots, noHTTP>> /\ x.todo # << >> /\ sel \in Selectors
    BY <1>1, <1>7 DEF HandleQuery, todoSound
  <2>2. ref \in Refs \cup {NoRef}
    BY <1>1, <2>1 DEF GatewayTypeOK
  <2>3. CASE refused(ref) # "none"
    <3>1. refused(ref) \in {"no_match", "error"} /\ (refused(ref) = "no_match" => ref = NoRef)
      BY <2>3 DEF refused
    <3>2. req' = [req EXCEPT ![r] = failed(r, refused(ref))]
      BY <1>7, <2>3 DEF HandleQuery
    <3>. QED BY <1>5, <2>1, <3>1, <3>2
  <2>4. CASE refused(ref) = "none"
    <3>1. ref # NoRef /\ ref.sound
      BY <2>4 DEF refused
    <3>2. req' = [req EXCEPT ![r] = q]
      BY <1>7, <2>4 DEF HandleQuery
    <3>3. res \in Results /\ res.selector = sel /\ res.ref = ref
      BY <2>1, <2>2 DEF Results
    <3>. HIDE DEF res, ref, sel
    <3>4. /\ q \in RequestStates /\ q.pc = "slot" /\ fallsBack(q) = fallsBack(x) /\ q.todo = x.todo
          /\ q.result = res
      BY <1>1, <3>3 DEF RequestStates, fallsBack
    <3>. HIDE DEF q
    <3>5. todoSound(q, noHTTP[r])
      BY <2>1, <3>4 DEF todoSound
    <3>6. fallsBack(x) /\ sel = NoSelector => noHTTP[r]
      <4>. SUFFICES ASSUME fallsBack(x), sel = NoSelector PROVE noHTTP[r]
        OBVIOUS
      <4>1. x.todo \in Seq(Selectors \cup {BadQuery})
        BY <1>1 DEF RequestStates
      <4>2. Len(x.todo) >= 1 /\ x.todo[1] = NoSelector
        BY SMT, <2>1, <4>1 DEF sel
      <4>3. x.todo # <<HTTP, NoSelector>>
        BY SMT, <4>2, GatewayAssumption
      <4>. QED BY SMT, <1>1, <2>1, <4>1, <4>2, <4>3 DEF todoSound
    <3>7. resultSound(q, noHTTP[r])
      BY <3>1, <3>3, <3>4, <3>6 DEF resultSound
    <3>. QED BY <1>2, <2>1, <3>2, <3>4, <3>5, <3>7
  <2>. QED BY <2>3, <2>4
<1>. QED BY <1>3, <1>4, <1>6, <1>7

(* The step that takes a slot, those that give it back, and the response.  *)
LEMMA InsideStep ==
    ASSUME GatewayInv, NEW r \in Requests,
           Acquire(r) \/ Fetched(r) \/ FetchFails(r) \/ Respond(r)
    PROVE  /\ GatewayInv'
           /\ Acquire(r) => r \notin fetching /\ fetching' = fetching \cup {r}
           /\ Fetched(r) \/ FetchFails(r) => r \in fetching /\ fetching' = fetching \ {r}
           /\ Respond(r) => fetching' = fetching
<1>. DEFINE x == req[r]
<1>1. x \in RequestStates /\ todoSound(x, noHTTP[r]) /\ resultSound(x, noHTTP[r]) /\ GatewayTypeOK
  BY DEF GatewayInv, GatewayTypeOK
<1>2. CASE Acquire(r)
  <2>. DEFINE q == [x EXCEPT !.pc = "fetch"]
  <2>1. /\ q \in RequestStates /\ q.pc = "fetch" /\ fallsBack(q) = fallsBack(x) /\ q.todo = x.todo
        /\ q.result = x.result
    BY <1>1, MovesOn
  <2>2. /\ req' = [req EXCEPT ![r] = q] /\ UNCHANGED <<view, noHTTP>> /\ x.pc = "slot"
    BY <1>2 DEF Acquire
  <2>. HIDE DEF q
  <2>3. todoSound(q, noHTTP[r]) /\ resultSound(q, noHTTP[r])
    BY <1>1, <2>1, <2>2 DEF todoSound, resultSound
  <2>4. GatewayInv'
    BY <2>1, <2>2, <2>3, OneRequest
  <2>5. fetching' = fetching \cup {r} /\ r \notin fetching
    BY <1>1, <2>1, <2>2, FetchingMoves DEF fetching
  <2>. QED BY <1>2, <2>2, <2>4, <2>5 DEF Fetched, FetchFails, Respond
<1>3. ASSUME x.pc = "fetch", UNCHANGED <<view, noHTTP>>, req' = [req EXCEPT ![r] = failed(r, "error")]
      PROVE  GatewayInv' /\ r \in fetching /\ fetching' = fetching \ {r}
  <2>1. /\ failed(r, "error") \in RequestStates
        /\ fallsBack(failed(r, "error")) = fallsBack(x) /\ failed(r, "error").pc # "fetch"
        /\ todoSound(failed(r, "error"), noHTTP[r]) /\ resultSound(failed(r, "error"), noHTTP[r])
    BY <1>3, FailedSound
  <2>2. GatewayInv'
    BY <1>3, <2>1, OneRequest
  <2>. QED BY <1>1, <1>3, <2>1, <2>2, FetchingMoves DEF fetching
<1>4. CASE FetchFails(r)
  BY <1>3, <1>4 DEF FetchFails, Acquire, Respond
<1>5. CASE Fetched(r)
  <2>. DEFINE bad == ~typeOK(x.result.ref) /\ enforceType
  <2>1. CASE bad
    BY <1>3, <1>5, <2>1 DEF Fetched, Acquire, Respond
  <2>2. CASE ~bad
    <3>. DEFINE q == responds(x)
    <3>1. /\ q \in RequestStates /\ q.pc = "respond" /\ fallsBack(q) = fallsBack(x)
          /\ q.result = x.result
      BY <1>1, Responds
    <3>2. /\ req' = [req EXCEPT ![r] = q] /\ UNCHANGED <<view, noHTTP>> /\ x.pc = "fetch"
      BY <1>5, <2>2 DEF Fetched
    <3>. HIDE DEF q
    <3>3. todoSound(q, noHTTP[r])
      BY <3>1 DEF todoSound
    <3>4. resultSound(q, noHTTP[r])
      BY <1>1, <2>2, <3>1, <3>2 DEF resultSound
    <3>5. GatewayInv'
      BY <3>1, <3>2, <3>3, <3>4, OneRequest
    <3>6. r \in fetching /\ fetching' = fetching \ {r}
      BY <1>1, <3>1, <3>2, FetchingMoves DEF fetching
    <3>. QED BY <3>2, <3>5, <3>6 DEF Acquire, Respond
  <2>. QED BY <2>1, <2>2
<1>6. CASE Respond(r)
  <2>1. /\ req' = [req EXCEPT ![r] = idle] /\ noHTTP' = [noHTTP EXCEPT ![r] = FALSE]
        /\ view' = view /\ x.pc = "respond"
    BY <1>6 DEF Respond
  <2>2. /\ req'[r] = idle /\ \A s \in Requests : s # r => req'[s] = req[s] /\ noHTTP'[s] = noHTTP[s]
        /\ GatewayTypeOK'
    BY <1>1, <2>1, IdleTyped DEF GatewayTypeOK
  <2>3. HistoryKept'
    <3>1. ~fallsBack(idle)
      BY DEF fallsBack, idle
    <3>. QED BY <2>1, <2>2, <3>1 DEF GatewayInv, HistoryKept
  <2>4. todoSound(idle, noHTTP'[r]) /\ resultSound(idle, noHTTP'[r])
    BY IdleTyped DEF todoSound, resultSound
  <2>5. \A s \in Requests : todoSound(req'[s], noHTTP'[s]) /\ resultSound(req'[s], noHTTP'[s])
    BY <2>2, <2>4 DEF GatewayInv
  <2>6. fetching' = fetching
    BY <1>1, <2>1, IdleTyped, FetchingMoves DEF fetching
  <2>. QED BY <2>1, <2>2, <2>3, <2>5, <2>6 DEF GatewayInv, Acquire, Fetched, FetchFails
<1>. QED BY <1>2, <1>4, <1>5, <1>6

(* The slots taken are counted along with the soundness of what is found.  *)
LEMMA GatewayInvariant == Spec => [](GatewayInv /\ SlotsExact)
<1>1. Init => GatewayInv /\ SlotsExact
  <2>. SUFFICES ASSUME Init PROVE GatewayInv /\ SlotsExact
    OBVIOUS
  <2>1. GatewayTypeOK /\ \A r \in Requests : req[r].pc = "idle"
    BY IdleTyped, GatewayAssumption DEF Init, GatewayTypeOK
  <2>2. GatewayInv
    BY <2>1 DEF Init, GatewayInv, HistoryKept, fallsBack, idle, todoSound, resultSound
  <2>3. fetching = {}
    BY <2>1 DEF fetching
  <2>4. Cardinality(fetching) = 0
    BY <2>3, FS_EmptySet
  <2>. QED BY SMT, <2>2, <2>4, GatewayAssumption DEF SlotsExact, fetching, Init
<1>2. ASSUME GatewayInv, SlotsExact, [Next]_vars PROVE (GatewayInv /\ SlotsExact)'
  <2>. DEFINE n == Cardinality(fetching)
  <2>1. IsFiniteSet(fetching) /\ n \in Nat /\ slots = n /\ n <= maxConcurrentResourceFetches
    BY <1>2, FetchingFinite DEF SlotsExact, fetching
  <2>2. ASSUME GatewayInv', fetching' = fetching, slots' = slots PROVE (GatewayInv /\ SlotsExact)'
    BY <1>2, <2>2 DEF SlotsExact, fetching
  <2>3. CASE UNCHANGED vars
    <3>1. GatewayInv'
      BY <1>2, <2>3 DEF vars, GatewayInv, GatewayTypeOK, HistoryKept
    <3>. QED BY <2>2, <2>3, <3>1 DEF vars, fetching
  <2>4. CASE \E sel \in Selectors, ref \in Refs \cup {NoRef} : ViewChanges(sel, ref)
    <3>1. GatewayInv'
      BY <1>2, <2>4, ViewStep
    <3>2. req' = req /\ slots' = slots
      BY <2>4 DEF ViewChanges
    <3>. QED BY <2>2, <3>1, <3>2 DEF fetching
  <2>5. ASSUME NEW r \in Requests, handleResource(r) \/ handleWeb(r) PROVE (GatewayInv /\ SlotsExact)'
    BY <1>2, <2>2, <2>5, BeginStep
  <2>6. ASSUME NEW r \in Requests,
               CtxDone(r) \/ TrySelector(r) \/ HandleQuery(r) \/ QueryFails(r) \/ Busy(r)
        PROVE  (GatewayInv /\ SlotsExact)'
    BY <1>2, <2>2, <2>6, OutsideStep
  <2>7. ASSUME NEW r \in Requests, Respond(r) PROVE (GatewayInv /\ SlotsExact)'
    <3>1. slots' = slots
      BY <2>7 DEF Respond
    <3>. QED BY <1>2, <2>2, <2>7, <3>1, InsideStep
  <2>8. ASSUME NEW r \in Requests, Acquire(r) PROVE (GatewayInv /\ SlotsExact)'
    <3>1. GatewayInv' /\ r \notin fetching /\ fetching' = fetching \cup {r}
      BY <1>2, <2>8, InsideStep
    <3>2. slots' = slots + 1 /\ slots < maxConcurrentResourceFetches
      BY <2>8 DEF Acquire
    <3>3. Cardinality(fetching \cup {r}) = n + 1
      BY <2>1, <3>1, FS_AddElement
    <3>4. slots' = Cardinality(fetching') /\ slots' <= maxConcurrentResourceFetches
      BY SMT, <2>1, <3>1, <3>2, <3>3, GatewayAssumption
    <3>. QED BY <3>1, <3>4 DEF SlotsExact, fetching
  <2>9. ASSUME NEW r \in Requests, Fetched(r) \/ FetchFails(r) PROVE (GatewayInv /\ SlotsExact)'
    <3>1. GatewayInv' /\ r \in fetching /\ fetching' = fetching \ {r}
      BY <1>2, <2>9, InsideStep
    <3>2. slots' = slots - 1
      BY <2>9 DEF Fetched, FetchFails, release
    <3>3. Cardinality(fetching \ {r}) = n - 1
      BY <2>1, <3>1, FS_RemoveElement
    <3>4. slots' = Cardinality(fetching') /\ slots' <= maxConcurrentResourceFetches
      BY SMT, <2>1, <3>1, <3>2, <3>3, GatewayAssumption
    <3>. QED BY <3>1, <3>4 DEF SlotsExact, fetching
  <2>. QED BY <1>2, <2>3, <2>4, <2>5, <2>6, <2>7, <2>8, <2>9 DEF Next, Step
<1>. QED BY <1>1, <1>2, PTL DEF Spec

(* fetchVerifiedResource: the deferred receive gives back each slot taken, *)
(* on every path, for any number of requests and slots.                    *)
THEOREM SlotsAreGivenBack == Spec => []SlotsExact
BY GatewayInvariant, PTL

(* handleResource and handleWeb: whatever is served was signed by the      *)
(* owner and is of the type declared, and /web, asked for no selector,     *)
(* falls back only when HTTP had no record, whatever the records are and   *)
(* however they change.                                                    *)
THEOREM OnlyAnchoredIsServed == Spec => []ServedIsAnchored
<1>1. ASSUME GatewayInv PROVE ServedIsAnchored
  <2>. SUFFICES ASSUME NEW r \in Requests, serves(r)
                PROVE  LET ref == req[r].result.ref
                       IN  /\ ref.sound
                           /\ enforceType /\ isText(baseType[ref.detected]) =>
                                baseType[ref.declared] \in Textual \cup {"", "application/octet-stream"}
                           /\ fallsBack(req[r]) /\ req[r].result.selector = NoSelector => noHTTP[r]
    BY DEF ServedIsAnchored
  <2>. DEFINE ref == req[r].result.ref
  <2>1. /\ ref.sound
        /\ fallsBack(req[r]) /\ req[r].result.selector = NoSelector => noHTTP[r]
        /\ enforceType => typeOK(ref)
    BY <1>1 DEF GatewayInv, resultSound, serves
  <2>2. typeOK(ref) /\ isText(baseType[ref.detected]) =>
          baseType[ref.declared] \in Textual \cup {"", "application/octet-stream"}
    BY DEF typeOK, Validate, isText
  <2>. QED BY <2>1, <2>2
<1>. QED BY <1>1, GatewayInvariant, PTL

-----------------------------------------------------------------------------
(* ddns-fetch.                                                             *)

Answers ==
    [resolver : Resolvers, header : [Headers -> Strings], ownerVerified : BOOLEAN, body : Files,
     signature : {signatureOf(s) : s \in Served}]

FetchInv ==
    /\ got \in Answers
    /\ client \in {"write", "done"} => verified(got)

(* Sequences with the same elements are the same.                          *)
LEMMA SameSequence ==
    ASSUME NEW s \in Seq(Nat), NEW t \in Seq(Nat), Len(s) = Len(t),
           \A i \in 1..Len(s) : s[i] = t[i]
    PROVE  s = t
BY SMT

(* Concatenation, as an operator that the provers leave alone.             *)
cat(s, t) == s \o t

(* What follows a string that begins with its length can be told from it.  *)
LEMMA PrefixDecodes ==
    ASSUME NEW s \in Seq(Nat), NEW t \in Seq(Nat), NEW rest \in Seq(Nat), NEW more \in Seq(Nat),
           cat(writeStr(s), rest) = cat(writeStr(t), more)
    PROVE  s = t /\ rest = more
<1>1. \A u \in Seq(Nat), r \in Seq(Nat) :
        /\ writeStr(u) \o r \in Seq(Nat)
        /\ Len(writeStr(u) \o r) = 1 + Len(u) + Len(r)
        /\ (writeStr(u) \o r)[1] = Len(u)
        /\ \A i \in 1..Len(u) : (writeStr(u) \o r)[i + 1] = u[i]
        /\ \A i \in 1..Len(r) : (writeStr(u) \o r)[i + Len(u) + 1] = r[i]
  BY SMT DEF writeStr
<1>. DEFINE m == writeStr(s) \o rest
            n == writeStr(t) \o more
<1>2. /\ Len(m) = 1 + Len(s) + Len(rest) /\ m[1] = Len(s)
      /\ \A i \in 1..Len(s) : m[i + 1] = s[i]
      /\ \A i \in 1..Len(rest) : m[i + Len(s) + 1] = rest[i]
  BY <1>1
<1>3. /\ Len(n) = 1 + Len(t) + Len(more) /\ n[1] = Len(t)
      /\ \A i \in 1..Len(t) : n[i + 1] = t[i]
      /\ \A i \in 1..Len(more) : n[i + Len(t) + 1] = more[i]
  BY <1>1
<1>m. m = n
  BY DEF cat
<1>. HIDE DEF m, n
<1>4. Len(s) = Len(t) /\ Len(rest) = Len(more)
  BY SMT, <1>2, <1>3, <1>m
<1>5. \A i \in 1..Len(s) : s[i] = t[i]
  BY <1>2, <1>3, <1>4, <1>m
<1>6. \A i \in 1..Len(rest) : rest[i] = more[i]
  BY <1>2, <1>3, <1>4, <1>m
<1>. QED BY <1>4, <1>5, <1>6, SameSequence

(* Concatenation is associative.                                           *)
LEMMA Regroup ==
    ASSUME NEW s \in Seq(Nat), NEW t \in Seq(Nat), NEW u \in Seq(Nat)
    PROVE  cat(s, t) \in Seq(Nat) /\ cat(cat(s, t), u) = cat(s, cat(t, u))
BY SMT DEF cat

(* The same for five sequences at a time.                                  *)
LEMMA RegroupFour ==
    ASSUME NEW s \in Seq(Nat), NEW t \in Seq(Nat), NEW u \in Seq(Nat), NEW v \in Seq(Nat),
           NEW w \in Seq(Nat)
    PROVE  /\ cat(cat(cat(s, t), u), v) \in Seq(Nat)
           /\ cat(cat(cat(cat(s, t), u), v), w) = cat(s, cat(t, cat(u, cat(v, w))))
<1>1. /\ cat(s, t) \in Seq(Nat) /\ cat(cat(s, t), u) \in Seq(Nat)
      /\ cat(v, w) \in Seq(Nat) /\ cat(u, cat(v, w)) \in Seq(Nat)
  BY Regroup
<1>2. cat(cat(cat(cat(s, t), u), v), w) = cat(cat(cat(s, t), u), cat(v, w))
  BY SMT, <1>1, Regroup
<1>3. cat(cat(cat(s, t), u), cat(v, w)) = cat(cat(s, t), cat(u, cat(v, w)))
  BY SMT, <1>1, Regroup
<1>4. cat(cat(s, t), cat(u, cat(v, w))) = cat(s, cat(t, cat(u, cat(v, w))))
  BY SMT, <1>1, Regroup
<1>. QED BY <1>1, <1>2, <1>3, <1>4, Regroup

(* The manifest with its parts grouped from the right: what is left after  *)
(* each part that is read, the verdict being v and the digest d.           *)
fromZKProof(h, v, d)     == cat(writeStr(h["zkProof"]), <<d>>)
fromVerdict(h, v, d)     == cat(<<v>>, fromZKProof(h, v, d))
fromContentType(h, v, d) == cat(writeStr(h["contentType"]), fromVerdict(h, v, d))
fromSha(h, v, d)         == cat(writeStr(h["sha"]), fromContentType(h, v, d))
fromInfoHash(h, v, d)    == cat(writeStr(h["infoHash"]), fromSha(h, v, d))
fromPubKey(h, v, d)      == cat(writeStr(h["pubKey"]), fromInfoHash(h, v, d))
fromOwner(h, v, d)       == cat(writeStr(h["owner"]), fromPubKey(h, v, d))

(* What writeStr puts into the manifest.                                   *)
LEMMA StringsWritten ==
    ASSUME NEW h \in [Headers -> Strings], NEW x \in Headers
    PROVE  h[x] \in Seq(Nat) /\ writeStr(h[x]) \in Seq(Nat)
<1>1. h[x] \in Seq(Nat)
  BY FetchAssumption
<1>. QED BY SMT, <1>1 DEF writeStr

(* The manifest is the same, however its parts are grouped.                *)
LEMMA ManifestGrouped ==
    ASSUME NEW h \in [Headers -> Strings], NEW v, NEW f \in Files
    PROVE  ResourceManifest(h, v, f) = fromOwner(h, IF v THEN 1 ELSE 0, sha256[f])
<1>. DEFINE a == writeStr(h["owner"])
            b == writeStr(h["pubKey"])
            c == writeStr(h["infoHash"])
            d == writeStr(h["sha"])
            e == writeStr(h["contentType"])
            w == <<IF v THEN 1 ELSE 0>>
            g == writeStr(h["zkProof"])
            k == <<sha256[f]>>
            l == cat(cat(cat(a, b), c), d)
            r == cat(e, cat(w, cat(g, k)))
<1>1. /\ a \in Seq(Nat) /\ b \in Seq(Nat) /\ c \in Seq(Nat) /\ d \in Seq(Nat) /\ e \in Seq(Nat)
      /\ g \in Seq(Nat)
  BY StringsWritten DEF Headers
<1>2. w \in Seq(Nat) /\ k \in Seq(Nat)
  BY SMT, FetchAssumption
<1>3. /\ ResourceManifest(h, v, f) = cat(cat(cat(cat(l, e), w), g), k)
      /\ fromOwner(h, IF v THEN 1 ELSE 0, sha256[f]) = cat(a, cat(b, cat(c, cat(d, r))))
  BY DEF ResourceManifest, fromOwner, fromPubKey, fromInfoHash, fromSha, fromContentType, fromVerdict,
         fromZKProof, cat
<1>. HIDE DEF a, b, c, d, e, w, g, k
<1>4. l \in Seq(Nat) /\ r \in Seq(Nat)
  BY <1>1, <1>2, Regroup
<1>5. cat(cat(cat(cat(l, e), w), g), k) = cat(l, r)
  BY SMT, <1>1, <1>2, <1>4, RegroupFour
<1>6. cat(l, r) = cat(a, cat(b, cat(c, cat(d, r))))
  BY SMT, <1>1, <1>4, RegroupFour
<1>. QED BY <1>3, <1>5, <1>6

(* What is left of a manifest is a sequence of bytes.                      *)
LEMMA PartsTyped ==
    ASSUME NEW h \in [Headers -> Strings], NEW v \in Nat, NEW d \in Nat
    PROVE  /\ fromZKProof(h, v, d) \in Seq(Nat) /\ fromVerdict(h, v, d) \in Seq(Nat)
           /\ fromContentType(h, v, d) \in Seq(Nat) /\ fromSha(h, v, d) \in Seq(Nat)
           /\ fromInfoHash(h, v, d) \in Seq(Nat) /\ fromPubKey(h, v, d) \in Seq(Nat)
<1>1. \A x \in Headers : writeStr(h[x]) \in Seq(Nat)
  BY StringsWritten
<1>2. <<v>> \in Seq(Nat) /\ <<d>> \in Seq(Nat)
  BY SMT
<1>3. fromZKProof(h, v, d) \in Seq(Nat)
  BY <1>1, <1>2, Regroup DEF Headers, fromZKProof
<1>4. fromVerdict(h, v, d) \in Seq(Nat)
  BY <1>1, <1>2, <1>3, Regroup DEF Headers, fromVerdict
<1>5. fromContentType(h, v, d) \in Seq(Nat)
  BY <1>1, <1>2, <1>4, Regroup DEF Headers, fromContentType
<1>6. fromSha(h, v, d) \in Seq(Nat)
  BY <1>1, <1>2, <1>5, Regroup DEF Headers, fromSha
<1>7. fromInfoHash(h, v, d) \in Seq(Nat)
  BY <1>1, <1>2, <1>6, Regroup DEF Headers, fromInfoHash
<1>8. fromPubKey(h, v, d) \in Seq(Nat)
  BY <1>1, <1>2, <1>7, Regroup DEF Headers, fromPubKey
<1>. QED BY <1>3, <1>4, <1>5, <1>6, <1>7, <1>8

(* Nor does a byte before a sequence change what follows it.               *)
LEMMA AfterOne ==
    ASSUME NEW v \in Nat, NEW w \in Nat, NEW rest \in Seq(Nat), NEW more \in Seq(Nat),
           <<v>> \o rest = <<w>> \o more
    PROVE  rest = more
<1>1. \A x \in Nat, s \in Seq(Nat) :
        Len(<<x>> \o s) = 1 + Len(s) /\ \A i \in 1..Len(s) : (<<x>> \o s)[i + 1] = s[i]
  BY SMT
<1>. DEFINE m == <<v>> \o rest
<1>2. Len(m) = 1 + Len(rest) /\ \A i \in 1..Len(rest) : m[i + 1] = rest[i]
  BY <1>1
<1>. DEFINE n == <<w>> \o more
<1>3. Len(n) = 1 + Len(more) /\ \A i \in 1..Len(more) : n[i + 1] = more[i]
  BY <1>1
<1>4. m = n
  OBVIOUS
<1>. HIDE DEF m, n
<1>5. Len(rest) = Len(more) /\ \A i \in 1..Len(rest) : rest[i] = more[i]
  BY SMT, <1>2, <1>3, <1>4
<1>. QED BY <1>5, SameSequence

(* No two answers have the same manifest.                                  *)
LEMMA ManifestDecodes ==
    ASSUME NEW h \in [Headers -> Strings], NEW v, NEW f \in Files,
           NEW i \in [Headers -> Strings], NEW w, NEW g \in Files,
           ResourceManifest(h, v, f) = ResourceManifest(i, w, g)
    PROVE  h = i /\ f = g
<1>. DEFINE m == IF v THEN 1 ELSE 0
            n == IF w THEN 1 ELSE 0
            c == sha256[f]
            d == sha256[g]
<1>1. m \in Nat /\ n \in Nat /\ c \in Nat /\ d \in Nat
  BY FetchAssumption
<1>2. fromOwner(h, m, c) = fromOwner(i, n, d)
  BY SMT, ManifestGrouped
<1>. HIDE DEF m, n, c, d
<1>3. /\ h["owner"] \in Seq(Nat) /\ i["owner"] \in Seq(Nat)
      /\ h["pubKey"] \in Seq(Nat) /\ i["pubKey"] \in Seq(Nat)
      /\ h["infoHash"] \in Seq(Nat) /\ i["infoHash"] \in Seq(Nat)
      /\ h["sha"] \in Seq(Nat) /\ i["sha"] \in Seq(Nat)
      /\ h["contentType"] \in Seq(Nat) /\ i["contentType"] \in Seq(Nat)
      /\ h["zkProof"] \in Seq(Nat) /\ i["zkProof"] \in Seq(Nat)
  BY StringsWritten DEF Headers
<1>4. h["owner"] = i["owner"] /\ fromPubKey(h, m, c) = fromPubKey(i, n, d)
  <2>1. cat(writeStr(h["owner"]), fromPubKey(h, m, c)) = cat(writeStr(i["owner"]), fromPubKey(i, n, d))
    BY <1>2 DEF fromOwner
  <2>2. fromPubKey(h, m, c) \in Seq(Nat) /\ fromPubKey(i, n, d) \in Seq(Nat)
    BY <1>1, PartsTyped
  <2>. QED BY SMT, <1>3, <2>1, <2>2, PrefixDecodes
<1>5. h["pubKey"] = i["pubKey"] /\ fromInfoHash(h, m, c) = fromInfoHash(i, n, d)
  <2>1. cat(writeStr(h["pubKey"]), fromInfoHash(h, m, c))
          = cat(writeStr(i["pubKey"]), fromInfoHash(i, n, d))
    BY <1>4 DEF fromPubKey
  <2>2. fromInfoHash(h, m, c) \in Seq(Nat) /\ fromInfoHash(i, n, d) \in Seq(Nat)
    BY <1>1, PartsTyped
  <2>. QED BY SMT, <1>3, <2>1, <2>2, PrefixDecodes
<1>6. h["infoHash"] = i["infoHash"] /\ fromSha(h, m, c) = fromSha(i, n, d)
  <2>1. cat(writeStr(h["infoHash"]), fromSha(h, m, c)) = cat(writeStr(i["infoHash"]), fromSha(i, n, d))
    BY <1>5 DEF fromInfoHash
  <2>2. fromSha(h, m, c) \in Seq(Nat) /\ fromSha(i, n, d) \in Seq(Nat)
    BY <1>1, PartsTyped
  <2>. QED BY SMT, <1>3, <2>1, <2>2, PrefixDecodes
<1>7. h["sha"] = i["sha"] /\ fromContentType(h, m, c) = fromContentType(i, n, d)
  <2>1. cat(writeStr(h["sha"]), fromContentType(h, m, c))
          = cat(writeStr(i["sha"]), fromContentType(i, n, d))
    BY <1>6 DEF fromSha
  <2>2. fromContentType(h, m, c) \in Seq(Nat) /\ fromContentType(i, n, d) \in Seq(Nat)
    BY <1>1, PartsTyped
  <2>. QED BY SMT, <1>3, <2>1, <2>2, PrefixDecodes
<1>8. h["contentType"] = i["contentType"] /\ fromVerdict(h, m, c) = fromVerdict(i, n, d)
  <2>1. cat(writeStr(h["contentType"]), fromVerdict(h, m, c))
          = cat(writeStr(i["contentType"]), fromVerdict(i, n, d))
    BY <1>7 DEF fromContentType
  <2>2. fromVerdict(h, m, c) \in Seq(Nat) /\ fromVerdict(i, n, d) \in Seq(Nat)
    BY <1>1, PartsTyped
  <2>. QED BY SMT, <1>3, <2>1, <2>2, PrefixDecodes
<1>9. fromZKProof(h, m, c) = fromZKProof(i, n, d)
  <2>1. fromZKProof(h, m, c) \in Seq(Nat) /\ fromZKProof(i, n, d) \in Seq(Nat)
    BY <1>1, PartsTyped
  <2>2. <<m>> \o fromZKProof(h, m, c) = <<n>> \o fromZKProof(i, n, d)
    BY <1>8 DEF fromVerdict, cat
  <2>. QED BY <1>1, <2>1, <2>2, AfterOne
<1>10. h["zkProof"] = i["zkProof"] /\ <<c>> = <<d>>
  <2>1. <<c>> \in Seq(Nat) /\ <<d>> \in Seq(Nat)
    BY SMT, <1>1
  <2>2. cat(writeStr(h["zkProof"]), <<c>>) = cat(writeStr(i["zkProof"]), <<d>>)
    BY <1>9 DEF fromZKProof
  <2>3. \A p, q \in Seq(Nat) :
          cat(writeStr(h["zkProof"]), p) = cat(writeStr(i["zkProof"]), q)
             => h["zkProof"] = i["zkProof"] /\ p = q
    BY SMT, <1>3, PrefixDecodes
  <2>. QED BY <2>1, <2>2, <2>3
<1>11. f = g
  BY <1>10, FetchAssumption DEF c, d
<1>12. \A x \in Headers : h[x] = i[x]
  BY <1>4, <1>5, <1>6, <1>7, <1>8, <1>10 DEF Headers
<1>. QED BY SMT, <1>11, <1>12

(* What ddns-fetch goes on to write has passed its checks.                 *)
LEMMA FetchInvariant == FetchSpec => []FetchInv
<1>1. ASSUME NEW s \in Served PROVE respond(s) \in Answers
  BY FetchAssumption DEF respond, Answers
<1>2. FetchInit => FetchInv
  BY <1>1 DEF FetchInit, FetchInv
<1>3. FetchInv /\ [FetchNext]_fetchVars => FetchInv'
  <2>. SUFFICES ASSUME FetchInv, [FetchNext]_fetchVars PROVE FetchInv'
    OBVIOUS
  <2>1. CASE Arrives
    BY <2>1 DEF Arrives, FetchInv, Answers
  <2>2. CASE NoAnswer \/ UNCHANGED fetchVars
    BY <2>2 DEF NoAnswer, fetchVars, FetchInv, verified, VerifyResourceSignature
  <2>3. CASE Check \/ WriteFile
    BY <2>3 DEF Check, WriteFile, FetchInv, verified, VerifyResourceSignature
  <2>4. CASE Again
    BY <1>1, <2>4 DEF Again, FetchInv
  <2>. QED BY <2>1, <2>2, <2>3, <2>4 DEF FetchNext
<1>. QED BY <1>2, <1>3, PTL DEF FetchSpec

(* ddns-fetch and ResourceManifest: the lengths make the manifest tell all *)
(* answers apart, so that a file is kept only as the resolver served it,   *)
(* whatever the strings, the files and what happens on the way.            *)
THEOREM KeptFilesAreServed == FetchSpec => []KeptAsServed
<1>1. ASSUME FetchInv PROVE KeptAsServed
  <2>. SUFFICES ASSUME client = "done"
                PROVE  \E s \in Served :
                         s.resolver = got.resolver /\ s.header = got.header /\ s.body = got.body
    BY DEF KeptAsServed
  <2>1. /\ got \in Answers
        /\ got.signature = [key |-> got.resolver,
                            manifest |-> ResourceManifest(got.header, got.ownerVerified, got.body)]
    BY <1>1 DEF FetchInv, verified, VerifyResourceSignature
  <2>2. PICK s \in Served : got.signature = signatureOf(s)
    BY <2>1 DEF Answers
  <2>3. /\ s.resolver = got.resolver
        /\ ResourceManifest(s.header, TRUE, s.body) =
             ResourceManifest(got.header, got.ownerVerified, got.body)
    <3>. DEFINE m == ResourceManifest(s.header, TRUE, s.body)
                n == ResourceManifest(got.header, got.ownerVerified, got.body)
    <3>1. [key |-> s.resolver, manifest |-> m] = [key |-> got.resolver, manifest |-> n]
      BY <2>1, <2>2 DEF signatureOf
    <3>. HIDE DEF m, n
    <3>2. s.resolver = got.resolver /\ m = n
      <4>1. \A k, x : [key |-> k, manifest |-> x].key = k /\ [key |-> k, manifest |-> x].manifest = x
        OBVIOUS
      <4>. QED BY <3>1, <4>1
    <3>. QED BY <3>2 DEF m, n
  <2>4. /\ s.header \in [Headers -> Strings] /\ s.body \in Files
        /\ got.header \in [Headers -> Strings] /\ got.ownerVerified \in BOOLEAN /\ got.body \in Files
    BY <2>1, FetchAssumption DEF Answers
  <2>5. s.header = got.header /\ s.body = got.body
    <3>1. PICK v, w : ResourceManifest(s.header, v, s.body) = ResourceManifest(got.header, w, got.body)
      BY <2>3
    <3>2. \A h, i \in [Headers -> Strings], f, g \in Files :
            ResourceManifest(h, v, f) = ResourceManifest(i, w, g) => h = i /\ f = g
      BY SMT, ManifestDecodes
    <3>. QED BY <2>4, <3>1, <3>2
  <2>. QED BY <2>3, <2>5
<1>. QED BY <1>1, FetchInvariant, PTL
=============================================================================
