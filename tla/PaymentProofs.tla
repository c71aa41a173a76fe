--------------------------- MODULE PaymentProofs ----------------------------
(***************************************************************************)
(* The payment channels: each deposit goes to the two parties of its       *)
(* channel, as the client signed, and what the payment commands report is  *)
(* so, for any number of channels, vouchers, processes and commands.  The  *)
(* commitments to records: a proof is good for one message only, for any   *)
(* radix, chunks and field that a chunk fits in.                           *)
(***************************************************************************)
EXTENDS PaymentCLI, RecordCommitment, LoopTheorems

(* Leaves are for Zenon unless they name another prover.                   *)
USE ZenonT(20)

(* The types of what the argument is about; the balance is not.            *)
ChannelType ==
    /\ now \in Nat
    /\ nonce \in 0..MaxChannels
    /\ channels \in [Ids -> Channel \cup {NoChannel}]
    /\ opened \in [Ids -> Channel \cup {NoChannel}]
    /\ vouchers \subseteq Voucher
    /\ paid \in [Ids -> Nat] /\ refunded \in [Ids -> Nat]

(* An id the nonce has not reached is blank.                               *)
Blank(id) ==
    /\ channels[id] = NoChannel /\ opened[id] = NoChannel
    /\ paid[id] = 0 /\ refunded[id] = 0

(* A claim is covered by the deposit and by one voucher.                   *)
Covered(id) ==
    /\ paid[id] <= opened[id].deposit
    /\ paid[id] # 0 =>
         \E v \in vouchers : /\ v.id = id
                             /\ v.signer = opened[id].client
                             /\ paid[id] <= v.cumulative

(* A channel is as it was opened but for its claims, or it is settled.     *)
Accounted(id) ==
    /\ opened[id] \in Channel
    /\ Covered(id)
    /\ \/ /\ channels[id] = [opened[id] EXCEPT !.claimed = paid[id]]
          /\ refunded[id] = 0
       \/ /\ channels[id] = NoChannel
          /\ paid[id] + refunded[id] = opened[id].deposit
          /\ now >= opened[id].expiresAt + SETTLEMENT_WINDOW

ChannelInv ==
    /\ ChannelType
    /\ \A id \in Ids : IF id < nonce THEN Accounted(id) ELSE Blank(id)

(* A channel record is never mistaken for the empty slot.                  *)
LEMMA OpenIsChannel ==
    ASSUME ChannelInv, NEW id \in Ids
    PROVE  /\ isOpen(id) <=> channels[id] \in Channel
           /\ isOpen(id) => id < nonce
           /\ ~isOpen(id) => channels[id] = NoChannel
<1>1. channels[id] \in Channel => channels[id].client # ZeroAddress
  BY IncentivesAssumption DEF Channel
<1>2. NoChannel.client = ZeroAddress
  BY DEF NoChannel
<1>3. channels[id] \in Channel \cup {NoChannel}
  BY DEF ChannelInv, ChannelType
<1> QED
  BY <1>1, <1>2, <1>3 DEF isOpen, ChannelInv, Blank

(* No channel is open when the contract is deployed.                       *)
LEMMA ChannelInit == Init => ChannelInv
<1> SUFFICES ASSUME Init PROVE ChannelInv
  OBVIOUS
<1>1. ChannelType
  BY SMT, IncentivesAssumption DEF Init, ChannelType, Ids
<1>2. \A id \in Ids : ~(id < nonce) /\ Blank(id)
  BY SMT DEF Init, Blank, Ids
<1> QED
  BY <1>1, <1>2 DEF ChannelInv

(* openChannel fills the id its nonce names, which was blank.              *)
LEMMA OpenStep ==
    ASSUME ChannelInv, NEW a \in Accounts, NEW r \in Accounts \cup {ZeroAddress},
           NEW v \in Nat, NEW d \in Nat, openChannel(a, r, v, d)
    PROVE  ChannelInv'
<1> DEFINE lasts == IF d < MIN_DURATION THEN MIN_DURATION ELSE d
           ch == [client |-> a, resolver |-> r, deposit |-> v, claimed |-> 0,
                  expiresAt |-> now + lasts]
           stored == [client |-> a, resolver |-> r, deposit |-> v, claimed |-> 0,
                      expiresAt |-> uint64(now + lasts)]
<1>1. /\ nonce \in Ids
      /\ now + lasts \in 0..MAX_UINT64
      /\ lasts \in Nat
  <2>1. nonce < MaxChannels /\ fitsUint64(now + lasts)
    BY DEF openChannel
  <2>. QED BY SMT, <2>1, IncentivesAssumption DEF fitsUint64, ChannelInv, ChannelType, Ids
<1>2. /\ channels' = [channels EXCEPT ![nonce] = ch]
      /\ opened' = [opened EXCEPT ![nonce] = ch]
      /\ nonce' = nonce + 1
      /\ UNCHANGED <<now, vouchers, paid, refunded>>
  <2>1. uint64(now + lasts) = now + lasts
    BY SMT, <1>1, IncentivesAssumption DEF uint64
  <2>2. stored = ch /\ [stored EXCEPT !.expiresAt = now + lasts] = ch
    BY SMT, <2>1
  <2>. QED BY <2>1, <2>2 DEF openChannel
<1>3. ch \in Channel
  BY <1>1, IncentivesAssumption DEF openChannel, Channel
<1> HIDE DEF lasts
<1>4. ChannelType'
  <2> HIDE DEF ch
  <2>1. nonce' \in 0..MaxChannels
    BY SMT, <1>1, <1>2, IncentivesAssumption DEF Ids
  <2> QED
    BY <2>1, <1>1, <1>2, <1>3 DEF ChannelInv, ChannelType
<1>5. ASSUME NEW id \in Ids
      PROVE  (IF id < nonce THEN Accounted(id) ELSE Blank(id))'
  <2>1. CASE id = nonce
    <3>1. Blank(id)
      BY SMT, <2>1, <1>1 DEF ChannelInv, Ids
    <3>2. /\ opened'[id] = ch /\ channels'[id] = ch
          /\ paid'[id] = 0 /\ refunded'[id] = 0
      BY <3>1, <2>1, <1>2 DEF ChannelInv, ChannelType, Blank
    <3>3. channels'[id] = [opened'[id] EXCEPT !.claimed = paid'[id]]
      BY SMT, <3>2
    <3>4. Covered(id)'
      BY SMT, <3>2, <1>3 DEF Covered, Channel
    <3> QED
      BY SMT, <3>2, <3>3, <3>4, <2>1, <1>1, <1>2, <1>3 DEF Accounted, Ids
  <2>2. CASE id # nonce
    <3>1. /\ opened'[id] = opened[id] /\ channels'[id] = channels[id]
          /\ paid'[id] = paid[id] /\ refunded'[id] = refunded[id]
      BY <2>2, <1>2 DEF ChannelInv, ChannelType
    <3>2. id < nonce' <=> id < nonce
      BY SMT, <2>2, <1>1, <1>2 DEF Ids
    <3> QED
      BY <3>1, <3>2, <1>2 DEF ChannelInv, Accounted, Covered, Blank
  <2> QED
    BY <2>1, <2>2
<1> QED
  BY <1>4, <1>5 DEF ChannelInv

(* A voucher more leaves what was paid covered.                            *)
LEMMA SignStep ==
    ASSUME ChannelInv, NEW a \in Accounts, NEW i \in Ids, NEW c \in Nat,
           SignVoucher(a, i, c)
    PROVE  ChannelInv'
<1>1. /\ vouchers' = vouchers \cup {[signer |-> a, id |-> i, cumulative |-> c]}
      /\ UNCHANGED <<now, channels, nonce, opened, paid, refunded>>
  BY DEF SignVoucher
<1>2. [signer |-> a, id |-> i, cumulative |-> c] \in Voucher
  BY IncentivesAssumption DEF Voucher
<1>3. ChannelType'
  BY <1>1, <1>2 DEF ChannelInv, ChannelType
<1>4. \A id \in Ids : Covered(id) => Covered(id)'
  BY <1>1 DEF Covered
<1> QED
  BY <1>1, <1>3, <1>4 DEF ChannelInv, Accounted, Blank

(* claim pays the difference up to what the voucher and the deposit allow. *)
LEMMA ClaimStep ==
    ASSUME ChannelInv, NEW a \in Accounts, NEW i \in Ids, NEW c \in Nat,
           claim(a, i, c)
    PROVE  ChannelInv'
<1> DEFINE ch   == channels[i]
           upTo == effective(ch, c)
<1>1. i < nonce /\ ch \in Channel
  BY OpenIsChannel DEF claim, mayClaim
<1>2. /\ opened[i] \in Channel
      /\ ch = [opened[i] EXCEPT !.claimed = paid[i]]
      /\ refunded[i] = 0
  <2>1. NoChannel \notin Channel
    BY IncentivesAssumption DEF NoChannel, Channel
  <2> QED
    BY <1>1, <2>1 DEF ChannelInv, Accounted
<1>3. /\ ch.claimed = paid[i] /\ ch.deposit = opened[i].deposit
      /\ ch.client = opened[i].client
      /\ ch.deposit \in Nat /\ ch.claimed \in Nat
  BY <1>2, <1>1 DEF Channel
<1>4. /\ upTo \in Nat /\ upTo > ch.claimed
      /\ upTo <= ch.deposit /\ upTo <= c
  BY SMT, <1>3, IncentivesAssumption DEF claim, mayClaim, effective
<1>5. /\ channels' = [channels EXCEPT ![i].claimed = upTo]
      /\ paid' = [paid EXCEPT ![i] = @ + (upTo - ch.claimed)]
      /\ UNCHANGED <<now, nonce, vouchers, opened, refunded>>
  BY DEF claim, payDelta
<1>6. [signer |-> ch.client, id |-> i, cumulative |-> c] \in vouchers
  BY DEF claim, mayClaim, signedBy
<1> HIDE DEF upTo
<1>7. paid'[i] = upTo /\ paid' \in [Ids -> Nat]
  BY SMT, <1>3, <1>4, <1>5 DEF ChannelInv, ChannelType
<1>8. channels'[i] = [opened[i] EXCEPT !.claimed = paid'[i]]
  <2>1. channels'[i] = [ch EXCEPT !.claimed = upTo]
    BY <1>5 DEF ChannelInv, ChannelType
  <2> QED
    BY <2>1, <1>2, <1>7 DEF Channel
<1>9. channels'[i] \in Channel
  BY <1>8, <1>7, <1>4, <1>2 DEF Channel
<1>10. ChannelType'
  BY <1>5, <1>7, <1>9 DEF ChannelInv, ChannelType
<1>11. Covered(i)'
  <2> DEFINE v == [signer |-> ch.client, id |-> i, cumulative |-> c]
  <2>1. /\ v \in vouchers' /\ v.id = i /\ v.signer = opened'[i].client
        /\ paid'[i] <= v.cumulative
    BY <1>3, <1>4, <1>5, <1>6, <1>7
  <2>2. paid'[i] <= opened'[i].deposit
    BY <1>3, <1>4, <1>5, <1>7
  <2> HIDE DEF v
  <2> QED
    BY <2>1, <2>2 DEF Covered
<1>12. Accounted(i)'
  BY <1>2, <1>5, <1>8, <1>11 DEF Accounted
<1>13. ASSUME NEW id \in Ids, id # i
       PROVE  (IF id < nonce THEN Accounted(id) ELSE Blank(id))'
  <2>1. channels'[id] = channels[id] /\ paid'[id] = paid[id]
    BY <1>13, <1>5 DEF ChannelInv, ChannelType
  <2> QED
    BY <2>1, <1>5 DEF ChannelInv, Accounted, Covered, Blank
<1> QED
  BY <1>1, <1>5, <1>10, <1>12, <1>13 DEF ChannelInv

(* closeChannel returns what was not claimed, after the window.            *)
LEMMA CloseStep ==
    ASSUME ChannelInv, NEW a \in Accounts, NEW i \in Ids, closeChannel(a, i)
    PROVE  ChannelInv'
<1> DEFINE ch == channels[i]
<1>1. i < nonce /\ ch \in Channel
  BY OpenIsChannel DEF closeChannel
<1>2. /\ opened[i] \in Channel /\ Covered(i)
      /\ ch = [opened[i] EXCEPT !.claimed = paid[i]]
      /\ refunded[i] = 0
  <2>1. NoChannel \notin Channel
    BY IncentivesAssumption DEF NoChannel, Channel
  <2> QED
    BY <1>1, <2>1 DEF ChannelInv, Accounted
<1>3. /\ ch.claimed = paid[i] /\ ch.deposit = opened[i].deposit
      /\ ch.expiresAt = opened[i].expiresAt
      /\ paid[i] \in Nat /\ opened[i].deposit \in Nat /\ paid[i] <= opened[i].deposit
  BY <1>2, <1>1 DEF Channel, Covered, ChannelInv, ChannelType
<1>4. /\ channels' = [channels EXCEPT ![i] = NoChannel]
      /\ refunded' = [refunded EXCEPT ![i] = @ + (ch.deposit - ch.claimed)]
      /\ now >= ch.expiresAt + SETTLEMENT_WINDOW
      /\ UNCHANGED <<now, nonce, vouchers, opened, paid>>
  BY DEF closeChannel, remainder, settled
<1>5. /\ refunded'[i] = opened[i].deposit - paid[i]
      /\ refunded' \in [Ids -> Nat]
      /\ channels'[i] = NoChannel
  BY SMT, <1>2, <1>3, <1>4 DEF ChannelInv, ChannelType
<1>6. ChannelType'
  BY <1>4, <1>5 DEF ChannelInv, ChannelType
<1>7. Accounted(i)'
  <2>1. Covered(i)'
    BY <1>2, <1>4 DEF Covered
  <2> QED
    BY SMT, <2>1, <1>2, <1>3, <1>4, <1>5 DEF Accounted
<1>8. ASSUME NEW id \in Ids, id # i
      PROVE  (IF id < nonce THEN Accounted(id) ELSE Blank(id))'
  <2>1. channels'[id] = channels[id] /\ refunded'[id] = refunded[id]
    BY <1>8, <1>4 DEF ChannelInv, ChannelType
  <2> QED
    BY <2>1, <1>4 DEF ChannelInv, Accounted, Covered, Blank
<1> QED
  BY <1>1, <1>4, <1>6, <1>7, <1>8 DEF ChannelInv

(* Time may run past a window; it touches no channel.                      *)
LEMMA TickStep ==
    ASSUME ChannelInv, Tick
    PROVE  ChannelInv'
<1>1. /\ now' \in Nat /\ now' >= now
      /\ UNCHANGED <<channels, nonce, vouchers, opened, paid, refunded>>
  BY SMT DEF Tick, ChannelInv, ChannelType
<1>2. ASSUME NEW id \in Ids, Accounted(id) PROVE Accounted(id)'
  <2>1. opened[id].expiresAt \in Nat
    BY SMT, <1>2 DEF Accounted, Channel
  <2>2. now >= opened[id].expiresAt + SETTLEMENT_WINDOW =>
          now' >= opened[id].expiresAt + SETTLEMENT_WINDOW
    BY SMT, <2>1, <1>1, IncentivesAssumption DEF ChannelInv, ChannelType
  <2> QED
    BY <2>2, <1>1, <1>2 DEF Accounted, Covered
<1> QED
  BY <1>1, <1>2 DEF ChannelInv, ChannelType, Blank

(* A step that leaves the contract alone keeps its invariant.              *)
LEMMA StutterStep == ChannelInv /\ UNCHANGED vars => ChannelInv'
BY SMT DEF vars, ChannelInv, ChannelType, Accounted, Covered, Blank

(* Each function of the contract keeps the invariant.                      *)
LEMMA ChannelStep == ChannelInv /\ [Next]_vars => ChannelInv'
<1> SUFFICES ASSUME ChannelInv, [Next]_vars PROVE ChannelInv'
  OBVIOUS
<1>1. CASE Tick
  BY <1>1, TickStep
<1>2. CASE \E a \in Accounts, r \in Accounts \cup {ZeroAddress}, v \in Deposits,
              d \in Durations : openChannel(a, r, v, d)
  BY SMT, <1>2, OpenStep, IncentivesAssumption
<1>3. CASE \E a \in Accounts, id \in Ids, c \in Amounts : SignVoucher(a, id, c)
  BY <1>3, SignStep, IncentivesAssumption
<1>4. CASE \E a \in Accounts, id \in Ids, c \in Amounts : claim(a, id, c)
  BY <1>4, ClaimStep, IncentivesAssumption
<1>5. CASE \E a \in Accounts, id \in Ids : closeChannel(a, id)
  BY <1>5, CloseStep
<1>6. CASE UNCHANGED vars
  BY <1>6, StutterStep
<1> QED
  BY <1>1, <1>2, <1>3, <1>4, <1>5, <1>6 DEF Next

(* What the three properties take from the invariant.                      *)
LEMMA InvSuffices ==
    ASSUME ChannelInv
    PROVE  DepositSplit /\ PaidAsSigned /\ EarnedStaysClaimable
<1>1. \A id \in 0..(nonce - 1) : id \in Ids /\ id < nonce /\ Accounted(id)
  BY SMT, IncentivesAssumption DEF ChannelInv, ChannelType, Ids
<1>2. ASSUME NEW id \in 0..(nonce - 1), isOpen(id)
      PROVE  /\ channels[id] = [opened[id] EXCEPT !.claimed = paid[id]]
             /\ refunded[id] = 0
  BY SMT, <1>1, <1>2, OpenIsChannel DEF Accounted, isOpen, NoChannel
<1>3. ASSUME NEW id \in 0..(nonce - 1), ~isOpen(id)
      PROVE  /\ paid[id] + refunded[id] = opened[id].deposit
             /\ now >= opened[id].expiresAt + SETTLEMENT_WINDOW
  <2>1. opened[id] \in Channel
    BY <1>1 DEF Accounted
  <2>2. [opened[id] EXCEPT !.claimed = paid[id]].client # ZeroAddress
    BY <2>1, IncentivesAssumption DEF Channel
  <2> QED
    BY <1>1, <1>3, <2>2 DEF Accounted, isOpen
<1>4. DepositSplit
  BY <1>2, <1>3 DEF DepositSplit
<1>5. PaidAsSigned
  BY DEF PaidAsSigned, ChannelInv, Accounted, Covered, Blank
<1>6. ASSUME NEW id \in 0..(nonce - 1),
             now < opened[id].expiresAt + SETTLEMENT_WINDOW
      PROVE  isOpen(id)
  <2>1. opened[id].expiresAt \in Nat
    <3>1. opened[id] \in Channel
      BY <1>1 DEF Accounted
    <3> QED
      BY SMT, <3>1 DEF Channel
  <2> QED
    BY SMT, <1>3, <1>6, <2>1, IncentivesAssumption DEF ChannelInv, ChannelType
<1>7. ASSUME NEW id \in 0..(nonce - 1), isOpen(id), NEW v \in vouchers,
             v.id = id, v.signer = opened[id].client,
             paid[id] < v.cumulative, paid[id] < opened[id].deposit
      PROVE  mayClaim(opened[id].resolver, id, v.cumulative)
  <2>1. opened[id] \in Channel
    BY <1>1 DEF Accounted
  <2>2. /\ channels[id].claimed = paid[id]
        /\ channels[id].deposit = opened[id].deposit
        /\ channels[id].client = opened[id].client
        /\ channels[id].resolver = opened[id].resolver
    BY <1>2, <1>7, <2>1 DEF Channel
  <2>3. v = [signer |-> opened[id].client, id |-> id, cumulative |-> v.cumulative]
    BY <1>7 DEF ChannelInv, ChannelType, Voucher
  <2>4. signedBy(channels[id].client, id, v.cumulative)
    BY <2>2, <2>3 DEF signedBy
  <2>5. effective(channels[id], v.cumulative) > channels[id].claimed
    <3>1. v.cumulative \in Nat /\ opened[id].deposit \in Nat /\ paid[id] \in Nat
      BY <1>1, <2>1 DEF Channel, Voucher, ChannelInv, ChannelType
    <3> QED
      BY <3>1, <1>7, <2>2 DEF effective
  <2> QED
    BY <1>7, <2>2, <2>4, <2>5 DEF mayClaim
<1>8. EarnedStaysClaimable
  BY <1>6, <1>7 DEF EarnedStaysClaimable
<1> QED
  BY <1>4, <1>5, <1>8

(* closeChannel and claim split each deposit between the two parties       *)
(* without remainder, whatever was claimed and replayed before.            *)
THEOREM DepositsAreSplit == Spec => []DepositSplit
BY ChannelInit, ChannelStep, InvSuffices, PTL DEF Spec

(* All the claims on a channel together pay no more than one voucher that  *)
(* its client signed, and than its deposit.                                *)
THEOREM ResolversArePaidAsSigned == Spec => []PaidAsSigned
BY ChannelInit, ChannelStep, InvSuffices, PTL DEF Spec

(* Up to the end of the settlement window every voucher above what was     *)
(* paid can be redeemed.                                                   *)
THEOREM EarningsStayClaimable == Spec => []EarnedStaysClaimable
BY ChannelInit, ChannelStep, InvSuffices, PTL DEF Spec

-----------------------------------------------------------------------------
(* The payment commands.  A command is known by its number, so that a      *)
(* receipt goes to a process of the account that submitted; what a receipt *)
(* says is so when it is made, and no later transaction undoes it.         *)

Transactions ==
    [kind : {"open"}, resolver : Accounts, wei : Nat, duration : Nat]
    \cup [kind : {"claim"}, id : Ids, wei : Nat]
    \cup [kind : {"close"}, id : Ids]

Submitted == [tx : Transactions, cmd : Nat]

Receipts ==
    [pc : {"mined"}, cmd : Nat, tx : Transactions, status : {"successful", "reverted"}, id : Nat]

Commands == {idle} \cup [pc : {"mining"}, cmd : Nat, tx : Transactions] \cup Receipts

PayType ==
    /\ cli \in [Procs -> Commands]
    /\ pool \in [Accounts -> Seq(Submitted)]
    /\ commands \in Nat

Numbered ==
    /\ \A p \in Procs : cli[p] # idle => cli[p].cmd <= commands
    /\ \A a \in Accounts : \A i \in 1..Len(pool[a]) :
         /\ pool[a][i].cmd <= commands
         /\ \A p \in Procs : cli[p] # idle /\ cli[p].cmd = pool[a][i].cmd => account[p] = a

(* What has been reported, or is about to be.                              *)
reportOf(p) == [from |-> account[p], cmd |-> cli[p].cmd, tx |-> cli[p].tx, id |-> cli[p].id]

evidence ==
    reports \cup {reportOf(p) : p \in {q \in Procs : cli[q].pc = "mined" /\ successful(cli[q])}}

done(r) ==
    /\ r.id \in Ids /\ r.id < nonce
    /\ r.tx.kind = "open" => /\ opened[r.id].client = r.from
                             /\ opened[r.id].resolver = r.tx.resolver
                             /\ opened[r.id].deposit = r.tx.wei
    /\ r.tx.kind = "claim" => r.tx.wei \in Nat /\ paid[r.id] >= effective(opened[r.id], r.tx.wei)
    /\ r.tx.kind = "close" => ~isOpen(r.id) /\ refunded[r.id] = opened[r.id].deposit - paid[r.id]

distinct(E) ==
    \A r, s \in E : r.tx.kind = "open" /\ s.tx.kind = "open" /\ s.id = r.id => s = r

PayInv ==
    /\ ChannelInv /\ PayType /\ Numbered
    /\ \A r \in evidence : r.tx \in Transactions /\ done(r)
    /\ distinct(evidence)

(* What no function of the contract undoes: a channel stays as it was      *)
(* opened, payments only grow, and a closed channel is at rest.            *)
Kept ==
    /\ nonce' >= nonce
    /\ \A id \in Ids : id < nonce =>
         /\ opened'[id] = opened[id]
         /\ paid'[id] >= paid[id]
         /\ ~isOpen(id) => ~isOpen(id)' /\ paid'[id] = paid[id] /\ refunded'[id] = refunded[id]

(* Neither openChannel, claim nor closeChannel undoes an earlier one.      *)
LEMMA ContractKeeps ==
    ASSUME ChannelInv, NEW a, NEW id \in Ids, NEW r, NEW v \in Nat, NEW d,
           \/ Tick \/ SignVoucher(a, id, v) \/ openChannel(a, r, v, d) \/ claim(a, id, v)
           \/ closeChannel(a, id) \/ UNCHANGED vars
    PROVE  Kept
<1>0. /\ nonce \in Nat /\ paid \in [Ids -> Nat] /\ refunded \in [Ids -> Nat]
      /\ DOMAIN channels = Ids /\ DOMAIN opened = Ids
  BY SMT DEF ChannelInv, ChannelType
<1>1. CASE Tick \/ SignVoucher(a, id, v) \/ UNCHANGED vars
  BY SMT, <1>0, <1>1 DEF Tick, SignVoucher, vars, Kept, isOpen
<1>2. CASE openChannel(a, r, v, d)
  <2>1. \A i \in Ids : i < nonce => opened'[i] = opened[i] /\ channels'[i] = channels[i]
    BY SMT, <1>0, <1>2 DEF openChannel, Ids
  <2>. QED BY SMT, <1>0, <1>2, <2>1 DEF openChannel, Kept, isOpen
<1>3. CASE claim(a, id, v)
  <2>1. isOpen(id) /\ channels[id] \in Channel
    BY <1>3, OpenIsChannel DEF claim, mayClaim
  <2>. DEFINE pay == payDelta(channels[id], effective(channels[id], v))
  <2>2. pay \in Nat
    <3>1. channels[id].deposit \in Nat /\ channels[id].claimed \in Nat
      BY <2>1 DEF Channel
    <3>. QED BY SMT, <1>3, <3>1 DEF claim, mayClaim, effective, payDelta
  <2>3. paid' = [paid EXCEPT ![id] = @ + pay] /\ UNCHANGED <<nonce, opened, refunded>>
        /\ \A i \in Ids : i # id => channels'[i] = channels[i]
    BY <1>0, <1>3 DEF claim
  <2>. HIDE DEF pay
  <2>. QED BY SMT, <1>0, <2>1, <2>2, <2>3 DEF Kept, isOpen
<1>4. CASE closeChannel(a, id)
  <2>1. /\ isOpen(id) /\ UNCHANGED <<nonce, opened, paid>>
        /\ \A i \in Ids : i # id => channels'[i] = channels[i] /\ refunded'[i] = refunded[i]
    BY <1>0, <1>4 DEF closeChannel
  <2>. QED BY SMT, <1>0, <2>1 DEF Kept, isOpen
<1>. QED BY <1>1, <1>2, <1>3, <1>4

(* What a receipt says stays so while the contract keeps what it has.      *)
LEMMA DoneStays ==
    ASSUME ChannelInv, ChannelInv', Kept, NEW r, done(r)
    PROVE  done(r)'
<1>1. /\ r.id \in Ids /\ r.id < nonce /\ nonce \in Nat /\ nonce' \in Nat /\ r.id \in Nat
      /\ opened[r.id] \in Channel /\ paid[r.id] \in Nat /\ paid'[r.id] \in Nat
  <2>1. /\ r.id \in Ids /\ r.id < nonce /\ nonce \in 0..MaxChannels /\ nonce' \in 0..MaxChannels
        /\ Accounted(r.id) /\ paid \in [Ids -> Nat] /\ paid' \in [Ids -> Nat]
    BY DEF done, ChannelInv, ChannelType
  <2>2. \A k \in Ids : k \in Nat
    BY SMT DEF Ids
  <2>3. \A k \in 0..MaxChannels : k \in Nat
    BY SMT
  <2>. QED BY <2>1, <2>2, <2>3 DEF Accounted
<1>2. /\ opened'[r.id] = opened[r.id] /\ paid'[r.id] >= paid[r.id] /\ nonce' >= nonce
      /\ ~isOpen(r.id) => /\ ~isOpen(r.id)'
                          /\ paid'[r.id] = paid[r.id] /\ refunded'[r.id] = refunded[r.id]
  BY <1>1 DEF Kept
<1>3. opened[r.id].deposit \in Nat
  BY <1>1 DEF Channel
<1>. QED BY SMT, <1>1, <1>2, <1>3 DEF done, effective, isOpen

(* A step that brings no new receipt.                                      *)
LEMMA EvidenceStays ==
    ASSUME PayInv, ChannelInv', Kept, PayType', Numbered', evidence' \subseteq evidence
    PROVE  PayInv'
<1>1. \A r \in evidence : done(r)'
  BY DoneStays DEF PayInv
<1>2. distinct(evidence')
  BY DEF PayInv, distinct
<1>3. \A r \in evidence' : r.tx \in Transactions /\ done(r)'
  BY <1>1 DEF PayInv
<1>. QED BY <1>2, <1>3 DEF PayInv, distinct

(* What is typed is a whole number of wei.                                 *)
LEMMA EthIsNat ==
    ASSUME NEW t \in Typed
    PROVE  mustEth(t) \in Nat
<1>1. t.num \in Nat /\ t.den \in Nat /\ t.den > 0 /\ ether \in Nat
  BY SMT, PaymentAssumption
<1>2. t.num * ether \in Nat
  BY SMT, <1>1
<1>3. ASSUME NEW x \in Nat PROVE x \div t.den \in Nat
  BY SMT, <1>1
<1>. QED BY <1>2, <1>3 DEF mustEth

(* Submitting a transaction.                                               *)
LEMMA SendStep ==
    ASSUME PayInv, NEW p \in Procs, NEW tx \in Transactions, send(p, tx)
    PROVE  PayInv'
<1>. DEFINE a == account[p]
            e == [tx |-> tx, cmd |-> commands']
            w == [pc |-> "mining", cmd |-> commands', tx |-> tx]
<1>1. /\ cli[p] = idle /\ commands' = commands + 1 /\ UNCHANGED <<vars, reports>>
      /\ pool' = [pool EXCEPT ![a] = Append(@, e)] /\ cli' = [cli EXCEPT ![p] = w]
  BY DEF send, begin
<1>2. /\ commands \in Nat /\ commands' \in Nat /\ a \in Accounts
      /\ cli \in [Procs -> Commands] /\ pool \in [Accounts -> Seq(Submitted)]
  <2>1. a \in Accounts
    BY PaymentAssumption
  <2>2. commands \in Nat /\ cli \in [Procs -> Commands] /\ pool \in [Accounts -> Seq(Submitted)]
    BY DEF PayInv, PayType
  <2>3. commands' \in Nat
    BY SMT, <1>1, <2>2
  <2>. QED BY <2>1, <2>2, <2>3
<1>3. /\ e \in Submitted /\ e.cmd = commands + 1
      /\ w \in Commands /\ w.cmd = commands + 1 /\ w.pc = "mining" /\ w # idle
  BY <1>1, <1>2 DEF Submitted, Commands, idle
<1>. HIDE DEF a, e, w
<1>4. /\ cli'[p] = w /\ \A q \in Procs : q # p => cli'[q] = cli[q]
      /\ pool'[a] = Append(pool[a], e) /\ \A b \in Accounts : b # a => pool'[b] = pool[b]
      /\ PayType'
  BY SMT, <1>1, <1>2, <1>3 DEF PayType
<1>5. /\ Len(pool'[a]) = Len(pool[a]) + 1 /\ Len(pool[a]) \in Nat
      /\ pool'[a][Len(pool[a]) + 1] = e
      /\ \A i \in 1..Len(pool[a]) : pool'[a][i] = pool[a][i]
  BY SMT, <1>2, <1>4
<1>6. Numbered'
  <2>1. ASSUME NEW q \in Procs, cli'[q] # idle PROVE cli'[q].cmd <= commands'
    BY SMT, <1>1, <1>2, <1>3, <1>4, <2>1 DEF PayInv, PayType, Numbered, Commands, Receipts
  <2>2. ASSUME NEW b \in Accounts, NEW i \in 1..Len(pool'[b])
        PROVE  /\ pool'[b][i].cmd <= commands'
               /\ \A q \in Procs : cli'[q] # idle /\ cli'[q].cmd = pool'[b][i].cmd => account[q] = b
    <3>1. CASE b = a /\ i = Len(pool[a]) + 1
      <4>1. pool'[b][i].cmd = commands + 1
        BY <1>3, <1>5, <3>1
      <4>2. ASSUME NEW q \in Procs, cli'[q] # idle, cli'[q].cmd = commands + 1 PROVE q = p
        <5>1. ASSUME q # p PROVE FALSE
          BY SMT, <1>2, <1>4, <4>2, <5>1 DEF PayInv, Numbered
        <5>. QED BY <5>1
      <4>. QED BY SMT, <1>1, <1>2, <3>1, <4>1, <4>2 DEF a
    <3>2. CASE ~(b = a /\ i = Len(pool[a]) + 1)
      <4>1. i \in 1..Len(pool[b]) /\ pool'[b][i] = pool[b][i]
        BY SMT, <1>2, <1>4, <1>5, <3>2
      <4>2. /\ pool[b][i].cmd <= commands /\ pool[b][i].cmd \in Nat
            /\ \A q \in Procs : cli[q] # idle /\ cli[q].cmd = pool[b][i].cmd => account[q] = b
        <5>1. pool[b][i] \in Submitted
          BY SMT, <1>2, <4>1
        <5>. QED BY <4>1, <5>1 DEF PayInv, Numbered, Submitted
      <4>3. \A q \in Procs : cli'[q] # idle /\ cli'[q].cmd = pool'[b][i].cmd => account[q] = b
        BY SMT, <1>2, <1>3, <1>4, <4>1, <4>2
      <4>. QED BY SMT, <1>1, <1>2, <4>1, <4>2, <4>3
    <3>. QED BY <3>1, <3>2
  <2>. QED BY <2>1, <2>2 DEF Numbered
<1>7. evidence' \subseteq evidence
  BY SMT, <1>1, <1>3, <1>4 DEF evidence, reportOf, successful
<1>8. ChannelInv' /\ Kept
  <2>1. UNCHANGED vars
    BY <1>1
  <2>2. ChannelInv'
    BY <2>1, StutterStep DEF PayInv
  <2>3. Kept
    BY SMT, <2>1 DEF vars, Kept, isOpen, PayInv, ChannelInv, ChannelType
  <2>. QED BY <2>2, <2>3
<1>. QED BY <1>4, <1>6, <1>7, <1>8, EvidenceStays

(* A receipt, and where it goes.                                           *)
LEMMA MinedStep ==
    ASSUME PayInv, NEW a \in Accounts, pool[a] # << >>,
           NEW status \in {"successful", "reverted"}, NEW id \in Nat, mined(a, status, id),
           ChannelInv', Kept,
           NEW new,
           new = [from |-> a, cmd |-> Head(pool[a]).cmd, tx |-> Head(pool[a]).tx, id |-> id],
           status = "successful" =>
             /\ done(new)'
             /\ Head(pool[a]).tx.kind = "open" => id = nonce
    PROVE  PayInv'
<1>. DEFINE e == Head(pool[a])
            rcpt == [pc |-> "mined", cmd |-> e.cmd, tx |-> e.tx, status |-> status, id |-> id]
<1>1. /\ cli' = [p \in Procs |-> IF cli[p] # idle /\ cli[p].cmd = e.cmd THEN rcpt ELSE cli[p]]
      /\ pool' = [pool EXCEPT ![a] = Tail(@)] /\ UNCHANGED <<reports, commands>>
  BY DEF mined
<1>2. cli \in [Procs -> Commands] /\ pool \in [Accounts -> Seq(Submitted)] /\ commands \in Nat
  BY DEF PayInv, PayType
<1>3. pool[a] \in Seq(Submitted) /\ 1 \in 1..Len(pool[a]) /\ e = pool[a][1]
  BY SMT, <1>2
<1>4. e \in Submitted /\ e.tx \in Transactions /\ e.cmd \in Nat
  <2>1. e \in Submitted
    BY SMT, <1>3
  <2>2. \A x \in Submitted : x.tx \in Transactions /\ x.cmd \in Nat
    BY DEF Submitted
  <2>. QED BY <2>1, <2>2
<1>5. /\ rcpt \in Commands /\ rcpt.pc = "mined" /\ rcpt.cmd = e.cmd /\ rcpt.tx = e.tx
      /\ rcpt.status = status /\ rcpt.id = id /\ rcpt # idle
  BY <1>4 DEF Commands, Receipts, idle
<1>6. /\ new.tx = e.tx /\ new.id = id /\ new.from = a /\ new.cmd = e.cmd
      /\ new = [from |-> a, cmd |-> e.cmd, tx |-> e.tx, id |-> id]
  OBVIOUS
<1>. HIDE DEF e, rcpt
<1>7. /\ pool'[a] \in Seq(Submitted)
      /\ \A i \in 1..Len(pool'[a]) : i + 1 \in 1..Len(pool[a]) /\ pool'[a][i] = pool[a][i + 1]
      /\ \A b \in Accounts : b # a => pool'[b] = pool[b]
  <2>1. pool'[a] = Tail(pool[a]) /\ \A b \in Accounts : b # a => pool'[b] = pool[b]
    BY <1>1, <1>2
  <2>. QED BY SMT, <1>3, <2>1
<1>8. PayType'
  <2>1. cli' \in [Procs -> Commands]
    BY <1>1, <1>2, <1>5
  <2>2. pool' \in [Accounts -> Seq(Submitted)]
    BY <1>1, <1>2, <1>7
  <2>. QED BY <1>1, <1>2, <2>1, <2>2 DEF PayType
<1>9. \A p \in Procs : /\ cli'[p] # idle <=> cli[p] # idle
                       /\ cli[p] # idle => cli'[p].cmd = cli[p].cmd
  BY <1>1, <1>5
<1>10. Numbered'
  <2>1. \A p \in Procs : cli'[p] # idle => cli'[p].cmd <= commands'
    BY <1>1, <1>9 DEF PayInv, Numbered
  <2>2. ASSUME NEW b \in Accounts, NEW i \in 1..Len(pool'[b])
        PROVE  /\ pool'[b][i].cmd <= commands'
               /\ \A q \in Procs : cli'[q] # idle /\ cli'[q].cmd = pool'[b][i].cmd => account[q] = b
    <3>1. PICK j \in 1..Len(pool[b]) : pool'[b][i] = pool[b][j]
      BY <1>7
    <3>. QED BY SMT, <1>1, <1>9, <3>1 DEF PayInv, Numbered
  <2>. QED BY <2>1, <2>2 DEF Numbered
<1>11. \A p \in Procs : cli[p] # idle /\ cli[p].cmd = e.cmd => account[p] = a
  BY <1>3 DEF PayInv, Numbered
<1>12. ASSUME NEW r \in evidence' PROVE r \in evidence \/ (status = "successful" /\ r = new)
  <2>1. CASE r \in reports'
    BY <1>1, <2>1 DEF evidence
  <2>2. ASSUME NEW p \in Procs, cli'[p].pc = "mined", successful(cli'[p]), r = reportOf(p)'
        PROVE  r \in evidence \/ (status = "successful" /\ r = new)
    <3>1. CASE cli[p] # idle /\ cli[p].cmd = e.cmd
      <4>1. cli'[p] = rcpt /\ account[p] = a
        BY <1>1, <1>11, <3>1
      <4>. QED BY <1>5, <1>6, <2>2, <4>1 DEF reportOf, successful
    <3>2. CASE ~(cli[p] # idle /\ cli[p].cmd = e.cmd)
      <4>1. cli'[p] = cli[p]
        BY <1>1, <3>2
      <4>2. r = reportOf(p) /\ cli[p].pc = "mined" /\ successful(cli[p])
        BY <2>2, <4>1 DEF reportOf
      <4>. QED BY <4>2 DEF evidence
    <3>. QED BY <3>1, <3>2
  <2>. QED BY <2>1, <2>2 DEF evidence
<1>13. status = "successful" => done(new)' /\ (e.tx.kind = "open" => id = nonce)
  BY DEF e
<1>14. ASSUME NEW r \in evidence PROVE done(r)' /\ r.tx \in Transactions /\ r.id # nonce
  <2>1. done(r) /\ r.tx \in Transactions
    BY DEF PayInv
  <2>2. done(r)'
    BY <2>1, DoneStays DEF PayInv
  <2>3. r.id # nonce
    <3>1. r.id \in Ids /\ r.id < nonce /\ nonce \in 0..MaxChannels
      BY <2>1 DEF done, PayInv, ChannelInv, ChannelType
    <3>. QED BY SMT, <3>1 DEF Ids
  <2>. QED BY <2>1, <2>2, <2>3
<1>15. \A r \in evidence' : r.tx \in Transactions /\ done(r)'
  BY <1>4, <1>6, <1>12, <1>13, <1>14
<1>16. distinct(evidence')
  <2>. SUFFICES ASSUME NEW r \in evidence', NEW s \in evidence',
                       r.tx.kind = "open", s.tx.kind = "open", s.id = r.id
                PROVE  s = r
    BY DEF distinct
  <2>1. CASE r \in evidence /\ s \in evidence
    BY <2>1 DEF PayInv, distinct
  <2>2. CASE r \notin evidence \/ s \notin evidence
    BY <1>6, <1>12, <1>13, <1>14, <2>2
  <2>. QED BY <2>1, <2>2
<1>. QED BY <1>8, <1>10, <1>15, <1>16 DEF PayInv, distinct

(* A function that does not revert does what its receipt will say.         *)
LEMMA CallStep ==
    ASSUME ChannelInv, NEW a \in Accounts, NEW tx \in Transactions, call(a, tx),
           NEW c, NEW new, new = [from |-> a, cmd |-> c, tx |-> tx, id |-> loggedId(tx)]
    PROVE  /\ ChannelInv' /\ Kept /\ loggedId(tx) \in Nat /\ done(new)'
           /\ tx.kind = "open" => loggedId(tx) = nonce
<1>1. new.from = a /\ new.tx = tx /\ new.id = loggedId(tx)
  OBVIOUS
<1>2. nonce \in Nat /\ \A i \in Ids : i \in Nat
  BY SMT DEF ChannelInv, ChannelType, Ids
<1>3. ASSUME tx.kind = "open", openChannel(a, tx.resolver, tx.wei, tx.duration)
      PROVE  ChannelInv' /\ Kept /\ loggedId(tx) = nonce /\ done(new)'
  <2>1. tx.resolver \in Accounts /\ tx.wei \in Nat /\ tx.duration \in Nat
    BY <1>3 DEF Transactions
  <2>2. ChannelInv'
    BY <1>3, <2>1, OpenStep
  <2>3. nonce \in Ids
    BY SMT, <1>2, <1>3, IncentivesAssumption DEF openChannel, Ids
  <2>4. Kept
    BY <1>3, <2>1, <2>3, ContractKeeps
  <2>5. /\ opened'[nonce].client = a /\ opened'[nonce].resolver = tx.resolver
        /\ opened'[nonce].deposit = tx.wei /\ nonce' = nonce + 1
    BY <1>3, <2>3 DEF openChannel, ChannelInv, ChannelType
  <2>. QED BY SMT, <1>1, <1>2, <1>3, <2>2, <2>3, <2>4, <2>5 DEF loggedId, done
<1>4. ASSUME tx.kind = "claim", claim(a, tx.id, tx.wei)
      PROVE  ChannelInv' /\ Kept /\ loggedId(tx) \in Nat /\ done(new)'
  <2>1. tx.id \in Ids /\ tx.wei \in Nat
    BY <1>4 DEF Transactions
  <2>2. ChannelInv' /\ Kept
    BY <1>4, <2>1, ClaimStep, ContractKeeps
  <2>. DEFINE i == tx.id
              ch == channels[i]
              upTo == effective(ch, tx.wei)
  <2>3. isOpen(i) /\ i < nonce /\ ch \in Channel
    BY <1>4, <2>1, OpenIsChannel DEF claim, mayClaim
  <2>4. opened[i] \in Channel /\ ch = [opened[i] EXCEPT !.claimed = paid[i]] /\ paid[i] \in Nat
    <3>1. NoChannel \notin Channel
      BY IncentivesAssumption DEF NoChannel, Channel
    <3>. QED BY <2>1, <2>3, <3>1 DEF ChannelInv, ChannelType, Accounted
  <2>5. ch.claimed = paid[i] /\ ch.deposit = opened[i].deposit /\ ch.deposit \in Nat
    BY <2>3, <2>4 DEF Channel
  <2>6. upTo \in Nat /\ upTo = effective(opened[i], tx.wei)
    BY <2>1, <2>5 DEF effective
  <2>7. paid' = [paid EXCEPT ![i] = @ + (upTo - ch.claimed)] /\ UNCHANGED <<nonce, opened>>
    BY <1>4 DEF claim, payDelta
  <2>8. paid'[i] = upTo
    <3>. HIDE DEF upTo
    <3>1. paid'[i] = paid[i] + (upTo - ch.claimed)
      BY <2>1, <2>7 DEF ChannelInv, ChannelType
    <3>. QED BY SMT, <2>4, <2>5, <2>6, <3>1
  <2>9. paid'[i] >= effective(opened'[i], tx.wei)
    BY SMT, <2>6, <2>7, <2>8
  <2>. QED BY <1>1, <1>2, <1>4, <2>1, <2>2, <2>3, <2>7, <2>9 DEF loggedId, done
<1>5. ASSUME tx.kind = "close", closeChannel(a, tx.id)
      PROVE  ChannelInv' /\ Kept /\ loggedId(tx) \in Nat /\ done(new)'
  <2>1. tx.id \in Ids
    BY <1>5 DEF Transactions
  <2>2. ChannelInv' /\ Kept
    <3>1. 0 \in Nat
      OBVIOUS
    <3>. QED BY <1>5, <2>1, <3>1, CloseStep, ContractKeeps
  <2>3. /\ isOpen(tx.id) /\ channels'[tx.id] = NoChannel /\ nonce' = nonce
    BY <1>5, <2>1 DEF closeChannel, ChannelInv, ChannelType
  <2>4. ~isOpen(tx.id)' /\ tx.id < nonce'
    BY SMT, <2>1, <2>3, OpenIsChannel DEF isOpen, NoChannel
  <2>5. refunded'[tx.id] = opened'[tx.id].deposit - paid'[tx.id]
    <3>1. Accounted(tx.id)'
      BY <2>1, <2>2, <2>4 DEF ChannelInv
    <3>2. /\ opened'[tx.id].deposit \in Nat /\ paid'[tx.id] \in Nat /\ refunded'[tx.id] \in Nat
          /\ [opened'[tx.id] EXCEPT !.claimed = paid'[tx.id]].client # ZeroAddress
      BY <2>1, <2>2, <3>1, IncentivesAssumption DEF Accounted, Channel, ChannelInv, ChannelType
    <3>3. paid'[tx.id] + refunded'[tx.id] = opened'[tx.id].deposit
      BY <2>4, <3>1, <3>2 DEF Accounted, isOpen
    <3>. QED BY SMT, <3>2, <3>3
  <2>. QED BY <1>1, <1>2, <1>5, <2>1, <2>2, <2>4, <2>5 DEF loggedId, done
<1>6. tx.kind \in {"open", "claim", "close"}
  BY DEF Transactions
<1>. QED BY <1>2, <1>3, <1>4, <1>5, <1>6 DEF call

(* The passing of time, and a step of no account, undo nothing.            *)
LEMMA RestKeeps ==
    ASSUME ChannelInv, Tick \/ UNCHANGED vars
    PROVE  Kept
<1>1. UNCHANGED <<channels, nonce, opened, paid, refunded>>
  BY DEF Tick, vars
<1>2. nonce \in Int /\ \A i \in Ids : paid[i] \in Int
  BY SMT, IncentivesAssumption DEF ChannelInv, ChannelType
<1>. QED BY SMT, <1>1, <1>2 DEF Kept, isOpen

(* What a process is, and where its report goes, when it ends.             *)
LEMMA EndStep ==
    ASSUME PayInv, NEW p \in Procs, cli' = [cli EXCEPT ![p] = idle],
           UNCHANGED <<vars, pool, commands>>,
           reports' \subseteq evidence
    PROVE  PayInv'
<1>1. ChannelInv' /\ Kept
  BY StutterStep, RestKeeps DEF PayInv
<1>2. /\ PayType' /\ cli'[p] = idle /\ \A q \in Procs \ {p} : cli'[q] = cli[q]
  BY DEF PayInv, PayType, Commands
<1>3. Numbered'
  BY SMT, <1>2 DEF PayInv, Numbered
<1>4. evidence' \subseteq evidence
  BY SMT, <1>2 DEF evidence, reportOf, idle
<1>. QED BY <1>1, <1>2, <1>3, <1>4, EvidenceStays

(* Every step of the commands and of the chain keeps the invariant.        *)
LEMMA PayStep ==
    ASSUME PayInv, [PayNext]_<<vars, payVars>>
    PROVE  PayInv'
<1>0. nonce \in Nat /\ \A i \in 0..(nonce - 1) : i \in Ids
  BY SMT, IncentivesAssumption DEF PayInv, ChannelInv, ChannelType, Ids
<1>1. ASSUME Tick, UNCHANGED payVars PROVE PayInv'
  <2>2. ChannelInv' /\ Kept
    BY <1>1, TickStep, RestKeeps DEF PayInv
  <2>3. PayType' /\ Numbered' /\ evidence' = evidence
    BY <1>1 DEF PayInv, PayType, Numbered, evidence, reportOf, payVars
  <2>. QED BY <2>2, <2>3, EvidenceStays
<1>2. ASSUME NEW p \in Procs, NEW o \in Openings, cmdChannelOpen(p, o) PROVE PayInv'
  <2>1. mustEth(o.amount) \in Nat
    BY PaymentAssumption, EthIsNat
  <2>2. [kind |-> "open", resolver |-> o.resolver, wei |-> mustEth(o.amount),
         duration |-> o.duration] \in Transactions
    BY <2>1, PaymentAssumption DEF Transactions
  <2>. QED BY <1>2, <2>2, SendStep DEF cmdChannelOpen
<1>3. ASSUME NEW p \in Procs, NEW i \in 0..(nonce - 1), NEW t \in Typed,
             cmdVoucher(p, i, t)
      PROVE  PayInv'
  <2>1. mustEth(t) \in Nat /\ i \in Ids /\ account[p] \in Accounts
    BY <1>0, PaymentAssumption, EthIsNat
  <2>2. SignVoucher(account[p], i, mustEth(t))
    BY <1>3 DEF cmdVoucher
  <2>3. ChannelInv' /\ Kept
    BY <2>1, <2>2, SignStep, ContractKeeps DEF PayInv
  <2>4. UNCHANGED <<cli, pool, reports>> /\ commands' = commands + 1
    BY <1>3 DEF cmdVoucher, begin
  <2>5. PayType'
    BY SMT, <2>4 DEF PayInv, PayType
  <2>6. Numbered'
    <3>1. commands \in Nat /\ commands' = commands + 1
      BY <2>4 DEF PayInv, PayType
    <3>2. /\ \A q \in Procs : cli[q] # idle => cli[q].cmd \in Nat
          /\ \A a \in Accounts : \A j \in 1..Len(pool[a]) : pool[a][j].cmd \in Nat
      <4>1. \A x \in Commands : x # idle => x.cmd \in Nat
        BY DEF Commands, Receipts
      <4>2. \A x \in Submitted : x.cmd \in Nat
        BY DEF Submitted
      <4>. QED BY SMT, <4>1, <4>2 DEF PayInv, PayType
    <3>. QED BY SMT, <2>4, <3>1, <3>2 DEF PayInv, Numbered
  <2>7. evidence' = evidence
    BY <2>4 DEF evidence, reportOf
  <2>. QED BY <2>3, <2>5, <2>6, <2>7, EvidenceStays
<1>4. ASSUME NEW p \in Procs, NEW i \in 0..(nonce - 1), NEW t \in Typed,
             cmdChannelClaim(p, i, t)
      PROVE  PayInv'
  <2>1. mustEth(t) \in Nat /\ i \in Ids
    BY <1>0, PaymentAssumption, EthIsNat
  <2>2. [kind |-> "claim", id |-> i, wei |-> mustEth(t)] \in Transactions
    BY <2>1 DEF Transactions
  <2>. QED BY <1>4, <2>2, SendStep DEF cmdChannelClaim
<1>5. ASSUME NEW p \in Procs, NEW i \in 0..(nonce - 1), cmdChannelClose(p, i) PROVE PayInv'
  <2>1. [kind |-> "close", id |-> i] \in Transactions
    BY <1>0 DEF Transactions
  <2>. QED BY <1>5, <2>1, SendStep DEF cmdChannelClose
<1>6. ASSUME NEW p \in Procs, Receipt(p) PROVE PayInv'
  <2>1. successful(cli[p]) => reportOf(p) \in evidence
    BY <1>6 DEF Receipt, evidence
  <2>2. reports' \subseteq evidence
    BY <1>6, <2>1 DEF Receipt, evidence, reportOf
  <2>. QED BY <1>6, <2>2, EndStep DEF Receipt
<1>7. ASSUME NEW p \in Procs, Stopped(p) PROVE PayInv'
  BY <1>7, EndStep DEF Stopped, evidence
<1>8. ASSUME NEW a \in Accounts, pool[a] # << >>
      PROVE  Head(pool[a]).tx \in Transactions
  <2>1. pool[a] \in Seq(Submitted) /\ Head(pool[a]) \in Submitted
    BY SMT, <1>8 DEF PayInv, PayType
  <2>2. \A x \in Submitted : x.tx \in Transactions
    BY DEF Submitted
  <2>. QED BY <2>1, <2>2
<1>9. ASSUME NEW a \in Accounts, Succeeds(a) PROVE PayInv'
  <2>1. PICK tx, c : tx = Head(pool[a]).tx /\ c = Head(pool[a]).cmd
    OBVIOUS
  <2>2. PICK i : i = loggedId(tx)
    OBVIOUS
  <2>3. PICK new : new = [from |-> a, cmd |-> c, tx |-> tx, id |-> i]
    OBVIOUS
  <2>4. pool[a] # << >> /\ call(a, tx) /\ mined(a, "successful", i)
    BY <1>9, <2>1, <2>2 DEF Succeeds
  <2>5. tx \in Transactions
    BY <1>8, <2>1, <2>4
  <2>6. ChannelInv' /\ Kept /\ i \in Nat /\ done(new)' /\ (tx.kind = "open" => i = nonce)
    BY <2>2, <2>3, <2>4, <2>5, CallStep DEF PayInv
  <2>7. new = [from |-> a, cmd |-> Head(pool[a]).cmd, tx |-> Head(pool[a]).tx, id |-> i]
    BY <2>1, <2>3
  <2>. QED BY <2>1, <2>4, <2>6, <2>7, MinedStep
<1>10. ASSUME NEW a \in Accounts, Reverts(a) PROVE PayInv'
  <2>1. PICK i : i = loggedId(Head(pool[a]).tx)
    OBVIOUS
  <2>2. pool[a] # << >> /\ mined(a, "reverted", i) /\ UNCHANGED vars
    BY <1>10, <2>1 DEF Reverts
  <2>3. i \in Nat
    BY SMT, <1>0, <1>8, <2>1, <2>2 DEF loggedId, Transactions, Ids
  <2>5. ChannelInv' /\ Kept
    BY <2>2, StutterStep, RestKeeps DEF PayInv
  <2>6. PICK new : new = [from |-> a, cmd |-> Head(pool[a]).cmd, tx |-> Head(pool[a]).tx, id |-> i]
    OBVIOUS
  <2>. QED BY <2>2, <2>3, <2>5, <2>6, MinedStep
<1>11. ASSUME UNCHANGED <<vars, payVars>> PROVE PayInv'
  <2>2. ChannelInv' /\ Kept
    BY <1>11, StutterStep, RestKeeps DEF PayInv
  <2>3. PayType' /\ Numbered' /\ evidence' = evidence
    BY <1>11 DEF PayInv, PayType, Numbered, evidence, reportOf, payVars
  <2>. QED BY <2>2, <2>3, EvidenceStays
<1>. QED BY <1>1, <1>2, <1>3, <1>4, <1>5, <1>6, <1>7, <1>9, <1>10, <1>11 DEF PayNext

(* The invariant holds where the commands begin.                           *)
LEMMA PayInitial == PayInit => PayInv
<1>. SUFFICES ASSUME PayInit PROVE PayInv
  OBVIOUS
<1>1. ChannelInv
  BY ChannelInit DEF PayInit
<1>2. PayType /\ Numbered
  BY SMT DEF PayInit, PayType, Numbered, Commands
<1>3. evidence = {}
  BY DEF PayInit, evidence, idle
<1>. QED BY <1>1, <1>2, <1>3 DEF PayInv, distinct

(* The invariant is what the commands' reports promise, and more.          *)
LEMMA PaySuffices == PayInv => ReportedIsDone
<1>. SUFFICES ASSUME PayInv, NEW r \in reports
              PROVE  CASE r.tx.kind = "open" ->
                            /\ opened[r.id].client = r.from
                            /\ opened[r.id].resolver = r.tx.resolver
                            /\ opened[r.id].deposit = r.tx.wei
                            /\ \A s \in reports : s.tx.kind = "open" /\ s.id = r.id => s = r
                       [] r.tx.kind = "claim" -> paid[r.id] >= effective(opened[r.id], r.tx.wei)
                       [] r.tx.kind = "close" ->
                            ~isOpen(r.id) /\ refunded[r.id] = opened[r.id].deposit - paid[r.id]
  BY DEF ReportedIsDone
<1>1. reports \subseteq evidence
  BY DEF evidence
<1>2. done(r) /\ r.tx \in Transactions
  BY <1>1 DEF PayInv
<1>3. r.tx.kind \in {"open", "claim", "close"}
  BY <1>2 DEF Transactions
<1>4. r.tx.kind = "open" => \A s \in reports : s.tx.kind = "open" /\ s.id = r.id => s = r
  BY <1>1 DEF PayInv, distinct
<1>. QED BY <1>2, <1>3, <1>4 DEF done

(* What the payment commands report is so and stays so: whatever the other *)
(* accounts' transactions did before the receipt came, and after it, and   *)
(* whichever processes were stopped while they waited.                     *)
THEOREM ReportsAreTrue == PaySpec => []ReportedIsDone
<1>1. PayInv /\ [PayNext]_<<vars, payVars>> => PayInv'
  BY PayStep
<1>. QED BY <1>1, PayInitial, PaySuffices, PTL DEF PaySpec

-----------------------------------------------------------------------------
(* RecordCommitment: a proof speaks for one message, for any radix, chunk  *)
(* size and field in which every chunk is an element.                      *)

(* v holds what SetBytes has after each byte.                              *)
IsValue(v, s) ==
    /\ v \in [0..Len(s) -> Nat]
    /\ v[0] = 0
    /\ \A k \in 1..Len(s) : v[k] = v[k - 1] * Radix + s[k]
    /\ SetBytes(s) = v[Len(s)]

(* SetBytes satisfies the equations it is written with.                    *)
LEMMA SetBytesLoop ==
    ASSUME NEW s \in Seq(Bytes)
    PROVE  \E v : IsValue(v, s)
<1>. DEFINE n == Len(s)
            round(f) == [k \in 0..n |-> IF k = 0 THEN 0 ELSE f[k - 1] * Radix + s[k]]
            body == [k \in 1..n |-> [x \in Nat |-> x * Radix + s[k]]]
<1>1. n \in Nat /\ Radix \in Nat /\ \A k \in 1..n : s[k] \in Nat /\ k \in 0..n /\ k - 1 \in 0..n
  BY SMT, CommitmentAssumption DEF Bytes
<1>2. body \in [1..n -> [Nat -> Nat]]
  <2>1. ASSUME NEW k \in 1..n, NEW x \in Nat PROVE x * Radix + s[k] \in Nat
    BY SMT, <1>1
  <2>. QED BY <2>1
<1>3. \A k \in 1..n, x \in Nat : body[k][x] = x * Radix + s[k]
  OBVIOUS
<1>4. 0 \in Nat
  BY SMT
<1>. HIDE DEF body
<1>5. PICK f : IsRun(f, n, Nat, 0, body)
  BY <1>1, <1>2, <1>4, LoopRuns
<1>6. f \in [0..n -> Nat] /\ f[0] = 0 /\ \A k \in 1..n : f[k] = body[k][f[k - 1]]
  BY <1>5 DEF IsRun
<1>7. f = round(f)
  <2>1. f = [k \in 0..n |-> f[k]]
    BY <1>6
  <2>2. ASSUME NEW k \in 0..n PROVE f[k] = IF k = 0 THEN 0 ELSE f[k - 1] * Radix + s[k]
    <3>1. CASE k = 0
      BY <1>6, <3>1
    <3>2. CASE k # 0
      <4>1. k \in 1..n
        BY SMT, <1>1, <3>2
      <4>. QED BY <1>1, <1>3, <1>6, <3>2, <4>1
    <3>. QED BY <3>1, <3>2
  <2>. QED BY <2>1, <2>2
<1>. DEFINE v == CHOOSE g : g = round(g)
<1>8. v = round(v)
  BY <1>7
<1>9. SetBytes(s) = v[n]
  BY DEF SetBytes
<1>. HIDE DEF v
<1>10. /\ v = [k \in 0..n |-> v[k]]
       /\ \A k \in 0..n : v[k] = IF k = 0 THEN 0 ELSE v[k - 1] * Radix + s[k]
  BY <1>8
<1>11. v[0] = 0
  <2>1. 0 \in 0..n
    BY SMT, <1>1
  <2>. QED BY <1>10, <2>1
<1>12. \A k \in 1..n : v[k] = v[k - 1] * Radix + s[k]
  <2>1. \A k \in 1..n : k # 0
    BY SMT
  <2>. QED BY <1>1, <1>10, <2>1
<1>13. \A k \in 1..n : v[k - 1] \in Nat => v[k] = body[k][v[k - 1]]
  BY <1>3, <1>12
<1>14. IsRun(v, n, Nat, 0, body)
  BY <1>1, <1>2, <1>4, <1>10, <1>11, <1>13, LoopDefines
<1>15. v \in [0..n -> Nat]
  BY <1>14 DEF IsRun
<1>16. IsValue(v, s)
  BY <1>9, <1>11, <1>12, <1>15 DEF IsValue
<1>. QED BY <1>16

(* A number and one more digit can be told apart.                          *)
LEMMA LastDigit ==
    ASSUME NEW x \in Nat, NEW y \in Nat, NEW b \in Bytes, NEW c \in Bytes
    PROVE  /\ x * Radix + b = y * Radix + c => x = y /\ b = c
           /\ x <= y => x * Radix + b <= y * Radix + (Radix - 1)
           /\ x <= x * Radix + (Radix - 1)
<1>. DEFINE R == Radix
<1>1. R \in Nat /\ R >= 1 /\ b \in Nat /\ c \in Nat /\ b < R /\ c < R /\ b <= R - 1
  BY SMT, CommitmentAssumption DEF Bytes
<1>. HIDE DEF R
<1>2. \A p, q \in Nat : p < q => p * R + R <= q * R
  <2>1. ASSUME NEW p \in Nat, NEW q \in Nat, p < q PROVE p * R + R <= q * R
    <3>1. PICK d \in Nat : q = p + 1 + d
      BY SMT, <2>1
    <3>2. q * R = p * R + R + d * R /\ d * R >= 0 /\ p * R \in Nat /\ d * R \in Nat
      BY SMT, <1>1, <3>1
    <3>. QED BY SMT, <1>1, <3>2
  <2>. QED BY <2>1
<1>3. x * R \in Nat /\ y * R \in Nat /\ x <= x * R
  BY SMT, <1>1
<1>4. x = y => x * R = y * R
  OBVIOUS
<1>5. x < y => x * R + R <= y * R
  BY <1>2
<1>6. y < x => y * R + R <= x * R
  BY <1>2
<1>7. x * R + b = y * R + c => x = y /\ b = c
  BY SMT, <1>1, <1>3, <1>4, <1>5, <1>6
<1>8. x <= y => x * R + b <= y * R + (R - 1)
  BY SMT, <1>1, <1>3, <1>4, <1>5
<1>9. x <= x * R + (R - 1)
  BY SMT, <1>1, <1>3
<1>. QED BY <1>7, <1>8, <1>9 DEF R

(* As many bytes make the same number only if they are the same bytes.     *)
LEMMA SetBytesInjective ==
    ASSUME NEW s \in Seq(Bytes), NEW t \in Seq(Bytes), Len(s) = Len(t), SetBytes(s) = SetBytes(t)
    PROVE  s = t
<1>. DEFINE n == Len(s)
<1>1. PICK v : IsValue(v, s)
  BY SetBytesLoop
<1>2. PICK w : IsValue(w, t)
  BY SetBytesLoop
<1>3. /\ v \in [0..n -> Nat] /\ w \in [0..n -> Nat] /\ v[n] = w[n]
      /\ \A k \in 1..n : v[k] = v[k - 1] * Radix + s[k] /\ w[k] = w[k - 1] * Radix + t[k]
  BY <1>1, <1>2 DEF IsValue
<1>4. n \in Nat /\ \A k \in 1..n : s[k] \in Bytes /\ t[k] \in Bytes
  <2>. HIDE DEF n
  <2>1. n \in Nat
    BY SMT DEF n
  <2>2. ASSUME NEW k \in 1..n PROVE s[k] \in Bytes /\ t[k] \in Bytes
    <3>. DEFINE B == Bytes
    <3>. HIDE DEF B
    <3>1. s \in Seq(B) /\ t \in Seq(B)
      BY DEF B
    <3>. QED BY SMT, <3>1 DEF n
  <2>. QED BY <2>1, <2>2
<1>. DEFINE T == {k \in 0..n : v[n - k] = w[n - k] /\ \A j \in (n - k + 1)..n : s[j] = t[j]}
<1>. HIDE DEF n
<1>5. 0 \in T
  BY SMT, <1>3, <1>4
<1>6. ASSUME NEW k \in 1..n, k - 1 \in T PROVE k \in T
  <2>. DEFINE m == n - (k - 1)
  <2>1. m \in 1..n /\ m - 1 = n - k /\ m - 1 \in 0..n /\ k \in 0..n
    BY SMT, <1>4
  <2>2. v[m] = w[m] /\ \A j \in (m + 1)..n : s[j] = t[j]
    BY <1>6
  <2>. HIDE DEF m
  <2>3. v[m - 1] \in Nat /\ w[m - 1] \in Nat
    BY <1>3, <2>1
  <2>4. v[m - 1] = w[m - 1] /\ s[m] = t[m]
    <3>1. v[m - 1] * Radix + s[m] = w[m - 1] * Radix + t[m]
      BY <1>3, <2>1, <2>2
    <3>2. s[m] \in Bytes /\ t[m] \in Bytes
      BY <1>4, <2>1
    <3>. QED BY SMT, <2>3, <3>1, <3>2, LastDigit
  <2>5. ASSUME NEW j \in (n - k + 1)..n PROVE s[j] = t[j]
    <3>1. j = m \/ j \in (m + 1)..n
      BY SMT, <1>4, <2>1
    <3>. QED BY <2>2, <2>4, <3>1
  <2>. QED BY <2>1, <2>4, <2>5
<1>. HIDE DEF T
<1>7. \A k \in 0..n : k \in T
  BY <1>4, <1>5, <1>6, SetInduction
<1>8. \A j \in 1..n : s[j] = t[j]
  <2>1. n \in T /\ n - n + 1 = 1
    BY SMT, <1>4, <1>7
  <2>2. \A j \in (n - n + 1)..n : s[j] = t[j]
    BY <2>1 DEF T
  <2>. QED BY <2>1, <2>2
<1>9. Len(t) = n
  BY DEF n
<1>10. \A j \in 1..Len(s) : s[j] = t[j]
  BY <1>8 DEF n
<1>. DEFINE B == Bytes
<1>11. s \in Seq(B) /\ t \in Seq(B)
  OBVIOUS
<1>. HIDE DEF B
<1>. QED BY <1>10, <1>11, SameElements

(* The greatest number that a chunk can hold.                              *)
full == [k \in 1..ChunkSize |-> Radix - 1]

(* No chunk is a greater number than the full one.                         *)
LEMMA SetBytesBound ==
    ASSUME NEW s \in Seq(Bytes), Len(s) <= ChunkSize
    PROVE  SetBytes(s) \in Nat /\ SetBytes(s) < fieldSize
<1>. DEFINE n == Len(s)
<1>1. full \in Seq(Bytes) /\ Len(full) = ChunkSize /\ ChunkSize \in Nat
      /\ Radix - 1 \in Bytes /\ \A k \in 1..ChunkSize : full[k] = Radix - 1
  BY SMT, CommitmentAssumption DEF full, Bytes
<1>2. PICK v : IsValue(v, s)
  BY SetBytesLoop
<1>3. PICK w : IsValue(w, full)
  BY <1>1, SetBytesLoop
<1>4. /\ v \in [0..n -> Nat] /\ v[0] = 0 /\ SetBytes(s) = v[n]
      /\ \A k \in 1..n : v[k] = v[k - 1] * Radix + s[k]
  BY <1>2 DEF IsValue
<1>5. /\ w \in [0..ChunkSize -> Nat] /\ w[0] = 0 /\ SetBytes(full) = w[ChunkSize]
      /\ \A k \in 1..ChunkSize : w[k] = w[k - 1] * Radix + (Radix - 1)
  BY <1>1, <1>3 DEF IsValue
<1>6. n \in Nat /\ n <= ChunkSize
  BY SMT
<1>7. \A k \in 1..n : s[k] \in Bytes
  <2>. DEFINE B == Bytes
  <2>. HIDE DEF B
  <2>1. s \in Seq(B)
    BY DEF B
  <2>2. \A k \in 1..n : s[k] \in B
    BY SMT, <2>1
  <2>. QED BY <2>2 DEF B
<1>. HIDE DEF n
<1>. DEFINE T == {k \in 0..n : v[k] <= w[k]}
            U == {k \in 0..(ChunkSize - n) : w[n] <= w[n + k]}
<1>8. 0 \in T
  BY SMT, <1>4, <1>5, <1>6
<1>9. ASSUME NEW k \in 1..n, k - 1 \in T PROVE k \in T
  <2>1. k \in 0..n /\ k - 1 \in 0..n /\ k - 1 \in 0..ChunkSize /\ k \in 1..ChunkSize
    BY SMT, <1>1, <1>6
  <2>2. v[k - 1] \in Nat /\ w[k - 1] \in Nat /\ v[k - 1] <= w[k - 1] /\ s[k] \in Bytes
    BY <1>4, <1>5, <1>7, <1>9, <2>1
  <2>3. v[k - 1] * Radix + s[k] <= w[k - 1] * Radix + (Radix - 1)
    BY SMT, <1>1, <2>2, LastDigit
  <2>. QED BY <1>4, <1>5, <2>1, <2>3
<1>10. 0 \in U
  BY SMT, <1>1, <1>5, <1>6
<1>11. ASSUME NEW k \in 1..(ChunkSize - n), k - 1 \in U PROVE k \in U
  <2>. DEFINE m == n + k
  <2>1. /\ m \in 1..ChunkSize /\ m - 1 = n + (k - 1) /\ m - 1 \in 0..ChunkSize
        /\ m \in 0..ChunkSize /\ k \in 0..(ChunkSize - n) /\ n \in 0..ChunkSize
    BY SMT, <1>1, <1>6
  <2>. HIDE DEF m
  <2>2. w[n] <= w[m - 1] /\ w[m - 1] \in Nat /\ w[m] \in Nat /\ w[n] \in Nat
    BY <1>5, <1>11, <2>1
  <2>3. w[m - 1] <= w[m - 1] * Radix + (Radix - 1)
    BY <1>1, <2>2, LastDigit
  <2>4. w[m] = w[m - 1] * Radix + (Radix - 1)
    BY <1>5, <2>1
  <2>5. w[n] <= w[m]
    BY SMT, <2>2, <2>3, <2>4
  <2>. QED BY <2>1, <2>5 DEF m
<1>. HIDE DEF T, U
<1>12. \A k \in 0..n : k \in T
  BY <1>6, <1>8, <1>9, SetInduction
<1>13. \A k \in 0..(ChunkSize - n) : k \in U
  <2>1. ChunkSize - n \in Nat
    BY SMT, <1>1, <1>6
  <2>. QED BY <1>10, <1>11, <2>1, SetInduction
<1>14. v[n] <= w[n] /\ w[n] <= w[ChunkSize]
  <2>1. n \in 0..n /\ ChunkSize - n \in 0..(ChunkSize - n) /\ n + (ChunkSize - n) = ChunkSize
    BY SMT, <1>1, <1>6
  <2>. QED BY <1>12, <1>13, <2>1 DEF T, U
<1>15. v[n] \in Nat /\ w[n] \in Nat /\ w[ChunkSize] \in Nat
  BY SMT, <1>1, <1>4, <1>5, <1>6
<1>16. w[ChunkSize] < fieldSize /\ fieldSize \in Nat
  BY <1>5, CommitmentAssumption DEF full
<1>. QED BY SMT, <1>4, <1>14, <1>15, <1>16

(* Where a chunk's bytes are in the message.                               *)
LEMMA ChunkOf ==
    ASSUME NEW m \in Seq(Bytes), NEW j \in 1..MaxChunks, NEW lo, lo = j * ChunkSize - ChunkSize
    PROVE  /\ lo \in Nat
           /\ chunk(m, j) \in Seq(Bytes)
           /\ Len(chunk(m, j)) = IF lo >= Len(m) THEN 0
                                 ELSE IF lo + ChunkSize < Len(m) THEN ChunkSize ELSE Len(m) - lo
           /\ Len(chunk(m, j)) <= ChunkSize
           /\ \A k \in 1..Len(chunk(m, j)) : chunk(m, j)[k] = m[lo + k]
<1>. DEFINE hi == j * ChunkSize
            top == IF hi < Len(m) THEN hi ELSE Len(m)
<1>1. ChunkSize \in Nat /\ Len(m) \in Nat /\ j \in Nat /\ j >= 1
  BY SMT, CommitmentAssumption
<1>2. hi \in Nat /\ ChunkSize <= hi
  <2>1. PICK d \in Nat : j = 1 + d
    BY SMT, <1>1
  <2>2. d * ChunkSize \in Nat /\ hi = ChunkSize + d * ChunkSize
    BY SMT, <1>1, <2>1
  <2>. QED BY SMT, <1>1, <2>2
<1>3. lo = hi - ChunkSize
  OBVIOUS
<1>. HIDE DEF hi
<1>4. lo \in Nat /\ hi = lo + ChunkSize
  BY SMT, <1>1, <1>2, <1>3
<1>5. top \in Nat /\ top <= Len(m) /\ top <= hi /\ (top = hi \/ top = Len(m))
  BY SMT, <1>1, <1>2
<1>. HIDE DEF top
<1>6. chunk(m, j) = SubSeq(m, lo + 1, top)
  <2>1. lo + 1 = hi - ChunkSize + 1
    BY <1>3
  <2>. QED BY <2>1 DEF chunk, hi, top
<1>7. lo + 1 \in Int /\ top \in Int /\ \A k \in (lo + 1)..top : m[k] \in Bytes
  <2>. DEFINE B == Bytes
  <2>. HIDE DEF B
  <2>1. m \in Seq(B)
    BY DEF B
  <2>2. \A k \in (lo + 1)..top : m[k] \in B
    BY SMT, <1>4, <1>5, <2>1
  <2>. QED BY SMT, <1>4, <1>5, <2>2 DEF B
<1>8. /\ SubSeq(m, lo + 1, top) \in Seq(Bytes)
      /\ Len(SubSeq(m, lo + 1, top)) = IF lo + 1 <= top THEN top - (lo + 1) + 1 ELSE 0
      /\ \A k \in 1..(top - (lo + 1) + 1) : SubSeq(m, lo + 1, top)[k] = m[(lo + 1) + k - 1]
  BY SMT, <1>7, Piece
<1>. DEFINE c == chunk(m, j)
<1>9. /\ c \in Seq(Bytes)
      /\ Len(c) = IF lo + 1 <= top THEN top - (lo + 1) + 1 ELSE 0
      /\ \A k \in 1..(top - (lo + 1) + 1) : c[k] = m[(lo + 1) + k - 1]
  BY <1>6, <1>8
<1>. HIDE DEF c
<1>10. ASSUME NEW k \in 1..Len(c) PROVE c[k] = m[lo + k]
  <2>1. k \in 1..(top - (lo + 1) + 1) /\ (lo + 1) + k - 1 = lo + k
    BY SMT, <1>4, <1>5, <1>9
  <2>. QED BY <1>9, <2>1
<1>11. Len(c) = IF lo >= Len(m) THEN 0
                ELSE IF lo + ChunkSize < Len(m) THEN ChunkSize ELSE Len(m) - lo
  <2>1. top = IF lo + ChunkSize < Len(m) THEN lo + ChunkSize ELSE Len(m)
    BY <1>4 DEF top
  <2>2. Len(c) = IF lo + 1 <= top THEN top - (lo + 1) + 1 ELSE 0
    BY <1>9
  <2>3. CASE lo + ChunkSize < Len(m)
    BY SMT, <1>1, <1>4, <2>1, <2>2, <2>3
  <2>4. CASE ~(lo + ChunkSize < Len(m))
    BY SMT, <1>1, <1>4, <2>1, <2>2, <2>4
  <2>. QED BY <2>3, <2>4
<1>12. Len(c) <= ChunkSize
  BY SMT, <1>1, <1>4, <1>11
<1>. QED BY <1>4, <1>9, <1>10, <1>11, <1>12 DEF c

(* A chunk's byte h is the message's byte h after the chunk's start.       *)
LEMMA ChunkByte ==
    ASSUME NEW m \in Seq(Bytes), NEW j \in 1..MaxChunks, NEW h \in 1..Len(chunk(m, j))
    PROVE  chunk(m, j)[h] = m[(j * ChunkSize - ChunkSize) + h]
BY SMT, ChunkOf

(* The elements of a packed message, each less than the field's order.     *)
LEMMA PackOf ==
    ASSUME NEW m \in Seq(Bytes), Len(m) <= MaxPayload
    PROVE  /\ PackMessage(m) \in Seq(Nat) /\ Len(PackMessage(m)) = MaxChunks + 1
           /\ PackMessage(m)[1] = Len(m)
           /\ \A j \in 1..MaxChunks : PackMessage(m)[j + 1] = SetBytes(chunk(m, j))
           /\ \A j \in 1..(MaxChunks + 1) : PackMessage(m)[j] < fieldSize
<1>. DEFINE q == [j \in 1..MaxChunks |-> SetBytes(chunk(m, j))]
            P == PackMessage(m)
<1>1. Len(m) \in Nat /\ Len(m) < fieldSize /\ MaxChunks \in Nat
  BY SMT, CommitmentAssumption DEF MaxPayload
<1>2. ASSUME NEW j \in 1..MaxChunks PROVE q[j] \in Nat /\ q[j] < fieldSize
  <2>1. chunk(m, j) \in Seq(Bytes) /\ Len(chunk(m, j)) <= ChunkSize
    BY ChunkOf
  <2>. QED BY <2>1, SetBytesBound
<1>3. q = [j \in 1..MaxChunks |-> q[j]] /\ \A j \in 1..MaxChunks : q[j] = SetBytes(chunk(m, j))
  OBVIOUS
<1>4. P = <<Len(m)>> \o q
  BY DEF PackMessage
<1>. HIDE DEF q, P
<1>5. q \in Seq(Nat) /\ Len(q) = MaxChunks
  BY SMT, <1>1, <1>2, <1>3
<1>6. <<Len(m)>> \in Seq(Nat) /\ Len(<<Len(m)>>) = 1 /\ <<Len(m)>>[1] = Len(m)
  BY SMT, <1>1
<1>7. /\ P \in Seq(Nat) /\ Len(P) = 1 + MaxChunks
      /\ \A j \in 1..(1 + MaxChunks) : P[j] = IF j <= 1 THEN <<Len(m)>>[j] ELSE q[j - 1]
  BY SMT, <1>4, <1>5, <1>6, Concatenation
<1>8. P[1] = Len(m)
  BY SMT, <1>1, <1>6, <1>7
<1>9. ASSUME NEW j \in 1..MaxChunks PROVE P[j + 1] = q[j]
  <2>1. j + 1 \in 1..(1 + MaxChunks) /\ ~(j + 1 <= 1) /\ (j + 1) - 1 = j
    BY SMT, <1>1
  <2>. QED BY <1>7, <2>1
<1>10. ASSUME NEW j \in 1..(MaxChunks + 1) PROVE P[j] < fieldSize
  <2>1. CASE j = 1
    BY <1>1, <1>8, <2>1
  <2>2. CASE j # 1
    <3>1. j - 1 \in 1..MaxChunks /\ (j - 1) + 1 = j
      BY SMT, <1>1, <2>2
    <3>2. P[j] = q[j - 1]
      BY <1>9, <3>1
    <3>. QED BY <1>2, <3>1, <3>2
  <2>. QED BY <2>1, <2>2
<1>11. Len(P) = MaxChunks + 1
  BY SMT, <1>1, <1>7
<1>. QED BY <1>3, <1>7, <1>8, <1>9, <1>10, <1>11 DEF P

(* Every byte of a message that fits is in one of the chunks.              *)
LEMMA InSomeChunk ==
    ASSUME NEW k \in 1..MaxPayload
    PROVE  \E j \in 1..MaxChunks : j * ChunkSize - ChunkSize < k /\ k <= j * ChunkSize
<1>. DEFINE T == {j \in 1..MaxChunks : k <= j * ChunkSize}
<1>1. /\ ChunkSize \in Nat /\ MaxChunks \in Nat /\ k \in Nat /\ k >= 1
      /\ k <= MaxChunks * ChunkSize
  BY SMT, CommitmentAssumption DEF MaxPayload
<1>2. MaxChunks >= 1
  BY SMT, <1>1
<1>3. MaxChunks \in T /\ T \in SUBSET Nat
  BY SMT, <1>1, <1>2
<1>4. PICK j \in T : \A h \in T : j <= h
  BY <1>3, LeastNumber
<1>5. j \in 1..MaxChunks /\ k <= j * ChunkSize
  BY <1>4
<1>6. CASE j = 1
  <2>1. j * ChunkSize - ChunkSize = 0
    BY SMT, <1>1, <1>6
  <2>2. j * ChunkSize - ChunkSize < k
    BY SMT, <1>1, <2>1
  <2>. QED BY <1>5, <2>2
<1>7. CASE j # 1
  <2>1. j - 1 \in 1..MaxChunks /\ ~(j <= j - 1)
    BY SMT, <1>1, <1>5, <1>7
  <2>2. ~(k <= (j - 1) * ChunkSize)
    BY <1>4, <2>1
  <2>3. (j - 1) * ChunkSize = j * ChunkSize - ChunkSize /\ j * ChunkSize \in Nat
    BY SMT, <1>1, <1>5
  <2>4. j * ChunkSize - ChunkSize < k
    BY SMT, <1>1, <2>2, <2>3
  <2>. QED BY <1>5, <2>4
<1>. QED BY <1>6, <1>7

(* Packing loses nothing: the length tells a chunk's leading zeroes from   *)
(* bytes that are not there.                                               *)
LEMMA PackInjective ==
    ASSUME NEW m \in Seq(Bytes), NEW o \in Seq(Bytes),
           Len(m) <= MaxPayload, Len(o) <= MaxPayload, PackMessage(m) = PackMessage(o)
    PROVE  m = o
<1>1. Len(m) = Len(o)
  <2>1. PackMessage(m)[1] = Len(m) /\ PackMessage(o)[1] = Len(o)
    BY PackOf
  <2>. QED BY <2>1
<1>2. ASSUME NEW j \in 1..MaxChunks PROVE chunk(m, j) = chunk(o, j)
  <2>. DEFINE lo == j * ChunkSize - ChunkSize
  <2>1. /\ chunk(m, j) \in Seq(Bytes)
        /\ Len(chunk(m, j)) = IF lo >= Len(m) THEN 0
                              ELSE IF lo + ChunkSize < Len(m) THEN ChunkSize ELSE Len(m) - lo
    BY ChunkOf
  <2>2. /\ chunk(o, j) \in Seq(Bytes)
        /\ Len(chunk(o, j)) = IF lo >= Len(o) THEN 0
                              ELSE IF lo + ChunkSize < Len(o) THEN ChunkSize ELSE Len(o) - lo
    BY ChunkOf
  <2>3. SetBytes(chunk(m, j)) = PackMessage(m)[j + 1]
    BY PackOf
  <2>4. SetBytes(chunk(o, j)) = PackMessage(o)[j + 1]
    BY PackOf
  <2>. QED BY <1>1, <2>1, <2>2, <2>3, <2>4, SetBytesInjective
<1>3. ASSUME NEW k \in 1..Len(m) PROVE m[k] = o[k]
  <2>1. k \in 1..MaxPayload /\ k \in Nat /\ Len(m) \in Nat
    BY SMT, CommitmentAssumption DEF MaxPayload
  <2>2. PICK j \in 1..MaxChunks : j * ChunkSize - ChunkSize < k /\ k <= j * ChunkSize
    BY <2>1, InSomeChunk
  <2>. DEFINE lo == j * ChunkSize - ChunkSize
  <2>0. lo = j * ChunkSize - ChunkSize
    OBVIOUS
  <2>. HIDE DEF lo
  <2>3. /\ lo \in Nat
        /\ Len(chunk(m, j)) = IF lo >= Len(m) THEN 0
                              ELSE IF lo + ChunkSize < Len(m) THEN ChunkSize ELSE Len(m) - lo
    BY <2>0, ChunkOf
  <2>5. lo < k /\ k <= lo + ChunkSize /\ ChunkSize \in Nat
    <3>1. j * ChunkSize \in Nat /\ ChunkSize \in Nat
      BY SMT, CommitmentAssumption
    <3>. QED BY SMT, <2>0, <2>2, <3>1
  <2>6. k - lo \in 1..Len(chunk(m, j)) /\ lo + (k - lo) = k
    BY SMT, <2>1, <2>3, <2>5
  <2>7. chunk(m, j)[k - lo] = m[(j * ChunkSize - ChunkSize) + (k - lo)]
    BY <2>6, ChunkByte
  <2>8. k - lo \in 1..Len(chunk(o, j))
    BY <1>2, <2>6
  <2>9. chunk(o, j)[k - lo] = o[(j * ChunkSize - ChunkSize) + (k - lo)]
    BY <2>8, ChunkByte
  <2>. QED BY <1>2, <2>0, <2>6, <2>7, <2>9
<1>. DEFINE B == Bytes
<1>4. m \in Seq(B) /\ o \in Seq(B)
  OBVIOUS
<1>. HIDE DEF B
<1>. QED BY <1>1, <1>3, <1>4, SameElements

(* Nothing is reduced modulo the field's order.                            *)
LEMMA CommitmentOf ==
    ASSUME NEW m \in Seq(Bytes), Len(m) <= MaxPayload
    PROVE  Commitment(m) = MiMC(PackMessage(m))
<1>. DEFINE P == PackMessage(m)
<1>1. /\ P \in Seq(Nat) /\ Len(P) = MaxChunks + 1
      /\ \A j \in 1..(MaxChunks + 1) : P[j] < fieldSize
  BY PackOf
<1>2. ~(Len(m) > MaxPayload)
  BY SMT, CommitmentAssumption DEF MaxPayload
<1>3. Commitment(m) = MiMC([j \in 1..(MaxChunks + 1) |-> P[j] % fieldSize])
  BY <1>2 DEF Commitment
<1>. HIDE DEF P
<1>4. P = [j \in 1..(MaxChunks + 1) |-> P[j]]
  BY SMT, <1>1
<1>5. ASSUME NEW j \in 1..(MaxChunks + 1) PROVE P[j] % fieldSize = P[j]
  <2>1. P[j] \in Nat /\ P[j] < fieldSize /\ fieldSize \in Nat
    BY SMT, <1>1, CommitmentAssumption
  <2>2. \A x, f \in Nat : x < f => x % f = x
    BY SMT
  <2>. QED BY <2>1, <2>2
<1>6. [j \in 1..(MaxChunks + 1) |-> P[j] % fieldSize] = P
  BY <1>4, <1>5
<1>. QED BY <1>3, <1>6 DEF P

(* Writing a proof as calldata and reading it changes nothing.             *)
LEMMA CalldataRead ==
    ASSUME NEW S, NEW proof \in [Coordinates -> S]
    PROVE  ProofFromSolidityCalldata(SolidityCalldata(proof)) = proof
<1>. DEFINE d == SolidityCalldata(proof)
<1>1. /\ d[1] = proof["Ar.X"] /\ d[2] = proof["Ar.Y"] /\ d[3] = proof["Bs.X.A1"]
      /\ d[4] = proof["Bs.X.A0"] /\ d[5] = proof["Bs.Y.A1"] /\ d[6] = proof["Bs.Y.A0"]
      /\ d[7] = proof["Krs.X"] /\ d[8] = proof["Krs.Y"]
  BY DEF SolidityCalldata
<1>. HIDE DEF d
<1>. DEFINE word(c) == CASE c = "Ar.X" -> 1 [] c = "Ar.Y" -> 2
                         [] c = "Bs.X.A1" -> 3 [] c = "Bs.X.A0" -> 4
                         [] c = "Bs.Y.A1" -> 5 [] c = "Bs.Y.A0" -> 6
                         [] c = "Krs.X" -> 7 [] c = "Krs.Y" -> 8
<1>2. ASSUME NEW c \in Coordinates PROVE d[word(c)] = proof[c]
  BY SMT, <1>1 DEF Coordinates
<1>3. ProofFromSolidityCalldata(d) = [c \in Coordinates |-> d[word(c)]]
  BY DEF ProofFromSolidityCalldata
<1>. HIDE DEF word
<1>4. ProofFromSolidityCalldata(d) = proof
  BY <1>2, <1>3
<1>. QED BY <1>4 DEF d

(* CommitmentBinds, of any two messages.                                   *)
LEMMA ProofBinds ==
    ASSUME NEW m \in Seq(Bytes), NEW o \in Seq(Bytes)
    PROVE  /\ Provable(m) <=> recordCommit(m) # zero
           /\ Provable(m) /\ recordCommit(o) # zero =>
                (verifyZK(SolidityCalldata(Prove(m)), recordCommit(o)) <=> m = o)
<1>1. ASSUME NEW s \in Seq(Bytes)
      PROVE  /\ recordCommit(s) # zero <=> Len(s) <= MaxPayload
             /\ Len(s) <= MaxPayload => recordCommit(s) = MiMC(PackMessage(s))
  <2>1. Len(s) > MaxPayload <=> ~(Len(s) <= MaxPayload)
    BY SMT, CommitmentAssumption DEF MaxPayload
  <2>2. Len(s) <= MaxPayload => recordCommit(s) = MiMC(PackMessage(s))
    BY <2>1, CommitmentOf DEF recordCommit
  <2>3. MiMC(PackMessage(s)) # zero
    BY SMT DEF MiMC, zero
  <2>4. ~(Len(s) <= MaxPayload) => recordCommit(s) = zero
    BY <2>1 DEF recordCommit
  <2>. QED BY <2>2, <2>3, <2>4
<1>2. Provable(m) <=> Len(m) <= MaxPayload
  <2>1. Len(m) <= MaxPayload => Commitment(m) = MiMC(PackMessage(m))
    BY CommitmentOf
  <2>. QED BY <2>1 DEF Provable, Define, assignment
<1>3. ASSUME Len(m) <= MaxPayload, Len(o) <= MaxPayload
      PROVE  verifyZK(SolidityCalldata(Prove(m)), recordCommit(o)) <=> m = o
  <2>1. Prove(m) = [c \in Coordinates |-> [of |-> c, public |-> MiMC(PackMessage(m))]]
    BY <1>3, CommitmentOf DEF Prove, assignment
  <2>2. ProofFromSolidityCalldata(SolidityCalldata(Prove(m))) = Prove(m)
    <3>1. PICK S : Prove(m) \in [Coordinates -> S]
      <4>. DEFINE S == {[of |-> c, public |-> MiMC(PackMessage(m))] : c \in Coordinates}
      <4>1. Prove(m) \in [Coordinates -> S]
        BY <2>1
      <4>. QED BY <4>1
    <3>. QED BY <3>1, CalldataRead
  <2>3. verifyZK(SolidityCalldata(Prove(m)), recordCommit(o)) <=>
          \A c \in Coordinates : [of |-> c, public |-> MiMC(PackMessage(m))] =
                                 [of |-> c, public |-> recordCommit(o)]
    BY <2>1, <2>2 DEF verifyZK, Verify
  <2>4. verifyZK(SolidityCalldata(Prove(m)), recordCommit(o)) <=>
          MiMC(PackMessage(m)) = recordCommit(o)
    <3>1. "Ar.X" \in Coordinates
      BY DEF Coordinates
    <3>2. \A c, x, y : [of |-> c, public |-> x] = [of |-> c, public |-> y] => x = y
      BY SMT
    <3>. QED BY <2>3, <3>1, <3>2
  <2>5. recordCommit(o) = MiMC(PackMessage(o))
    BY <1>1, <1>3
  <2>6. MiMC(PackMessage(m)) = MiMC(PackMessage(o)) <=> PackMessage(m) = PackMessage(o)
    BY SMT DEF MiMC
  <2>7. PackMessage(m) = PackMessage(o) => m = o
    BY <1>3, PackInjective
  <2>. QED BY <2>4, <2>5, <2>6, <2>7
<1>. QED BY <1>1, <1>2, <1>3

(* The messages are of bytes.                                              *)
MessagesOK == messages \in [1..2 -> Seq(Bytes)]

(* A proof that zk makes of a message passes verifyZK with that message's  *)
(* commitment and with no other's.                                         *)
THEOREM ProofsBind == CommitSpec => []CommitmentBinds
<1>1. CommitInit => MessagesOK
  <2>1. << << >>, << >> >> \in [1..2 -> {<< >>}] /\ << >> \in Seq(Bytes)
    BY SMT
  <2>. QED BY <2>1 DEF CommitInit, MessagesOK
<1>2. MessagesOK /\ CommitNext => MessagesOK'
  <2>. SUFFICES ASSUME MessagesOK, NEW m \in 1..2, NEW b \in Bytes, WriteByte(m, b)
                PROVE  MessagesOK'
    BY DEF CommitNext
  <2>1. Append(messages[m], b) \in Seq(Bytes)
    <3>. DEFINE B == Bytes
    <3>1. messages[m] \in Seq(B) /\ b \in B
      BY DEF MessagesOK
    <3>. HIDE DEF B
    <3>2. Append(messages[m], b) \in Seq(B)
      BY SMT, <3>1
    <3>. QED BY <3>2 DEF B
  <2>. QED BY <2>1 DEF MessagesOK, WriteByte
<1>3. MessagesOK /\ UNCHANGED messages => MessagesOK'
  BY DEF MessagesOK
<1>4. MessagesOK => CommitmentBinds
  <2>. SUFFICES ASSUME MessagesOK PROVE CommitmentBinds
    OBVIOUS
  <2>1. 1 \in 1..2 /\ 2 \in 1..2
    BY SMT
  <2>2. messages[1] \in Seq(Bytes) /\ messages[2] \in Seq(Bytes)
    BY <2>1 DEF MessagesOK
  <2>. QED BY <2>2, ProofBinds DEF CommitmentBinds
<1>. QED BY <1>1, <1>2, <1>3, <1>4, PTL DEF CommitSpec
=============================================================================
