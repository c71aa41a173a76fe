------------------------- MODULE ResolverIncentives -------------------------
(***************************************************************************)
(* contracts/contracts/ResolverIncentives.sol: payment channels from a     *)
(* client to a resolver operator, settled by client-signed vouchers (made  *)
(* off chain, internal/pay).  A call that reverts is not a step; payouts   *)
(* come after every state change of their function, so what a callee does  *)
(* is the same as a later transaction.  Signatures cannot be forged: a     *)
(* voucher that recovers to an account is one the account signed.          *)
(***************************************************************************)
EXTENDS Integers, FiniteSets

CONSTANTS
    Accounts, ZeroAddress,
    Deposits,         \* the values sent along with openChannel
    Durations,        \* the lifetimes asked for
    Amounts,          \* the cumulative amounts clients sign
    MIN_DURATION, SETTLEMENT_WINDOW,
    MAX_UINT64,       \* the largest value of a uint64
    MaxChannels, MaxVouchers, MaxTime  \* bounds of the model

VARIABLES
    now,              \* block.timestamp
    channels,         \* channel id -> channel, NoChannel if there is none
    nonce,            \* _nonce
    balance,          \* address(this).balance
    vouchers,         \* the vouchers signed so far
    opened,           \* history: channel id -> the channel as it was promised
    paid, refunded    \* history: channel id -> wei paid to the resolver, to the client

vars == <<now, channels, nonce, balance, vouchers, opened, paid, refunded>>

(* The id hashes the parties and the nonce; the nonce alone tells ids apart.*)
Ids == 0..(MaxChannels - 1)

Channel == [client : Accounts, resolver : Accounts, deposit : Nat, claimed : Nat,
            expiresAt : 0..MAX_UINT64]

NoChannel == [client |-> ZeroAddress]

Voucher == [signer : Accounts, id : Ids, cumulative : Nat]

ASSUME IncentivesAssumption ==
    /\ ZeroAddress \notin Accounts
    /\ Deposits \subseteq Nat /\ Amounts \subseteq Nat
    /\ MAX_UINT64 \in Nat
    /\ Durations \subseteq 0..MAX_UINT64
    /\ MIN_DURATION \in Nat /\ SETTLEMENT_WINDOW \in Nat
    /\ MaxChannels \in Nat /\ MaxVouchers \in Nat /\ MaxTime \in Nat

isOpen(id) == channels[id].client # ZeroAddress

-----------------------------------------------------------------------------
Init ==
    /\ now = 1
    /\ channels = [id \in Ids |-> NoChannel]
    /\ nonce = 0
    /\ balance = 0
    /\ vouchers = {}
    /\ opened = [id \in Ids |-> NoChannel]
    /\ paid = [id \in Ids |-> 0]
    /\ refunded = [id \in Ids |-> 0]

(* The timestamp of the next block.                                        *)
Tick ==
    /\ now < MaxTime
    /\ now' = now + 1
    /\ UNCHANGED <<channels, nonce, balance, vouchers, opened, paid, refunded>>

(* Faulty variant: the addition is unchecked and wraps.                    *)
anySum(n) == TRUE

(* The checked addition of two uint64 reverts when the sum does not fit.   *)
fitsUint64(n) == n <= MAX_UINT64

uint64(n) == n % (MAX_UINT64 + 1)

(* A duration below the minimum is raised to it.                           *)
openChannel(a, r, value, duration) ==
    LET lasts == IF duration < MIN_DURATION THEN MIN_DURATION ELSE duration
        ch    == [client |-> a, resolver |-> r, deposit |-> value, claimed |-> 0,
                  expiresAt |-> uint64(now + lasts)]
    IN  /\ nonce < MaxChannels
        /\ r # ZeroAddress
        /\ value # 0
        /\ fitsUint64(now + lasts)
        /\ channels' = [channels EXCEPT ![nonce] = ch]
        /\ opened' = [opened EXCEPT ![nonce] = [ch EXCEPT !.expiresAt = now + lasts]]
        /\ nonce' = nonce + 1
        /\ balance' = balance + value
        /\ UNCHANGED <<now, vouchers, paid, refunded>>

(* Off chain, an account signs any amount for any channel.                 *)
SignVoucher(a, id, cumulative) ==
    /\ vouchers' = vouchers \cup {[signer |-> a, id |-> id, cumulative |-> cumulative]}
    /\ Cardinality(vouchers') <= MaxVouchers
    /\ UNCHANGED <<now, channels, nonce, balance, opened, paid, refunded>>

(* Faulty variant: anybody's signature will do.                            *)
signedByAnyone(client, id, cumulative) ==
    \E a \in Accounts : [signer |-> a, id |-> id, cumulative |-> cumulative] \in vouchers

(* _recoverVoucher gives the channel's client.                             *)
signedBy(client, id, cumulative) ==
    [signer |-> client, id |-> id, cumulative |-> cumulative] \in vouchers

(* The payout is capped at the deposit.                                    *)
effective(ch, cumulative) == IF cumulative > ch.deposit THEN ch.deposit ELSE cumulative

(* Faulty variant: the whole voucher is paid, whatever was claimed before. *)
payAll(ch, upTo) == upTo

payDelta(ch, upTo) == upTo - ch.claimed

(* The conditions under which a claim does not revert.                     *)
mayClaim(a, id, cumulative) ==
    /\ isOpen(id)
    /\ a = channels[id].resolver
    /\ signedBy(channels[id].client, id, cumulative)
    /\ effective(channels[id], cumulative) > channels[id].claimed

claim(a, id, cumulative) ==
    LET upTo == effective(channels[id], cumulative)
        pay  == payDelta(channels[id], upTo)
    IN  /\ mayClaim(a, id, cumulative)
        /\ channels' = [channels EXCEPT ![id].claimed = upTo]
        /\ balance' = balance - pay
        /\ paid' = [paid EXCEPT ![id] = @ + pay]
        /\ UNCHANGED <<now, nonce, vouchers, opened, refunded>>

(* Faulty variant: no time to settle.                                      *)
expired(ch) == now >= ch.expiresAt

settled(ch) == now >= ch.expiresAt + SETTLEMENT_WINDOW

remainder(ch) == ch.deposit - ch.claimed

closeChannel(a, id) ==
    LET ch     == channels[id]
        refund == remainder(ch)
    IN  /\ isOpen(id)
        /\ a = ch.client
        /\ settled(ch)
        /\ channels' = [channels EXCEPT ![id] = NoChannel]
        /\ balance' = balance - refund
        /\ refunded' = [refunded EXCEPT ![id] = @ + refund]
        /\ UNCHANGED <<now, nonce, vouchers, opened, paid>>

Next ==
    \/ Tick
    \/ \E a \in Accounts, r \in Accounts \cup {ZeroAddress}, v \in Deposits, d \in Durations :
         openChannel(a, r, v, d)
    \/ \E a \in Accounts, id \in Ids, c \in Amounts : SignVoucher(a, id, c)
    \/ \E a \in Accounts, id \in Ids, c \in Amounts : claim(a, id, c)
    \/ \E a \in Accounts, id \in Ids : closeChannel(a, id)

Spec == Init /\ [][Next]_vars

-----------------------------------------------------------------------------
(* Properties.                                                             *)

(* What a resolver was paid on a channel, over all its claims in whatever  *)
(* order and however often repeated, is covered by one voucher that the    *)
(* channel's client signed for this channel, and by the deposit.           *)
PaidAsSigned ==
    \A id \in Ids : paid[id] # 0 =>
        /\ paid[id] <= opened[id].deposit
        /\ \E v \in vouchers : /\ v.id = id
                               /\ v.signer = opened[id].client
                               /\ paid[id] <= v.cumulative

(* The deposit is split between the parties without remainder: an open     *)
(* channel has recorded what it paid and refunded nothing, a closed one    *)
(* has given back all the rest, once.                                      *)
DepositSplit ==
    \A id \in 0..(nonce - 1) :
        IF isOpen(id)
          THEN channels[id] = [opened[id] EXCEPT !.claimed = paid[id]] /\ refunded[id] = 0
          ELSE paid[id] + refunded[id] = opened[id].deposit

(* SETTLEMENT_WINDOW: a channel is there and pays until the window after   *)
(* its lifetime is over, however long a lifetime was asked for: a resolver *)
(* that was offline at the expiry can redeem every voucher of the client's *)
(* that goes beyond what it was paid.                                      *)
EarnedStaysClaimable ==
    \A id \in 0..(nonce - 1) : now < opened[id].expiresAt + SETTLEMENT_WINDOW =>
        /\ isOpen(id)
        /\ \A v \in vouchers :
             /\ v.id = id /\ v.signer = opened[id].client
             /\ paid[id] < v.cumulative /\ paid[id] < opened[id].deposit
             => mayClaim(opened[id].resolver, id, v.cumulative)
=============================================================================
