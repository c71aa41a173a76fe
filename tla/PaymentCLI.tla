----------------------------- MODULE PaymentCLI -----------------------------
(***************************************************************************)
(* The payment commands (resolver/cmd/ddns/channels.go) and the contract   *)
(* ResolverIncentives: channel-open, channel-claim and channel-close each  *)
(* submit a transaction and wait for its receipt, voucher signs off chain. *)
(* Transactions wait for as long as it takes, an account's in the order of *)
(* their nonces.  A process may be stopped at any time; what it submitted  *)
(* is mined all the same.                                                  *)
(***************************************************************************)
EXTENDS ResolverIncentives, Sequences

CONSTANTS
    Procs, account,     \* processes, and the account of each one's key
    Typed,              \* amounts as typed: n/d ether, [num |-> n, den |-> d]
    Openings,           \* command lines of channel-open: whose, resolver, amount, duration
    ether,              \* the wei in one ether
    MaxCommands         \* bound of the model

VARIABLES
    cli,        \* process -> where its command is
    pool,       \* account -> submitted transactions not yet mined
    reports,    \* history: what commands have reported as done
    commands    \* commands started so far

payVars == <<cli, pool, reports, commands>>

idle == [pc |-> "idle"]

ASSUME PaymentAssumption ==
    /\ account \in [Procs -> Accounts]
    /\ \A t \in Typed : t.num \in Nat /\ t.den \in Nat \ {0}
    /\ \A o \in Openings : {o.client, o.resolver} \subseteq Accounts /\ o.amount \in Typed /\ o.duration \in Nat
    /\ ether \in Nat \ {0} /\ MaxCommands \in Nat

(* Whole wei, rounded down; an amount of less than one is refused.         *)
mustEth(t) == (t.num * ether) \div t.den

PayInit ==
    /\ Init
    /\ cli = [p \in Procs |-> idle]
    /\ pool = [a \in Accounts |-> << >>]
    /\ reports = {}
    /\ commands = 0

-----------------------------------------------------------------------------
begin(p) ==
    /\ cli[p] = idle
    /\ commands < MaxCommands
    /\ commands' = commands + 1

send(p, tx) ==
    /\ begin(p)
    /\ pool' = [pool EXCEPT ![account[p]] = Append(@, [tx |-> tx, cmd |-> commands'])]
    /\ cli' = [cli EXCEPT ![p] = [pc |-> "mining", cmd |-> commands', tx |-> tx]]
    /\ UNCHANGED <<vars, reports>>

cmdChannelOpen(p, o) ==
    /\ o.client = account[p]
    /\ mustEth(o.amount) # 0
    /\ send(p, [kind |-> "open", resolver |-> o.resolver, wei |-> mustEth(o.amount),
                duration |-> o.duration])

cmdVoucher(p, id, t) ==
    /\ begin(p)
    /\ mustEth(t) # 0
    /\ SignVoucher(account[p], id, mustEth(t))
    /\ UNCHANGED <<cli, pool, reports>>

(* The voucher handed over, with the amount the operator types.            *)
cmdChannelClaim(p, id, t) ==
    /\ mustEth(t) # 0
    /\ send(p, [kind |-> "claim", id |-> id, wei |-> mustEth(t)])

cmdChannelClose(p, id) == send(p, [kind |-> "close", id |-> id])

-----------------------------------------------------------------------------
(* The contract's function, called from account a.                         *)
call(a, tx) ==
    \/ tx.kind = "open" /\ openChannel(a, tx.resolver, tx.wei, tx.duration)
    \/ tx.kind = "claim" /\ claim(a, tx.id, tx.wei)
    \/ tx.kind = "close" /\ closeChannel(a, tx.id)

(* The id in the log ChannelOpened; no other function emits one.           *)
loggedId(tx) == IF tx.kind = "open" THEN nonce ELSE tx.id

(* The receipt goes to the process that waits for it, if it still runs.    *)
mined(a, status, id) ==
    LET e    == Head(pool[a])
        rcpt == [pc |-> "mined", cmd |-> e.cmd, tx |-> e.tx, status |-> status, id |-> id]
    IN  /\ cli' = [p \in Procs |-> IF cli[p] # idle /\ cli[p].cmd = e.cmd THEN rcpt ELSE cli[p]]
        /\ pool' = [pool EXCEPT ![a] = Tail(@)]
        /\ UNCHANGED <<reports, commands>>

Succeeds(a) ==
    /\ pool[a] # << >>
    /\ call(a, Head(pool[a]).tx)
    /\ mined(a, "successful", loggedId(Head(pool[a]).tx))

Reverts(a) ==
    /\ pool[a] # << >>
    /\ ~ENABLED call(a, Head(pool[a]).tx)
    /\ mined(a, "reverted", loggedId(Head(pool[a]).tx))
    /\ UNCHANGED vars

(* Faulty variant: the status of the receipt is not looked at.             *)
anyReceipt(rcpt) == TRUE

successful(rcpt) == rcpt.status = "successful"

(* WaitMined returns: the command reports, or fails.                       *)
Receipt(p) ==
    /\ cli[p].pc = "mined"
    /\ reports' = IF successful(cli[p])
                    THEN reports \cup {[from |-> account[p], cmd |-> cli[p].cmd, tx |-> cli[p].tx,
                                        id |-> cli[p].id]}
                    ELSE reports
    /\ cli' = [cli EXCEPT ![p] = idle]
    /\ UNCHANGED <<vars, pool, commands>>

(* An error at any call, or an interrupt, ends a process.                  *)
Stopped(p) ==
    /\ cli[p] # idle
    /\ cli' = [cli EXCEPT ![p] = idle]
    /\ UNCHANGED <<vars, pool, reports, commands>>

PayNext ==
    \/ Tick /\ UNCHANGED payVars
    \/ \E p \in Procs :
         \/ \E o \in Openings : cmdChannelOpen(p, o)
         \/ \E id \in 0..(nonce - 1), t \in Typed : cmdVoucher(p, id, t)
         \/ \E id \in 0..(nonce - 1), t \in Typed : cmdChannelClaim(p, id, t)
         \/ \E id \in 0..(nonce - 1) : cmdChannelClose(p, id)
         \/ Receipt(p)
         \/ Stopped(p)
    \/ \E a \in Accounts : Succeeds(a) \/ Reverts(a)

PaySpec == PayInit /\ [][PayNext]_<<vars, payVars>>

-----------------------------------------------------------------------------
(* Properties.                                                             *)

(* What a payment command reports is so, whoever's transactions came       *)
(* between: channel-open prints the id of a channel funded as asked, that  *)
(* no other channel-open prints; after channel-claim the resolver has been *)
(* paid up to the voucher or the deposit; after channel-close the channel  *)
(* is gone and all that was not claimed has gone back.                     *)
ReportedIsDone ==
    \A r \in reports :
        CASE r.tx.kind = "open" ->
               /\ opened[r.id].client = r.from
               /\ opened[r.id].resolver = r.tx.resolver
               /\ opened[r.id].deposit = r.tx.wei
               /\ \A s \in reports : s.tx.kind = "open" /\ s.id = r.id => s = r
          [] r.tx.kind = "claim" -> paid[r.id] >= effective(opened[r.id], r.tx.wei)
          [] r.tx.kind = "close" ->
               ~isOpen(r.id) /\ refunded[r.id] = opened[r.id].deposit - paid[r.id]
=============================================================================
