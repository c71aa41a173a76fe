------------------------------ MODULE OwnerCLI ------------------------------
(***************************************************************************)
(* The owner's command line (resolver/cmd/ddns/main.go) and the namespace  *)
(* contract: processes that read the chain, sign, submit a transaction and *)
(* wait for its receipt, each a step of its own, while the transactions of *)
(* all accounts wait to be mined for as long as it takes.  An account's    *)
(* transactions are mined in the order of their nonces.  A process may be  *)
(* stopped at any time; what it submitted is mined all the same.           *)
(***************************************************************************)
EXTENDS NamespaceDApp, RecordSignatures

CONSTANTS
    Procs,
    account,        \* process -> the account of its key
    Hasty,          \* processes that are other clients and do not wait before register
    TypeArgs,       \* the types users ask to declare
    slack,          \* the seconds register waits beyond MIN_COMMITMENT_AGE
    MaxCommands     \* bound of the model: commands started

VARIABLES
    cli,            \* process -> where its command is
    pool,           \* account -> submitted transactions not yet mined
    slotSig,        \* ownerSig of each record slot; history: when its signer read the chain
    changedAt,      \* history: name -> time it last changed hands
    drawn,          \* the number of secrets drawn so far; the n-th one is n
    commands        \* commands started so far

cliVars == <<cli, pool, slotSig, changedAt, drawn, commands>>

idle == [pc |-> "idle"]

NoSlotSig == [ownerSig |-> NoSignature, readAt |-> 0]

ASSUME OwnerCLIAssumption ==
    /\ account \in [Procs -> Accounts]
    /\ Hasty \subseteq Procs /\ TypeArgs \subseteq Types
    /\ SigningKey \in [Accounts -> PubKeys]
    /\ \A a \in Accounts : validPubKey(SigningKey[a])
    /\ Secrets = 1..Cardinality(Secrets)
    /\ slack \in Nat /\ MaxCommands \in Nat

CLIInit ==
    /\ Init
    /\ cli = [p \in Procs |-> idle]
    /\ pool = [a \in Accounts |-> <<>>]
    /\ slotSig = [n \in Names |-> [k \in Keys |-> NoSlotSig]]
    /\ changedAt = [n \in Names |-> 0]
    /\ drawn = 0
    /\ commands = 0

-----------------------------------------------------------------------------
(* Transactions.                                                           *)

(* What the commands of one transaction send.                              *)
PlainTxs ==
    [kind : {"transfer"}, name : Names, to : Accounts, pubKey : PubKeys]
    \cup [kind : {"renew"}, name : Names]
    \cup [kind : {"remove"}, name : Names, key : Keys]
    \cup [kind : {"withdraw"}, to : Accounts]
    \cup [kind : {"declare"}, type : TypeArgs, mandatory : FieldLists, optional : FieldLists]

ownCommitment(a, tx) == makeCommitment(tx.name, a, SigningKey[a], tx.secret)

(* The contract's function, called from account a.                         *)
call(a, tx) ==
    \/ tx.kind = "commit" /\ commit(ownCommitment(a, tx))
    \/ tx.kind = "register" /\ register(a, tx.name, SigningKey[a], tx.secret, priceOf(tx.name))
    \/ tx.kind = "set" /\ setRecord(a, tx.name, tx.input)
    \/ tx.kind = "remove" /\ removeRecord(a, tx.name, tx.key)
    \/ tx.kind = "transfer" /\ transfer(a, tx.name, tx.to, tx.pubKey)
    \/ tx.kind = "renew" /\ renew(tx.name, priceOf(tx.name))
    \/ tx.kind = "withdraw" /\ withdraw(a, tx.to)
    \/ tx.kind = "declare" /\ declare(tx.type, tx.mandatory, tx.optional)

(* What that function requires; a transaction that only a bound of the     *)
(* model stops neither succeeds nor reverts.                               *)
mayCall(a, tx) ==
    \/ tx.kind = "commit"
    \/ tx.kind = "register"
       /\ mayRegister(a, tx.name, SigningKey[a], tx.secret, priceOf(tx.name))
    \/ tx.kind = "set" /\ maySetRecord(a, tx.name, tx.input)
    \/ tx.kind = "remove" /\ mayRemoveRecord(a, tx.name, tx.key)
    \/ tx.kind = "transfer" /\ mayTransfer(a, tx.name, tx.to, tx.pubKey)
    \/ tx.kind = "renew" /\ mayRenew(tx.name, priceOf(tx.name))
    \/ tx.kind = "withdraw" /\ mayWithdraw(a, tx.to)
    \/ tx.kind = "declare" /\ mayDeclare(tx.type, tx.mandatory, tx.optional)

(* The signatures in the slots after setRecord or removeRecord.            *)
sigStored(tx) ==
    CASE tx.kind = "set" ->
           [slotSig EXCEPT ![tx.name][recordKeyOf(tx.input)] =
              [ownerSig |-> tx.sig, readAt |-> tx.readAt]]
      [] tx.kind = "remove" -> [slotSig EXCEPT ![tx.name][tx.key] = NoSlotSig]
      [] OTHER -> slotSig

(* WaitMined, in the process that sent the transaction and still runs.     *)
receipt(e, status) ==
    cli' = [p \in Procs |->
              IF cli[p].pc \in {"committing", "mining"} /\ cli[p].cmd = e.cmd
                THEN [cli[p] EXCEPT !.status = status] ELSE cli[p]]

Succeeds(a) ==
    /\ pool[a] # <<>>
    /\ LET e == Head(pool[a])
       IN  /\ call(a, e.tx)
           /\ slotSig' = sigStored(e.tx)
           /\ changedAt' = IF e.tx.kind \in {"register", "transfer"}
                             THEN [changedAt EXCEPT ![e.tx.name] = now] ELSE changedAt
           /\ receipt(e, "successful")
    /\ pool' = [pool EXCEPT ![a] = Tail(@)]
    /\ UNCHANGED <<drawn, commands>>

Reverts(a) ==
    /\ pool[a] # <<>>
    /\ ~mayCall(a, Head(pool[a]).tx)
    /\ receipt(Head(pool[a]), "reverted")
    /\ pool' = [pool EXCEPT ![a] = Tail(@)]
    /\ UNCHANGED <<vars, slotSig, changedAt, drawn, commands>>

-----------------------------------------------------------------------------
(* The commands.                                                           *)

send(p, cmd, tx) ==
    pool' = [pool EXCEPT ![account[p]] = Append(@, [tx |-> tx, cmd |-> cmd])]

begin(p) ==
    /\ cli[p] = idle
    /\ commands < MaxCommands
    /\ commands' = commands + 1

plainCommand(p, tx) ==
    /\ begin(p)
    /\ send(p, commands', tx)
    /\ cli' = [cli EXCEPT ![p] = [pc |-> "mining", cmd |-> commands', status |-> "pending"]]
    /\ UNCHANGED <<vars, slotSig, changedAt, drawn>>

(* register draws a secret, commits, and waits for the receipt.            *)
cmdRegister(p, n) ==
    /\ begin(p)
    /\ validLength(n)
    /\ drawn' = drawn + 1
    /\ drawn' \in Secrets
    /\ send(p, commands', [kind |-> "commit", name |-> n, secret |-> drawn'])
    /\ cli' = [cli EXCEPT ![p] = [pc |-> "committing", cmd |-> commands', status |-> "pending",
                                  name |-> n, secret |-> drawn']]
    /\ UNCHANGED <<vars, slotSig, changedAt>>

(* Faulty variant: the wait is the slack alone.                            *)
slackOnly(p) == now + slack

waitEnd(p) == IF p \in Hasty THEN now ELSE now + MIN_COMMITMENT_AGE + slack

Committed(p) ==
    /\ cli[p].pc = "committing"
    /\ cli[p].status = "successful"
    /\ cli' = [cli EXCEPT ![p] = [pc |-> "waiting", cmd |-> cli[p].cmd, until |-> waitEnd(p),
                                  name |-> cli[p].name, secret |-> cli[p].secret]]
    /\ UNCHANGED <<vars, pool, slotSig, changedAt, drawn, commands>>

(* A commitment on the chain that somebody is still able to reveal.        *)
revealable(c) ==
    /\ commitments[c] # 0
    /\ \/ \E p \in Procs : /\ cli[p].pc \in {"committing", "waiting"}
                           /\ cli[p].secret = c.secret
       \/ \E i \in DOMAIN pool[c.owner] :
             LET tx == pool[c.owner][i].tx
             IN  tx.kind = "register" /\ tx.secret = c.secret

rivals(p, n) ==
    {c \in Commitment : c.name = n /\ c.secret # cli[p].secret /\ revealable(c)}

(* The transaction remembers, as history, when it was sent and whether the *)
(* name was then free with nobody else ready to reveal it.                 *)
Reveal(p) ==
    /\ cli[p].pc = "waiting"
    /\ now >= cli[p].until
    /\ send(p, cli[p].cmd,
            [kind |-> "register", name |-> cli[p].name, secret |-> cli[p].secret, sentAt |-> now,
             alone |-> available(cli[p].name) /\ rivals(p, cli[p].name) = {}])
    /\ cli' = [cli EXCEPT ![p] = [pc |-> "mining", cmd |-> cli[p].cmd, status |-> "pending"]]
    /\ UNCHANGED <<vars, slotSig, changedAt, drawn, commands>>

(* set and publish-resource read the generation...                         *)
generationOf(p, n, in) ==
    /\ begin(p)
    /\ domains[n].owner # ZeroAddress
    /\ cli' = [cli EXCEPT ![p] = [pc |-> "signing", cmd |-> commands', name |-> n, input |-> in,
                                  generation |-> domains[n].generation, readAt |-> now]]
    /\ UNCHANGED <<vars, pool, slotSig, changedAt, drawn>>

(* ... and sign and send the record under it.                              *)
cmdSet(p) ==
    /\ cli[p].pc = "signing"
    /\ LET rec == [body |-> cli[p].input, generation |-> cli[p].generation]
       IN  send(p, cli[p].cmd,
                [kind |-> "set", name |-> cli[p].name, input |-> cli[p].input,
                 sig |-> SignRecord(cli[p].name, rec, account[p]), readAt |-> cli[p].readAt])
    /\ cli' = [cli EXCEPT ![p] = [pc |-> "mining", cmd |-> cli[p].cmd, status |-> "pending"]]
    /\ UNCHANGED <<vars, slotSig, changedAt, drawn, commands>>

(* The last receipt, an error at any call, or an interrupt ends a process. *)
Ends(p) ==
    /\ cli[p] # idle
    /\ cli' = [cli EXCEPT ![p] = idle]
    /\ UNCHANGED <<vars, pool, slotSig, changedAt, drawn, commands>>

CLITick == Tick /\ UNCHANGED cliVars

CLINext ==
    \/ CLITick
    \/ \E a \in Accounts : Succeeds(a)
    \/ \E a \in Accounts : Reverts(a)
    \/ \E p \in Procs, tx \in PlainTxs : plainCommand(p, tx)
    \/ \E p \in Procs, n \in Names : cmdRegister(p, n)
    \/ \E p \in Procs : Committed(p)
    \/ \E p \in Procs : Reveal(p)
    \/ \E p \in Procs, n \in Names, in \in RecordInputs : generationOf(p, n, in)
    \/ \E p \in Procs : cmdSet(p)
    \/ \E p \in Procs : Ends(p)

CLISpec == CLIInit /\ [][CLINext]_<<vars, cliVars>>

-----------------------------------------------------------------------------
(* Properties.                                                             *)

(* Every register transaction that register has sent finds its commitment  *)
(* on the chain and old enough, however long the commit took to be mined   *)
(* and whatever other processes do: the wait is counted from the receipt.  *)
RevealsMature ==
    \A a \in Accounts \ {account[p] : p \in Hasty} : \A i \in DOMAIN pool[a] :
        LET tx == pool[a][i].tx
            c  == ownCommitment(a, tx)
        IN  tx.kind = "register" =>
              commitments[c] # 0 /\ now >= commitments[c] + MIN_COMMITMENT_AGE

(* Front-running does not work: who sends register for a free name, with   *)
(* an aged commitment, while nobody else has a commitment to it to reveal, *)
(* gets the name, if the transaction is mined within the minimal age of a  *)
(* commitment and before its own is too old.  Registrations stopped        *)
(* half-way earlier, one's own or another's, do not stand in the way, nor  *)
(* do clients that do not wait.                                            *)
RevealNotOvertaken ==
    [][\A a \in Accounts :
         LET tx == Head(pool[a]).tx
         IN  /\ pool[a] # <<>> /\ pool'[a] = Tail(pool[a])
             /\ tx.kind = "register"
             /\ tx.alone
             /\ validateName(tx.name)
             /\ now < tx.sentAt + MIN_COMMITMENT_AGE
             /\ now - commitments[ownCommitment(a, tx)] \in MIN_COMMITMENT_AGE..MAX_COMMITMENT_AGE
             => domains'[tx.name].owner = a /\ changedAt'[tx.name] = now]_<<vars, cliVars>>

slotRecord(n, k) ==
    [body |-> records[n][k].body, generation |-> records[n][k].generation,
     ownerSig |-> slotSig[n][k].ownerSig]

verifies(n, k) ==
    VerifyOwnerSig(n, slotRecord(n, k), domains[n].owner, domains[n].pubKey)

(* A record that resolves and whose signature verifies was begun after the *)
(* name last changed hands: a set that read the generation earlier, and is *)
(* mined after the name went away and came back to the same key, does not  *)
(* verify.                                                                 *)
VerifiedIsFresh ==
    \A n \in Names, k \in Keys :
        lookup(n, k).exists /\ verifies(n, k) => slotSig[n][k].readAt >= changedAt[n]
=============================================================================
