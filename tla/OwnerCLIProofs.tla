--------------------------- MODULE OwnerCLIProofs ---------------------------
(***************************************************************************)
(* The owner's command line, for any processes, accounts, names, ages and  *)
(* periods, and however long transactions wait to be mined.  OwnerInv has  *)
(* four parts: who has which number and secret (SecretInv); how old the    *)
(* commitment of every registration under way is (Aging) and how old that  *)
(* of every register in the pool (Matured); and under which generation     *)
(* every signature, under way, submitted or stored, was begun (FreshInv).  *)
(* RaceInv is about who can still overtake a register that is in the pool. *)
(***************************************************************************)
EXTENDS OwnerCLI, TLAPS

(* Leaves are for Zenon unless they name another prover.                   *)
USE ZenonT(20)

-----------------------------------------------------------------------------
(* Every command has a number of its own and every registration a secret   *)
(* of its own, so that a receipt goes to the process that waits for it and *)
(* a commitment is touched by no other.                                    *)

OwnSecrets == Secrets \cap Nat

Sigs == [by : Accounts, over : [name : Names, body : RecordInputs, generation : Nat]]

Txs ==
    PlainTxs
    \cup [kind : {"commit"}, name : Names, secret : OwnSecrets]
    \cup [kind : {"register"}, name : Names, secret : OwnSecrets, sentAt : Nat, alone : BOOLEAN]
    \cup [kind : {"set"}, name : Names, input : RecordInputs, sig : Sigs, readAt : Nat]

Entry == [tx : Txs, cmd : Nat]

Status == {"pending", "successful", "reverted"}

States ==
    {idle}
    \cup [pc : {"mining"}, cmd : Nat, status : Status]
    \cup [pc : {"committing"}, cmd : Nat, status : Status, name : Names, secret : OwnSecrets]
    \cup [pc : {"waiting"}, cmd : Nat, until : Nat, name : Names, secret : OwnSecrets]
    \cup [pc : {"signing"}, cmd : Nat, name : Names, input : RecordInputs, generation : Nat,
          readAt : Nat]

CLIType ==
    /\ cli \in [Procs -> States] /\ pool \in [Accounts -> Seq(Entry)]
    /\ drawn \in Nat /\ commands \in Nat

(* Numbers of commands.                                                    *)
Numbered ==
    /\ \A p \in Procs : cli[p] # idle => cli[p].cmd <= commands
    /\ \A p, q \in Procs : p # q /\ cli[p] # idle /\ cli[q] # idle => cli[p].cmd # cli[q].cmd
    /\ \A a \in Accounts : \A i \in 1..Len(pool[a]) :
         /\ pool[a][i].cmd <= commands
         /\ \A p \in Procs : cli[p].pc = "committing" /\ cli[p].cmd = pool[a][i].cmd =>
              /\ a = account[p] /\ pool[a][i].tx.kind = "commit"
              /\ pool[a][i].tx.name = cli[p].name /\ pool[a][i].tx.secret = cli[p].secret

registering(p) == cli[p].pc \in {"committing", "waiting"}

committed(p) == cli[p].pc = "waiting" \/ (cli[p].pc = "committing" /\ cli[p].status = "successful")

secretive(tx) == tx.kind \in {"commit", "register"}

(* Secrets: in a process, in the pool, and in the two.                     *)
Drawn ==
    /\ \A p \in Procs : registering(p) => cli[p].secret <= drawn
    /\ \A p, q \in Procs : p # q /\ registering(p) /\ registering(q) => cli[p].secret # cli[q].secret

Submitted ==
    \A a \in Accounts : \A i \in 1..Len(pool[a]) : secretive(pool[a][i].tx) =>
        /\ pool[a][i].tx.secret <= drawn
        /\ \A b \in Accounts : \A j \in 1..Len(pool[b]) :
             secretive(pool[b][j].tx) /\ pool[b][j].tx.secret = pool[a][i].tx.secret => a = b /\ i = j

Apart ==
    \A p \in Procs, a \in Accounts : \A i \in 1..Len(pool[a]) :
        registering(p) /\ secretive(pool[a][i].tx) /\ pool[a][i].tx.secret = cli[p].secret =>
            pool[a][i].tx.kind = "commit" /\ ~committed(p)

SecretInv == CLIType /\ Numbered /\ Drawn /\ Submitted /\ Apart

(* What the fields of a transaction are, for each kind of transaction.     *)
LEMMA TxFields ==
    ASSUME NEW tx \in Txs
    PROVE  /\ tx.kind \in {"transfer", "renew", "remove", "withdraw", "declare",
                            "commit", "register", "set"}
           /\ secretive(tx) => tx.name \in Names /\ tx.secret \in Secrets /\ tx.secret \in Nat
           /\ tx.kind = "transfer" => tx.name \in Names /\ tx.to \in Accounts /\ tx.pubKey \in PubKeys
           /\ tx.kind = "renew" => tx.name \in Names
           /\ tx.kind = "remove" => tx.name \in Names /\ tx.key \in Keys
           /\ tx.kind = "set" => /\ tx.name \in Names /\ tx.input \in RecordInputs
                                 /\ tx.sig \in Sigs /\ tx.readAt \in Nat
BY DEF Txs, PlainTxs, secretive, OwnSecrets

(* What the fields of a process are, at each place a command can be.       *)
LEMMA StateFields ==
    ASSUME NEW x \in States
    PROVE  /\ x.pc \in {"idle", "mining", "committing", "waiting", "signing"}
           /\ x # idle <=> x.pc # "idle"
           /\ x # idle => x.cmd \in Nat
           /\ x.pc \in {"committing", "waiting"} => /\ x.name \in Names /\ x.secret \in Secrets
                                                    /\ x.secret \in Nat
           /\ x.pc = "waiting" => x.until \in Nat
           /\ x.pc = "signing" => /\ x.name \in Names /\ x.input \in RecordInputs
                                  /\ x.generation \in Nat /\ x.readAt \in Nat
BY SMT DEF States, idle, OwnSecrets

(* A receipt sets the status and nothing else.                             *)
LEMMA StatusSet ==
    ASSUME NEW x \in States, x.pc \in {"committing", "mining"}, NEW st \in Status, NEW y,
           y = [x EXCEPT !.status = st]
    PROVE  /\ y \in States /\ y.pc = x.pc /\ y.cmd = x.cmd /\ y.status = st
           /\ x.pc = "committing" => y.name = x.name /\ y.secret = x.secret
<1>1. CASE x.pc = "mining"
  <2>1. x \in [pc : {"mining"}, cmd : Nat, status : Status]
    BY SMT, <1>1 DEF States, idle
  <2>2. y \in [pc : {"mining"}, cmd : Nat, status : Status]
    BY <2>1
  <2>. QED BY <1>1, <2>1, <2>2 DEF States
<1>2. CASE x.pc = "committing"
  <2>1. x \in [pc : {"committing"}, cmd : Nat, status : Status, name : Names, secret : OwnSecrets]
    BY SMT, <1>2 DEF States, idle
  <2>2. y \in [pc : {"committing"}, cmd : Nat, status : Status, name : Names, secret : OwnSecrets]
    BY <2>1
  <2>. QED BY <1>2, <2>1, <2>2 DEF States
<1>. QED BY <1>1, <1>2

(* The pool without the first transaction of account a: what is at i in    *)
(* b's queue was at shift(a, b, i).                                        *)
shift(a, b, i) == IF b = a THEN i + 1 ELSE i

(* Mining an account's first transaction leaves all others in their order. *)
LEMMA Popped ==
    ASSUME pool \in [Accounts -> Seq(Entry)], NEW a \in Accounts, pool[a] # << >>,
           pool' = [pool EXCEPT ![a] = Tail(@)]
    PROVE  /\ 1 \in 1..Len(pool[a]) /\ Head(pool[a]) = pool[a][1] /\ Head(pool[a]) \in Entry
           /\ pool' \in [Accounts -> Seq(Entry)]
           /\ \A b \in Accounts : \A i \in 1..Len(pool'[b]) :
                /\ shift(a, b, i) \in 1..Len(pool[b]) /\ pool'[b][i] = pool[b][shift(a, b, i)]
                /\ b = a => shift(a, b, i) # 1
<1>1. pool[a] \in Seq(Entry) /\ 1 \in 1..Len(pool[a]) /\ Head(pool[a]) = pool[a][1]
      /\ Head(pool[a]) \in Entry
  BY SMT
<1>2. pool'[a] = Tail(pool[a]) /\ \A b \in Accounts : b # a => pool'[b] = pool[b]
  OBVIOUS
<1>3. pool' \in [Accounts -> Seq(Entry)]
  BY SMT, <1>1
<1>4. /\ Tail(pool[a]) \in Seq(Entry) /\ Len(Tail(pool[a])) = Len(pool[a]) - 1
      /\ \A i \in 1..Len(Tail(pool[a])) : Tail(pool[a])[i] = pool[a][i + 1]
  BY SMT, <1>1
<1>. QED BY SMT, <1>1, <1>2, <1>3, <1>4 DEF shift

(* The pool with one more transaction of account a.                        *)
LEMMA Appended ==
    ASSUME pool \in [Accounts -> Seq(Entry)], NEW a \in Accounts, NEW new \in Entry,
           pool' = [pool EXCEPT ![a] = Append(@, new)]
    PROVE  /\ pool' \in [Accounts -> Seq(Entry)]
           /\ \A b \in Accounts : \A i \in 1..Len(pool'[b]) :
                \/ b = a /\ i = Len(pool[a]) + 1 /\ pool'[b][i] = new
                \/ i \in 1..Len(pool[b]) /\ pool'[b][i] = pool[b][i]
<1>1. pool[a] \in Seq(Entry) /\ Len(pool[a]) \in Nat
  BY SMT
<1>2. Append(pool[a], new) \in Seq(Entry)
  BY SMT, <1>1
<1>3. pool'[a] = Append(pool[a], new) /\ \A b \in Accounts : b # a => pool'[b] = pool[b]
  OBVIOUS
<1>4. /\ Len(pool'[a]) = Len(pool[a]) + 1 /\ pool'[a][Len(pool[a]) + 1] = new
      /\ \A i \in 1..Len(pool[a]) : pool'[a][i] = pool[a][i]
  BY SMT, <1>1, <1>3
<1>. QED BY SMT, <1>1, <1>2, <1>3, <1>4

(* A receipt reaches the process that waits for it; the others go on.      *)
LEMMA Received ==
    ASSUME cli \in [Procs -> States], NEW e, NEW st \in Status, receipt(e, st), NEW p \in Procs
    PROVE  /\ cli'[p] \in States /\ cli'[p].pc = cli[p].pc
           /\ cli[p] # idle => cli'[p].cmd = cli[p].cmd
           /\ registering(p) => cli'[p].secret = cli[p].secret /\ cli'[p].name = cli[p].name
           /\ \/ cli'[p] = cli[p]
              \/ cli[p].pc \in {"committing", "mining"} /\ cli[p].cmd = e.cmd /\ cli'[p].status = st
<1>1. cli[p] \in States
  OBVIOUS
<1>2. CASE cli[p].pc \in {"committing", "mining"} /\ cli[p].cmd = e.cmd
  <2>1. cli'[p] = [cli[p] EXCEPT !.status = st]
    BY <1>2 DEF receipt
  <2>2. /\ cli'[p] \in States /\ cli'[p].pc = cli[p].pc /\ cli'[p].cmd = cli[p].cmd
        /\ cli'[p].status = st
        /\ cli[p].pc = "committing" => cli'[p].name = cli[p].name /\ cli'[p].secret = cli[p].secret
    BY SMT, <1>1, <1>2, <2>1, StatusSet
  <2>. QED BY <1>2, <2>2 DEF registering
<1>3. CASE ~(cli[p].pc \in {"committing", "mining"} /\ cli[p].cmd = e.cmd)
  <2>1. cli'[p] = cli[p]
    BY <1>3 DEF receipt
  <2>. QED BY <1>1, <2>1
<1>. QED BY <1>2, <1>3

(* A transaction is mined and its receipt, if somebody waits, delivered.   *)
LEMMA PopKeeps ==
    ASSUME SecretInv, NEW a \in Accounts, pool[a] # << >>, NEW st \in Status,
           receipt(Head(pool[a]), st), pool' = [pool EXCEPT ![a] = Tail(@)],
           UNCHANGED <<drawn, commands>>
    PROVE  SecretInv'
<1>. DEFINE e == Head(pool[a])
<1>1. cli \in [Procs -> States] /\ pool \in [Accounts -> Seq(Entry)]
  BY DEF SecretInv, CLIType
<1>2. 1 \in 1..Len(pool[a]) /\ e = pool[a][1] /\ e \in Entry
  BY <1>1, Popped
<1>3. /\ pool' \in [Accounts -> Seq(Entry)]
      /\ \A b \in Accounts : \A i \in 1..Len(pool'[b]) :
           /\ shift(a, b, i) \in 1..Len(pool[b]) /\ pool'[b][i] = pool[b][shift(a, b, i)]
           /\ b = a => shift(a, b, i) # 1
  BY <1>1, Popped
<1>. HIDE DEF e
<1>4. \A p \in Procs :
        /\ cli'[p] \in States /\ cli'[p].pc = cli[p].pc
        /\ cli[p] # idle => cli'[p].cmd = cli[p].cmd
        /\ registering(p) => cli'[p].secret = cli[p].secret /\ cli'[p].name = cli[p].name
        /\ \/ cli'[p] = cli[p]
           \/ cli[p].pc \in {"committing", "mining"} /\ cli[p].cmd = e.cmd /\ cli'[p].status = st
  BY <1>1, Received DEF e
<1>5. \A p \in Procs : (cli'[p] # idle <=> cli[p] # idle) /\ (registering(p)' <=> registering(p))
  BY <1>1, <1>4, StateFields DEF registering
<1>6. CLIType'
  <2>1. cli' \in [Procs -> States]
    BY <1>4 DEF receipt
  <2>. QED BY <1>3, <2>1 DEF SecretInv, CLIType
<1>7. Numbered'
  <2>1. /\ \A p \in Procs : cli'[p] # idle => cli'[p].cmd <= commands'
        /\ \A p, q \in Procs : p # q /\ cli'[p] # idle /\ cli'[q] # idle => cli'[p].cmd # cli'[q].cmd
    BY SMT, <1>4, <1>5 DEF SecretInv, Numbered
  <2>2. ASSUME NEW b \in Accounts, NEW i \in 1..Len(pool'[b])
        PROVE  /\ pool'[b][i].cmd <= commands'
               /\ \A p \in Procs : cli'[p].pc = "committing" /\ cli'[p].cmd = pool'[b][i].cmd =>
                    /\ b = account[p] /\ pool'[b][i].tx.kind = "commit"
                    /\ pool'[b][i].tx.name = cli'[p].name /\ pool'[b][i].tx.secret = cli'[p].secret
    <3>1. PICK j \in 1..Len(pool[b]) : pool'[b][i] = pool[b][j]
      BY SMT, <1>3
    <3>2. \A p \in Procs : cli[p].pc = "committing" => registering(p) /\ cli[p] # idle
      BY SMT DEF registering, idle
    <3>. QED BY SMT, <1>4, <3>1, <3>2 DEF SecretInv, Numbered
  <2>. QED BY <2>1, <2>2 DEF Numbered
<1>8. Drawn'
  BY SMT, <1>4, <1>5 DEF SecretInv, Drawn
<1>9. Submitted'
  <2>. SUFFICES ASSUME NEW b \in Accounts, NEW i \in 1..Len(pool'[b]), secretive(pool'[b][i].tx)
                PROVE  /\ pool'[b][i].tx.secret <= drawn'
                       /\ \A c \in Accounts : \A j \in 1..Len(pool'[c]) :
                            secretive(pool'[c][j].tx) /\ pool'[c][j].tx.secret = pool'[b][i].tx.secret
                              => b = c /\ i = j
    BY DEF Submitted, secretive
  <2>1. /\ shift(a, b, i) \in 1..Len(pool[b]) /\ pool'[b][i] = pool[b][shift(a, b, i)]
    BY <1>3
  <2>2. pool'[b][i].tx.secret <= drawn'
    BY SMT, <2>1 DEF SecretInv, Submitted
  <2>3. ASSUME NEW c \in Accounts, NEW j \in 1..Len(pool'[c]),
               secretive(pool'[c][j].tx), pool'[c][j].tx.secret = pool'[b][i].tx.secret
        PROVE  b = c /\ i = j
    <3>1. shift(a, c, j) \in 1..Len(pool[c]) /\ pool'[c][j] = pool[c][shift(a, c, j)]
      BY <1>3
    <3>2. b = c /\ shift(a, b, i) = shift(a, c, j)
      BY SMT, <2>1, <2>3, <3>1 DEF SecretInv, Submitted
    <3>. QED BY SMT, <3>2 DEF shift
  <2>. QED BY <2>2, <2>3
<1>10. Apart'
  <2>. SUFFICES ASSUME NEW p \in Procs, NEW b \in Accounts, NEW i \in 1..Len(pool'[b]),
                       registering(p)', secretive(pool'[b][i].tx), pool'[b][i].tx.secret = cli'[p].secret
                PROVE  pool'[b][i].tx.kind = "commit" /\ ~committed(p)'
    BY DEF Apart, secretive
  <2>0. registering(p) /\ pool'[b][i].tx.secret = cli[p].secret
    BY <1>4, <1>5
  <2>. DEFINE j == shift(a, b, i)
  <2>1. j \in 1..Len(pool[b]) /\ pool'[b][i] = pool[b][j] /\ (b = a => j # 1)
    BY <1>3
  <2>. HIDE DEF j
  <2>2. pool[b][j].tx.kind = "commit" /\ ~committed(p)
    BY <2>0, <2>1 DEF SecretInv, Apart
  <2>3. CASE cli'[p] = cli[p]
    BY <2>1, <2>2, <2>3 DEF committed
  <2>4. CASE cli[p].pc = "committing" /\ cli[p].cmd = e.cmd
    <3>1. e.tx.kind = "commit" /\ e.tx.secret = cli[p].secret
      BY <1>2, <2>4 DEF SecretInv, Numbered
    <3>2. a = b /\ j = 1
      BY SMT, <1>2, <2>0, <2>1, <3>1 DEF SecretInv, Submitted, secretive
    <3>. QED BY <2>1, <3>2
  <2>. QED BY <1>4, <2>0, <2>3, <2>4 DEF registering
<1>. QED BY <1>6, <1>7, <1>8, <1>9, <1>10 DEF SecretInv

(* A process sends: a commitment, with a secret just drawn; the register   *)
(* it has waited to send, with its own secret; or anything else.           *)
LEMMA SendKeeps ==
    ASSUME SecretInv, NEW p \in Procs, NEW x \in States, NEW tx \in Txs,
           pool' = [pool EXCEPT ![account[p]] = Append(@, [tx |-> tx, cmd |-> x.cmd])],
           cli' = [cli EXCEPT ![p] = x],
           commands' \in Nat, commands <= commands', drawn' \in Nat, drawn <= drawn',
           x.pc \in {"committing", "mining"}, x.cmd <= commands',
           \A q \in Procs \ {p} : cli[q] # idle => cli[q].cmd # x.cmd,
           x.pc = "committing" =>
             /\ tx.kind = "commit" /\ tx.name = x.name /\ tx.secret = x.secret
             /\ x.status = "pending" /\ drawn < x.secret /\ x.secret <= drawn' /\ commands < x.cmd,
           x.pc = "mining" =>
             /\ tx.kind # "commit"
             /\ tx.kind = "register" => cli[p].pc = "waiting" /\ tx.secret = cli[p].secret
    PROVE  SecretInv'
<1>. DEFINE a   == account[p]
            new == [tx |-> tx, cmd |-> x.cmd]
<1>1. /\ cli \in [Procs -> States] /\ pool \in [Accounts -> Seq(Entry)] /\ a \in Accounts
      /\ drawn \in Nat /\ commands \in Nat
  <2>1. a \in Accounts
    BY OwnerCLIAssumption
  <2>. QED BY <2>1 DEF SecretInv, CLIType
<1>2. x # idle /\ x.cmd \in Nat
  BY StateFields
<1>3. new \in Entry /\ new.tx = tx /\ new.cmd = x.cmd
  BY <1>2 DEF Entry
<1>. HIDE DEF a, new
<1>4. pool' = [pool EXCEPT ![a] = Append(@, new)]
  BY DEF a, new
<1>5. pool' \in [Accounts -> Seq(Entry)]
  BY <1>1, <1>3, <1>4, Appended
<1>6. \A b \in Accounts : \A i \in 1..Len(pool'[b]) :
        \/ b = a /\ i = Len(pool[a]) + 1 /\ pool'[b][i] = new
        \/ i \in 1..Len(pool[b]) /\ pool'[b][i] = pool[b][i]
  BY SMT, <1>1, <1>3, <1>4, Appended
<1>7. cli'[p] = x /\ \A q \in Procs \ {p} : cli'[q] = cli[q]
  BY <1>1
<1>8. CLIType'
  BY <1>1, <1>5 DEF CLIType
<1>9. \A b \in Accounts : \A i \in 1..Len(pool[b]) :
         /\ pool[b][i].cmd \in Nat
         /\ secretive(pool[b][i].tx) => pool[b][i].tx.secret \in Nat
  <2>1. \A y \in Entry : y.cmd \in Nat /\ y.tx \in Txs
    BY DEF Entry
  <2>2. ASSUME NEW b \in Accounts, NEW i \in 1..Len(pool[b]) PROVE pool[b][i] \in Entry
    <3>1. pool[b] \in Seq(Entry)
      BY <1>1
    <3>. QED BY SMT, <3>1
  <2>. QED BY <2>1, <2>2, TxFields
<1>10. \A q \in Procs : /\ cli[q] # idle => cli[q].cmd \in Nat
                        /\ registering(q) => cli[q].secret \in Nat /\ cli[q] # idle
  <2>1. \A q \in Procs : cli[q] \in States
    BY <1>1
  <2>. QED BY <2>1, StateFields DEF registering
<1>11. Numbered'
  <2>1. /\ \A q \in Procs : cli'[q] # idle => cli'[q].cmd <= commands'
        /\ \A q, r \in Procs : q # r /\ cli'[q] # idle /\ cli'[r] # idle => cli'[q].cmd # cli'[r].cmd
    BY SMT, <1>1, <1>7, <1>10 DEF SecretInv, Numbered
  <2>2. ASSUME NEW b \in Accounts, NEW i \in 1..Len(pool'[b])
        PROVE  /\ pool'[b][i].cmd <= commands'
               /\ \A q \in Procs : cli'[q].pc = "committing" /\ cli'[q].cmd = pool'[b][i].cmd =>
                    /\ b = account[q] /\ pool'[b][i].tx.kind = "commit"
                    /\ pool'[b][i].tx.name = cli'[q].name /\ pool'[b][i].tx.secret = cli'[q].secret
    <3>1. CASE b = a /\ pool'[b][i] = new
      <4>1. ASSUME NEW q \in Procs, cli'[q].pc = "committing", cli'[q].cmd = x.cmd PROVE q = p
        <5>1. q # p => cli'[q] = cli[q]
          BY <1>7
        <5>2. idle.pc # "committing"
          BY DEF idle
        <5>. QED BY <4>1, <5>1, <5>2
      <4>2. pool'[b][i].cmd <= commands'
        BY SMT, <1>3, <1>7, <3>1
      <4>. QED BY <1>3, <1>7, <3>1, <4>1, <4>2 DEF a
    <3>2. CASE i \in 1..Len(pool[b]) /\ pool'[b][i] = pool[b][i]
      <4>1. pool[b][i].cmd <= commands /\ pool[b][i].cmd \in Nat
        BY <1>9, <3>2 DEF SecretInv, Numbered
      <4>2. ASSUME NEW q \in Procs, cli'[q].pc = "committing", cli'[q].cmd = pool[b][i].cmd
            PROVE  q # p
        BY SMT, <1>1, <1>2, <1>7, <4>1, <4>2
      <4>. QED BY SMT, <1>1, <1>7, <3>2, <4>1, <4>2 DEF SecretInv, Numbered
    <3>. QED BY <1>6, <3>1, <3>2
  <2>. QED BY <2>1, <2>2 DEF Numbered
<1>12. /\ \A q \in Procs \ {p} : registering(q)' <=> registering(q)
       /\ registering(p)' <=> x.pc = "committing"
       /\ x.pc = "committing" => ~committed(p)'
       /\ \A q \in Procs \ {p} : committed(q)' <=> committed(q)
  BY <1>7 DEF registering, committed
<1>13. Drawn'
  <2>1. \A q \in Procs : registering(q) => cli[q].secret <= drawn
    BY DEF SecretInv, Drawn
  <2>2. ASSUME NEW q \in Procs, registering(q)' PROVE cli'[q].secret <= drawn'
    BY SMT, <1>1, <1>7, <1>10, <1>12, <2>1, <2>2
  <2>3. ASSUME NEW q \in Procs, NEW r \in Procs, q # r, registering(q)', registering(r)'
        PROVE  cli'[q].secret # cli'[r].secret
    <3>1. CASE q # p /\ r # p
      BY SMT, <1>7, <1>12, <2>3, <3>1 DEF SecretInv, Drawn
    <3>2. CASE q = p
      BY SMT, <1>1, <1>7, <1>10, <1>12, <2>1, <2>3, <3>2
    <3>3. CASE r = p
      BY SMT, <1>1, <1>7, <1>10, <1>12, <2>1, <2>3, <3>3
    <3>. QED BY <3>1, <3>2, <3>3
  <2>. QED BY <2>2, <2>3 DEF Drawn
<1>14. secretive(tx) => /\ tx.secret \in Nat /\ tx.secret <= drawn'
                        /\ \A b \in Accounts : \A i \in 1..Len(pool[b]) :
                             secretive(pool[b][i].tx) => pool[b][i].tx.secret # tx.secret
  <2>. SUFFICES ASSUME secretive(tx)
                PROVE  /\ tx.secret \in Nat /\ tx.secret <= drawn'
                       /\ \A b \in Accounts : \A i \in 1..Len(pool[b]) :
                            secretive(pool[b][i].tx) => pool[b][i].tx.secret # tx.secret
    OBVIOUS
  <2>1. tx.secret \in Nat
    BY TxFields
  <2>2. CASE x.pc = "committing"
    BY SMT, <1>1, <1>9, <2>1, <2>2 DEF SecretInv, Submitted
  <2>3. CASE x.pc = "mining"
    <3>1. registering(p) /\ committed(p) /\ tx.secret = cli[p].secret
      BY <2>3 DEF secretive, registering, committed
    <3>2. tx.secret <= drawn
      BY <3>1 DEF SecretInv, Drawn
    <3>. QED BY SMT, <1>1, <2>1, <3>1, <3>2 DEF SecretInv, Apart
  <2>. QED BY <2>2, <2>3
<1>15. Submitted'
  <2>. SUFFICES ASSUME NEW b \in Accounts, NEW i \in 1..Len(pool'[b]), secretive(pool'[b][i].tx)
                PROVE  /\ pool'[b][i].tx.secret <= drawn'
                       /\ \A c \in Accounts : \A j \in 1..Len(pool'[c]) :
                            secretive(pool'[c][j].tx) /\ pool'[c][j].tx.secret = pool'[b][i].tx.secret
                              => b = c /\ i = j
    BY DEF Submitted, secretive
  <2>1. CASE b = a /\ i = Len(pool[a]) + 1 /\ pool'[b][i] = new
    <3>1. secretive(tx) /\ pool'[b][i].tx = tx
      BY <1>3, <2>1
    <3>2. ASSUME NEW c \in Accounts, NEW j \in 1..Len(pool'[c]),
                 secretive(pool'[c][j].tx), pool'[c][j].tx.secret = tx.secret
          PROVE  b = c /\ i = j
      <4>1. ~(pool'[c][j] = pool[c][j] /\ j \in 1..Len(pool[c]))
        BY <1>14, <3>1, <3>2
      <4>2. c = a /\ j = Len(pool[a]) + 1
        BY <1>6, <4>1
      <4>. QED BY <2>1, <4>2
    <3>. QED BY <1>14, <3>1, <3>2
  <2>2. CASE i \in 1..Len(pool[b]) /\ pool'[b][i] = pool[b][i]
    <3>1. pool[b][i].tx.secret <= drawn /\ pool[b][i].tx.secret \in Nat
      BY <1>9, <2>2 DEF SecretInv, Submitted
    <3>2. pool'[b][i].tx.secret <= drawn'
      BY SMT, <1>1, <2>2, <3>1
    <3>3. ASSUME NEW c \in Accounts, NEW j \in 1..Len(pool'[c]),
                 secretive(pool'[c][j].tx), pool'[c][j].tx.secret = pool'[b][i].tx.secret
          PROVE  b = c /\ i = j
      <4>1. CASE pool'[c][j] = new
        BY <1>3, <1>14, <2>2, <3>3, <4>1
      <4>2. CASE j \in 1..Len(pool[c]) /\ pool'[c][j] = pool[c][j]
        BY <2>2, <3>3, <4>2 DEF SecretInv, Submitted
      <4>. QED BY <1>6, <4>1, <4>2
    <3>. QED BY <3>2, <3>3
  <2>. QED BY <1>6, <2>1, <2>2
<1>16. Apart'
  <2>. SUFFICES ASSUME NEW q \in Procs, NEW b \in Accounts, NEW i \in 1..Len(pool'[b]),
                       registering(q)', secretive(pool'[b][i].tx), pool'[b][i].tx.secret = cli'[q].secret
                PROVE  pool'[b][i].tx.kind = "commit" /\ ~committed(q)'
    BY DEF Apart, secretive
  <2>1. CASE q # p /\ pool'[b][i] = new
    <3>1. tx.secret = cli[q].secret /\ secretive(tx) /\ registering(q)
      BY <1>3, <1>7, <1>12, <2>1
    <3>2. cli[q].secret <= drawn /\ cli[q].secret \in Nat
      BY <1>10, <3>1 DEF SecretInv, Drawn
    <3>3. x.pc = "mining"
      BY SMT, <1>1, <3>1, <3>2
    <3>4. registering(p) /\ tx.secret = cli[p].secret
      BY <3>1, <3>3 DEF secretive, registering
    <3>. QED BY <2>1, <3>1, <3>4 DEF SecretInv, Drawn
  <2>2. CASE q # p /\ i \in 1..Len(pool[b]) /\ pool'[b][i] = pool[b][i]
    <3>1. registering(q) /\ cli'[q] = cli[q] /\ (committed(q)' <=> committed(q))
      BY <1>7, <1>12, <2>2
    <3>2. pool[b][i].tx.kind = "commit" /\ ~committed(q)
      BY <2>2, <3>1 DEF SecretInv, Apart
    <3>. QED BY <2>2, <3>1, <3>2
  <2>3. CASE q = p /\ pool'[b][i] = new
    BY <1>3, <1>12, <2>3
  <2>4. CASE q = p /\ i \in 1..Len(pool[b]) /\ pool'[b][i] = pool[b][i]
    <3>1. x.pc = "committing" /\ pool[b][i].tx.secret = x.secret /\ secretive(pool[b][i].tx)
      BY <1>7, <1>12, <2>4
    <3>. QED BY <1>14, <2>4, <3>1 DEF secretive
  <2>. QED BY <1>6, <2>1, <2>2, <2>3, <2>4
<1>. QED BY <1>8, <1>11, <1>13, <1>15, <1>16 DEF SecretInv

(* A process goes on by itself: it ends, waits for its commitment to age,  *)
(* or begins to sign.                                                      *)
LEMMA ProcessKeeps ==
    ASSUME SecretInv, NEW p \in Procs, NEW x \in States, cli' = [cli EXCEPT ![p] = x],
           UNCHANGED <<pool, drawn>>, commands' \in Nat, commands <= commands',
           x.pc \in {"idle", "waiting", "signing"},
           x # idle => /\ x.cmd <= commands'
                       /\ \A q \in Procs \ {p} : cli[q] # idle => cli[q].cmd # x.cmd,
           x.pc = "waiting" => committed(p) /\ x.secret = cli[p].secret
    PROVE  SecretInv'
<1>1. cli \in [Procs -> States] /\ pool \in [Accounts -> Seq(Entry)] /\ commands \in Nat
  BY DEF SecretInv, CLIType
<1>2. cli'[p] = x /\ \A q \in Procs \ {p} : cli'[q] = cli[q]
  BY <1>1
<1>3. CLIType'
  BY <1>1 DEF SecretInv, CLIType
<1>4. /\ \A q \in Procs \ {p} : (registering(q)' <=> registering(q)) /\ (committed(q)' <=> committed(q))
      /\ registering(p)' => committed(p) /\ registering(p) /\ cli'[p].secret = cli[p].secret
  BY <1>2 DEF registering, committed
<1>5. /\ \A q \in Procs : cli[q] # idle => cli[q].cmd \in Nat
      /\ \A b \in Accounts : \A i \in 1..Len(pool[b]) : pool[b][i].cmd \in Nat
  <2>1. \A y \in Entry : y.cmd \in Nat
    BY DEF Entry
  <2>2. \A b \in Accounts : pool[b] \in Seq(Entry)
    BY <1>1
  <2>. QED BY SMT, <1>1, <2>1, <2>2, StateFields
<1>6. Numbered'
  <2>1. /\ \A q \in Procs : cli'[q] # idle => cli'[q].cmd <= commands'
        /\ \A q, r \in Procs : q # r /\ cli'[q] # idle /\ cli'[r] # idle => cli'[q].cmd # cli'[r].cmd
    BY SMT, <1>1, <1>2, <1>5 DEF SecretInv, Numbered
  <2>2. \A b \in Accounts : \A i \in 1..Len(pool[b]) : pool[b][i].cmd <= commands'
    BY SMT, <1>1, <1>5 DEF SecretInv, Numbered
  <2>3. \A q \in Procs : cli'[q].pc = "committing" => cli'[q] = cli[q]
    BY <1>2
  <2>. QED BY SMT, <2>1, <2>2, <2>3 DEF SecretInv, Numbered
<1>7. Drawn'
  BY SMT, <1>2, <1>4 DEF SecretInv, Drawn
<1>8. Submitted'
  BY SMT DEF SecretInv, Submitted
<1>9. Apart'
  BY SMT, <1>2, <1>4 DEF SecretInv, Apart
<1>. QED BY <1>3, <1>6, <1>7, <1>8, <1>9 DEF SecretInv

-----------------------------------------------------------------------------
(* Commitments.                                                            *)

ChainInv ==
    /\ now \in Nat \ {0} /\ domains \in [Names -> Domain] /\ commitments \in [Commitment -> Nat]

own(p) == ownCommitment(account[p], cli[p])

(* Where a registration stands, its commitment is on the chain and of the  *)
(* age that it will need.                                                  *)
Aging ==
    \A p \in Procs : committed(p) =>
        /\ commitments[own(p)] # 0 /\ commitments[own(p)] <= now
        /\ cli[p].pc = "waiting" /\ p \notin Hasty =>
             commitments[own(p)] + MIN_COMMITMENT_AGE <= cli[p].until

mature(a, tx) ==
    /\ commitments[ownCommitment(a, tx)] # 0
    /\ now >= commitments[ownCommitment(a, tx)] + MIN_COMMITMENT_AGE

HastyAccounts == {account[p] : p \in Hasty}

Matured ==
    \A a \in Accounts \ HastyAccounts : \A i \in 1..Len(pool[a]) :
        pool[a][i].tx.kind = "register" => mature(a, pool[a][i].tx)

RevealInv == SecretInv /\ ChainInv /\ Aging /\ Matured

(* A commitment is known by its secret.                                    *)
LEMMA OwnIsCommitment ==
    ASSUME NEW a \in Accounts, NEW x, x.name \in Names, x.secret \in Secrets
    PROVE  ownCommitment(a, x) \in Commitment /\ ownCommitment(a, x).secret = x.secret
<1>1. SigningKey[a] \in PubKeys
  BY OwnerCLIAssumption
<1>. QED BY <1>1 DEF ownCommitment, makeCommitment, Commitment

(* What the contract's functions do to commitments and to generations.     *)
LEMMA CallFacts ==
    ASSUME ChainInv, NEW a \in Accounts, NEW tx \in Txs, call(a, tx)
    PROVE  /\ now' = now /\ ChainInv'
           /\ tx.kind = "commit" => commitments' = [commitments EXCEPT ![ownCommitment(a, tx)] = now]
           /\ tx.kind = "register" => commitments' = [commitments EXCEPT ![ownCommitment(a, tx)] = 0]
           /\ ~secretive(tx) => commitments' = commitments
           /\ \A n \in Names : domains'[n].generation =
                IF tx.kind \in {"register", "transfer"} /\ n = tx.name
                  THEN domains[n].generation + 1 ELSE domains[n].generation
<1>. USE DEF storeVars, moneyVars, schemaVars
<1>0. /\ now \in Nat \ {0} /\ domains \in [Names -> Domain] /\ commitments \in [Commitment -> Nat]
  BY DEF ChainInv
<1>1. CASE tx.kind = "commit"
  <2>1. commit(ownCommitment(a, tx))
    BY <1>1 DEF call
  <2>2. /\ commitments' = [commitments EXCEPT ![ownCommitment(a, tx)] = now]
        /\ UNCHANGED <<now, domains>>
    BY <2>1 DEF commit
  <2>. QED BY <1>0, <1>1, <2>2 DEF ChainInv, secretive
<1>2. CASE tx.kind = "register"
  <2>. DEFINE n == tx.name
              d == [owner |-> a, pubKey |-> SigningKey[a], expiry |-> now + REGISTRATION_PERIOD,
                    generation |-> domains[n].generation + 1]
  <2>1. register(a, n, SigningKey[a], tx.secret, priceOf(n))
    BY <1>2 DEF call
  <2>2. /\ commitments' = [commitments EXCEPT ![ownCommitment(a, tx)] = 0]
        /\ domains' = [domains EXCEPT ![n] = d] /\ now' = now /\ domains[n].generation < MaxGeneration
    BY <2>1 DEF register, reveal, ownCommitment
  <2>3. n \in Names
    BY <1>2, TxFields DEF secretive
  <2>4. d \in Domain /\ d.generation = domains[n].generation + 1
    <3>1. SigningKey[a] \in PubKeys /\ a \in Owners
      BY OwnerCLIAssumption DEF Owners
    <3>2. domains[n].generation + 1 \in Generations /\ now + REGISTRATION_PERIOD \in Nat
      BY SMT, <1>0, <2>2, <2>3, NamespaceAssumption DEF Domain, Generations
    <3>. QED BY <3>1, <3>2 DEF Domain
  <2>. HIDE DEF n, d
  <2>5. /\ domains' \in [Names -> Domain] /\ domains'[n] = d
        /\ \A m \in Names : m # n => domains'[m] = domains[m]
    BY <1>0, <2>2, <2>3, <2>4
  <2>. QED BY <1>0, <1>2, <2>2, <2>3, <2>4, <2>5 DEF ChainInv, secretive, n
<1>3. CASE tx.kind = "transfer"
  <2>. DEFINE n == tx.name
              d == [owner |-> tx.to, pubKey |-> tx.pubKey, expiry |-> domains[n].expiry,
                    generation |-> domains[n].generation + 1]
  <2>1. transfer(a, n, tx.to, tx.pubKey)
    BY <1>3 DEF call
  <2>2. /\ commitments' = commitments
        /\ domains' = [domains EXCEPT ![n] = d] /\ now' = now /\ domains[n].generation < MaxGeneration
    BY <2>1 DEF transfer
  <2>3. n \in Names /\ tx.to \in Owners /\ tx.pubKey \in PubKeys
    BY <1>3, TxFields DEF Owners
  <2>4. d \in Domain /\ d.generation = domains[n].generation + 1
    <3>1. domains[n].generation + 1 \in Generations /\ domains[n].expiry \in Nat
      BY SMT, <1>0, <2>2, <2>3, NamespaceAssumption DEF Domain, Generations
    <3>. QED BY <2>3, <3>1 DEF Domain
  <2>. HIDE DEF n, d
  <2>5. /\ domains' \in [Names -> Domain] /\ domains'[n] = d
        /\ \A m \in Names : m # n => domains'[m] = domains[m]
    BY <1>0, <2>2, <2>3, <2>4
  <2>. QED BY <1>0, <1>3, <2>2, <2>3, <2>4, <2>5 DEF ChainInv, secretive, n
<1>4. CASE tx.kind = "renew"
  <2>. DEFINE n == tx.name
              d == [domains[n] EXCEPT !.expiry = domains[n].expiry + REGISTRATION_PERIOD]
  <2>1. renew(n, priceOf(n))
    BY <1>4 DEF call
  <2>2. commitments' = commitments /\ domains' = [domains EXCEPT ![n] = d] /\ now' = now
    BY <2>1 DEF renew
  <2>3. n \in Names
    BY <1>4, TxFields
  <2>4. d \in Domain /\ d.generation = domains[n].generation
    <3>1. domains[n] \in Domain /\ domains[n].expiry + REGISTRATION_PERIOD \in Nat
      BY SMT, <1>0, <2>3, NamespaceAssumption DEF Domain
    <3>. QED BY <3>1 DEF Domain
  <2>. HIDE DEF n, d
  <2>5. /\ domains' \in [Names -> Domain] /\ domains'[n] = d
        /\ \A m \in Names : m # n => domains'[m] = domains[m]
    BY <1>0, <2>2, <2>3, <2>4
  <2>. QED BY <1>0, <1>4, <2>2, <2>4, <2>5 DEF ChainInv, secretive
<1>5. CASE tx.kind \in {"set", "remove", "withdraw", "declare"}
  <2>1. UNCHANGED <<now, domains, commitments>>
    BY <1>5 DEF call, setRecord, removeRecord, withdraw, declare
  <2>. QED BY <1>0, <1>5, <2>1 DEF ChainInv, secretive
<1>. QED BY <1>1, <1>2, <1>3, <1>4, <1>5, TxFields

(* A process still knows its own commitment after a receipt.               *)
LEMMA SuccessKeeps ==
    ASSUME RevealInv, NEW a \in Accounts, pool[a] # << >>, call(a, Head(pool[a]).tx),
           receipt(Head(pool[a]), "successful"), pool' = [pool EXCEPT ![a] = Tail(@)]
    PROVE  ChainInv' /\ Aging' /\ Matured'
<1>. DEFINE e == Head(pool[a])
            c == ownCommitment(a, e.tx)
<1>0. /\ cli \in [Procs -> States] /\ pool \in [Accounts -> Seq(Entry)]
      /\ now \in Nat \ {0} /\ commitments \in [Commitment -> Nat]
  BY DEF RevealInv, SecretInv, CLIType, ChainInv
<1>1. 1 \in 1..Len(pool[a]) /\ e = pool[a][1] /\ e \in Entry
  BY <1>0, Popped
<1>2. e.tx \in Txs
  <2>1. \A y \in Entry : y.tx \in Txs
    BY DEF Entry
  <2>. QED BY <1>1, <2>1
<1>3. \A b \in Accounts : \A i \in 1..Len(pool'[b]) :
           /\ shift(a, b, i) \in 1..Len(pool[b]) /\ pool'[b][i] = pool[b][shift(a, b, i)]
           /\ b = a => shift(a, b, i) # 1
  BY <1>0, Popped
<1>4. /\ now' = now /\ ChainInv'
      /\ e.tx.kind = "commit" => commitments' = [commitments EXCEPT ![c] = now]
      /\ e.tx.kind = "register" => commitments' = [commitments EXCEPT ![c] = 0]
      /\ ~secretive(e.tx) => commitments' = commitments
  BY SMT, <1>2, CallFacts DEF RevealInv
<1>5. secretive(e.tx) => c \in Commitment /\ c.secret = e.tx.secret
  BY <1>2, TxFields, OwnIsCommitment
<1>. HIDE DEF e, c
<1>6. ASSUME NEW d \in Commitment, secretive(e.tx) => d.secret # e.tx.secret
      PROVE  commitments'[d] = commitments[d]
  <2>1. CASE secretive(e.tx)
    <3>1. d # c
      BY <1>5, <1>6, <2>1
    <3>. QED BY <1>0, <1>4, <2>1, <3>1 DEF secretive
  <2>2. CASE ~secretive(e.tx)
    BY <1>4, <2>2
  <2>. QED BY <2>1, <2>2
<1>7. \A p \in Procs :
        /\ cli'[p].pc = cli[p].pc
        /\ registering(p) => cli'[p].secret = cli[p].secret /\ cli'[p].name = cli[p].name
        /\ \/ cli'[p] = cli[p]
           \/ cli[p].pc \in {"committing", "mining"} /\ cli[p].cmd = e.cmd
  <2>1. "successful" \in Status
    BY DEF Status
  <2>. QED BY <1>0, <2>1, Received DEF e
<1>8. \A p \in Procs : account[p] \in Accounts
  BY OwnerCLIAssumption
<1>9. ASSUME NEW p \in Procs, registering(p)
      PROVE  own(p)' = own(p) /\ own(p) \in Commitment /\ own(p).secret = cli[p].secret
  <2>1. own(p)' = own(p)
    BY <1>7, <1>9 DEF own, ownCommitment
  <2>2. cli[p].name \in Names /\ cli[p].secret \in Secrets
    BY <1>0, <1>9, StateFields DEF registering
  <2>3. PICK o : o = own(p)
    OBVIOUS
  <2>4. o \in Commitment /\ o.secret = cli[p].secret
    BY <1>8, <2>2, <2>3, OwnIsCommitment DEF own
  <2>. QED BY <2>1, <2>3, <2>4
<1>10. Aging'
  <2>. SUFFICES ASSUME NEW p \in Procs, committed(p)'
                PROVE  /\ commitments'[own(p)'] # 0 /\ commitments'[own(p)'] <= now'
                       /\ cli'[p].pc = "waiting" /\ p \notin Hasty =>
                            commitments'[own(p)'] + MIN_COMMITMENT_AGE <= cli'[p].until
    BY DEF Aging
  <2>1. registering(p)
    BY <1>7 DEF committed, registering
  <2>2. own(p)' = own(p) /\ own(p) \in Commitment /\ own(p).secret = cli[p].secret
    BY <1>9, <2>1
  <2>3. CASE committed(p)
    <3>1. secretive(e.tx) => e.tx.secret # cli[p].secret
      BY <1>1, <2>1, <2>3 DEF RevealInv, SecretInv, Apart
    <3>2. commitments'[own(p)] = commitments[own(p)]
      BY <1>6, <2>2, <3>1
    <3>3. cli'[p].pc = "waiting" => cli'[p] = cli[p]
      BY <1>7
    <3>4. /\ commitments[own(p)] # 0 /\ commitments[own(p)] <= now
          /\ cli[p].pc = "waiting" /\ p \notin Hasty =>
               commitments[own(p)] + MIN_COMMITMENT_AGE <= cli[p].until
      BY <2>3 DEF RevealInv, Aging
    <3>. QED BY <1>4, <2>2, <3>2, <3>3, <3>4
  <2>4. CASE ~committed(p)
    <3>1. cli[p].pc = "committing" /\ cli[p].cmd = e.cmd
      BY <1>7, <2>1, <2>4 DEF committed, registering
    <3>2. /\ e.tx.kind = "commit" /\ a = account[p]
          /\ e.tx.name = cli[p].name /\ e.tx.secret = cli[p].secret
      BY <1>1, <3>1 DEF RevealInv, SecretInv, Numbered
    <3>3. own(p) = c
      BY <3>2 DEF own, c, ownCommitment
    <3>4. commitments'[own(p)] = now
      BY <1>0, <1>4, <2>2, <3>2, <3>3
    <3>5. cli'[p].pc = "committing" /\ now # 0 /\ now <= now
      BY SMT, <1>0, <1>7, <3>1
    <3>. QED BY <1>4, <2>2, <3>4, <3>5
  <2>. QED BY <2>3, <2>4
<1>11. Matured'
  <2>. SUFFICES ASSUME NEW b \in Accounts \ HastyAccounts, NEW i \in 1..Len(pool'[b]),
                       pool'[b][i].tx.kind = "register"
                PROVE  mature(b, pool[b][i].tx)'
    BY DEF Matured, HastyAccounts
  <2>. DEFINE j  == shift(a, b, i)
              tx == pool[b][j].tx
              d  == ownCommitment(b, tx)
  <2>1. j \in 1..Len(pool[b]) /\ pool'[b][i] = pool[b][j] /\ (b = a => j # 1)
    BY <1>3
  <2>2. tx \in Txs
    <3>1. \A y \in Entry : y.tx \in Txs
      BY DEF Entry
    <3>2. pool[b] \in Seq(Entry)
      BY <1>0
    <3>. QED BY SMT, <2>1, <3>1, <3>2
  <2>. HIDE DEF j
  <2>3. tx.kind = "register" /\ secretive(tx)
    BY <2>1 DEF secretive
  <2>4. d \in Commitment /\ d.secret = tx.secret
    BY <2>2, <2>3, TxFields, OwnIsCommitment
  <2>5. secretive(e.tx) => e.tx.secret # tx.secret
    BY <1>1, <2>1, <2>3 DEF RevealInv, SecretInv, Submitted
  <2>6. mature(b, tx)
    BY <2>1, <2>3 DEF RevealInv, Matured
  <2>7. commitments'[d] = commitments[d]
    <3>. HIDE DEF d, tx
    <3>. QED BY <1>6, <2>4, <2>5
  <2>. QED BY <1>4, <2>1, <2>6, <2>7 DEF mature, ownCommitment
<1>. QED BY <1>4, <1>10, <1>11

-----------------------------------------------------------------------------
(* Signatures.  One over an earlier generation never verifies again; one   *)
(* over the present generation was begun since it started.                 *)

SlotSigs == [ownerSig : Sigs \cup {NoSignature}, readAt : Nat]

fresh(n, g, t) == g <= domains[n].generation /\ (g = domains[n].generation => t >= changedAt[n])

FreshInv ==
    /\ changedAt \in [Names -> Nat] /\ \A n \in Names : changedAt[n] <= now
    /\ slotSig \in [Names -> [Keys -> SlotSigs]]
    /\ \A p \in Procs : cli[p].pc = "signing" => fresh(cli[p].name, cli[p].generation, cli[p].readAt)
    /\ \A a \in Accounts : \A i \in 1..Len(pool[a]) : pool[a][i].tx.kind = "set" =>
         fresh(pool[a][i].tx.name, pool[a][i].tx.sig.over.generation, pool[a][i].tx.readAt)
    /\ \A n \in Names, k \in Keys : slotSig[n][k].ownerSig # NoSignature =>
         fresh(n, slotSig[n][k].ownerSig.over.generation, slotSig[n][k].readAt)

OwnerInv == RevealInv /\ FreshInv

(* A receipt after which the contract is as it was before.                 *)
LEMMA RevertKeeps ==
    ASSUME OwnerInv, NEW a \in Accounts, pool[a] # << >>, receipt(Head(pool[a]), "reverted"),
           pool' = [pool EXCEPT ![a] = Tail(@)],
           UNCHANGED <<vars, slotSig, changedAt, drawn, commands>>
    PROVE  OwnerInv'
<1>0. /\ cli \in [Procs -> States] /\ pool \in [Accounts -> Seq(Entry)]
      /\ UNCHANGED <<now, domains, commitments>> /\ "reverted" \in Status
  BY DEF OwnerInv, RevealInv, SecretInv, CLIType, vars, Status
<1>1. SecretInv'
  BY <1>0, PopKeeps DEF OwnerInv, RevealInv
<1>2. \A p \in Procs : (committed(p)' \/ cli'[p].pc = "signing") => cli'[p] = cli[p]
  <2>1. \A p \in Procs :
          /\ cli'[p].pc = cli[p].pc
          /\ \/ cli'[p] = cli[p]
             \/ cli[p].pc \in {"committing", "mining"} /\ cli'[p].status = "reverted"
    BY <1>0, Received
  <2>. QED BY <2>1 DEF committed
<1>3. \A b \in Accounts : \A i \in 1..Len(pool'[b]) : \E j \in 1..Len(pool[b]) : pool'[b][i] = pool[b][j]
  BY SMT, <1>0, Popped
<1>4. Aging'
  BY <1>0, <1>2 DEF OwnerInv, RevealInv, Aging, committed, own
<1>5. Matured'
  <2>. SUFFICES ASSUME NEW b \in Accounts \ HastyAccounts, NEW i \in 1..Len(pool'[b]),
                       pool'[b][i].tx.kind = "register"
                PROVE  mature(b, pool[b][i].tx)'
    BY DEF Matured, HastyAccounts
  <2>1. PICK j \in 1..Len(pool[b]) : pool'[b][i] = pool[b][j]
    BY <1>3
  <2>2. mature(b, pool[b][j].tx)
    BY <2>1 DEF OwnerInv, RevealInv, Matured
  <2>. QED BY <1>0, <2>1, <2>2 DEF mature, ownCommitment
<1>6. FreshInv'
  <2>1. /\ changedAt' \in [Names -> Nat] /\ \A n \in Names : changedAt'[n] <= now'
        /\ slotSig' \in [Names -> [Keys -> SlotSigs]]
        /\ \A n \in Names, k \in Keys : slotSig'[n][k].ownerSig # NoSignature =>
             fresh(n, slotSig[n][k].ownerSig.over.generation, slotSig[n][k].readAt)'
    BY <1>0 DEF OwnerInv, FreshInv, fresh
  <2>2. \A p \in Procs : cli'[p].pc = "signing" =>
          fresh(cli[p].name, cli[p].generation, cli[p].readAt)'
    BY <1>0, <1>2 DEF OwnerInv, FreshInv, fresh
  <2>3. \A b \in Accounts : \A i \in 1..Len(pool'[b]) : pool'[b][i].tx.kind = "set" =>
          fresh(pool[b][i].tx.name, pool[b][i].tx.sig.over.generation, pool[b][i].tx.readAt)'
    <3>. SUFFICES ASSUME NEW b \in Accounts, NEW i \in 1..Len(pool'[b]), pool'[b][i].tx.kind = "set"
                  PROVE  fresh(pool[b][i].tx.name, pool[b][i].tx.sig.over.generation,
                               pool[b][i].tx.readAt)'
      OBVIOUS
    <3>1. PICK j \in 1..Len(pool[b]) : pool'[b][i] = pool[b][j]
      BY <1>3
    <3>2. fresh(pool[b][j].tx.name, pool[b][j].tx.sig.over.generation, pool[b][j].tx.readAt)
      BY <3>1 DEF OwnerInv, FreshInv
    <3>. QED BY <1>0, <3>1, <3>2 DEF fresh
  <2>. QED BY <2>1, <2>2, <2>3 DEF FreshInv
<1>7. ChainInv'
  BY <1>0 DEF OwnerInv, RevealInv, ChainInv
<1>. QED BY <1>1, <1>4, <1>5, <1>6, <1>7 DEF OwnerInv, RevealInv

(* The contract's function succeeds: generations only grow, and when one   *)
(* does the name changes hands now.                                        *)
LEMMA SuccessIsFresh ==
    ASSUME OwnerInv, NEW a \in Accounts, Succeeds(a)
    PROVE  FreshInv'
<1>. DEFINE tx == Head(pool[a]).tx
<1>0. /\ cli \in [Procs -> States] /\ pool \in [Accounts -> Seq(Entry)] /\ domains \in [Names -> Domain]
      /\ now \in Nat /\ changedAt \in [Names -> Nat] /\ slotSig \in [Names -> [Keys -> SlotSigs]]
  BY DEF OwnerInv, RevealInv, SecretInv, CLIType, ChainInv, FreshInv
<1>1. /\ pool[a] # << >> /\ call(a, tx) /\ slotSig' = sigStored(tx)
      /\ changedAt' = IF tx.kind \in {"register", "transfer"}
                        THEN [changedAt EXCEPT ![tx.name] = now] ELSE changedAt
      /\ receipt(Head(pool[a]), "successful") /\ pool' = [pool EXCEPT ![a] = Tail(@)]
  BY DEF Succeeds
<1>2. /\ 1 \in 1..Len(pool[a]) /\ Head(pool[a]) = pool[a][1] /\ Head(pool[a]) \in Entry
      /\ \A b \in Accounts : \A i \in 1..Len(pool'[b]) :
           \E j \in 1..Len(pool[b]) : pool'[b][i] = pool[b][j]
  <2>1. /\ 1 \in 1..Len(pool[a]) /\ Head(pool[a]) = pool[a][1] /\ Head(pool[a]) \in Entry
        /\ \A b \in Accounts : \A i \in 1..Len(pool'[b]) :
             shift(a, b, i) \in 1..Len(pool[b]) /\ pool'[b][i] = pool[b][shift(a, b, i)]
    BY <1>0, <1>1, Popped
  <2>. QED BY <2>1
<1>3. \A y \in Entry : y.tx \in Txs
  BY DEF Entry
<1>4. tx \in Txs /\ tx = pool[a][1].tx
  BY <1>2, <1>3
<1>. HIDE DEF tx
<1>5. /\ now' = now
      /\ \A n \in Names : domains'[n].generation =
           IF tx.kind \in {"register", "transfer"} /\ n = tx.name
             THEN domains[n].generation + 1 ELSE domains[n].generation
  BY <1>1, <1>4, CallFacts DEF OwnerInv, RevealInv
<1>6. \A n \in Names : domains[n].generation \in Nat
  BY SMT, <1>0, NamespaceAssumption DEF Domain, Generations
<1>7. /\ changedAt' \in [Names -> Nat] /\ \A n \in Names : changedAt'[n] <= now'
      /\ \A n \in Names : ~(tx.kind \in {"register", "transfer"} /\ n = tx.name) =>
           changedAt'[n] = changedAt[n]
  <2>1. \A n \in Names : changedAt[n] <= now
    BY DEF OwnerInv, FreshInv
  <2>2. CASE tx.kind \in {"register", "transfer"}
    <3>1. tx.name \in Names
      BY <1>4, <2>2, TxFields DEF secretive
    <3>2. changedAt' = [changedAt EXCEPT ![tx.name] = now]
      BY <1>1, <2>2
    <3>3. /\ changedAt' \in [Names -> Nat] /\ changedAt'[tx.name] = now
          /\ \A n \in Names : n # tx.name => changedAt'[n] = changedAt[n]
      BY <1>0, <3>1, <3>2
    <3>4. now' = now
      BY <1>5
    <3>5. ASSUME NEW n \in Names PROVE changedAt'[n] <= now'
      <4>1. CASE n = tx.name
        <5>1. changedAt'[n] = now
          BY <3>3, <4>1
        <5>. QED BY SMT, <1>0, <3>4, <5>1
      <4>2. CASE n # tx.name
        <5>1. changedAt'[n] = changedAt[n]
          BY <3>3, <4>2
        <5>. QED BY <2>1, <3>4, <5>1
      <4>. QED BY <4>1, <4>2
    <3>. QED BY <2>2, <3>3, <3>5
  <2>3. CASE tx.kind \notin {"register", "transfer"}
    BY <1>0, <1>1, <1>5, <2>1, <2>3
  <2>. QED BY <2>2, <2>3
<1>8. ASSUME NEW n \in Names, NEW g \in Nat, NEW t, fresh(n, g, t) PROVE fresh(n, g, t)'
  <2>1. CASE tx.kind \in {"register", "transfer"} /\ n = tx.name
    <3>1. domains'[n].generation = domains[n].generation + 1
      BY <1>5, <2>1
    <3>2. g <= domains[n].generation
      BY <1>8 DEF fresh
    <3>3. g <= domains[n].generation + 1 /\ g # domains[n].generation + 1
      BY SMT, <1>6, <3>2
    <3>. QED BY <3>1, <3>3 DEF fresh
  <2>2. CASE ~(tx.kind \in {"register", "transfer"} /\ n = tx.name)
    <3>1. domains'[n].generation = domains[n].generation /\ changedAt'[n] = changedAt[n]
      BY <1>5, <1>7, <2>2
    <3>. QED BY <1>8, <3>1 DEF fresh
  <2>. QED BY <2>1, <2>2
<1>9. ASSUME NEW p \in Procs, cli'[p].pc = "signing"
      PROVE  fresh(cli[p].name, cli[p].generation, cli[p].readAt)'
  <2>1. cli'[p] = cli[p]
    <3>1. "successful" \in Status
      BY DEF Status
    <3>. QED BY <1>0, <1>1, <1>9, <3>1, Received
  <2>2. PICK n, g, t : n = cli[p].name /\ g = cli[p].generation /\ t = cli[p].readAt
    OBVIOUS
  <2>3. n \in Names /\ g \in Nat /\ fresh(n, g, t)
    BY <1>0, <1>9, <2>1, <2>2, StateFields DEF OwnerInv, FreshInv
  <2>4. fresh(n, g, t)'
    BY <1>8, <2>3
  <2>. QED BY <2>1, <2>2, <2>4 DEF fresh
<1>10. \A x \in Sigs : x.over.generation \in Nat
  BY DEF Sigs
<1>11. ASSUME NEW b \in Accounts, NEW i \in 1..Len(pool[b]), pool[b][i].tx.kind = "set"
       PROVE  /\ pool[b][i].tx.name \in Names /\ pool[b][i].tx.sig.over.generation \in Nat
              /\ pool[b][i].tx.sig \in Sigs /\ pool[b][i].tx.readAt \in Nat
              /\ fresh(pool[b][i].tx.name, pool[b][i].tx.sig.over.generation, pool[b][i].tx.readAt)
  <2>1. pool[b] \in Seq(Entry)
    BY <1>0
  <2>2. pool[b][i].tx \in Txs
    <3>1. pool[b][i] \in Entry
      BY SMT, <2>1
    <3>. QED BY <1>3, <3>1
  <2>3. /\ pool[b][i].tx.name \in Names /\ pool[b][i].tx.sig \in Sigs /\ pool[b][i].tx.readAt \in Nat
    BY <1>11, <2>2, TxFields
  <2>. QED BY <1>10, <1>11, <2>3 DEF OwnerInv, FreshInv
<1>12. ASSUME NEW b \in Accounts, NEW i \in 1..Len(pool'[b]), pool'[b][i].tx.kind = "set"
       PROVE  fresh(pool[b][i].tx.name, pool[b][i].tx.sig.over.generation, pool[b][i].tx.readAt)'
  <2>1. PICK j \in 1..Len(pool[b]) : pool'[b][i] = pool[b][j]
    BY <1>2
  <2>2. PICK n, g, t : /\ n = pool[b][j].tx.name /\ g = pool[b][j].tx.sig.over.generation
                       /\ t = pool[b][j].tx.readAt
    OBVIOUS
  <2>3. n \in Names /\ g \in Nat /\ fresh(n, g, t)
    BY <1>11, <1>12, <2>1, <2>2
  <2>4. fresh(n, g, t)'
    BY <1>8, <2>3
  <2>. QED BY <2>1, <2>2, <2>4 DEF fresh
<1>13. slotSig' \in [Names -> [Keys -> SlotSigs]]
  <2>1. CASE tx.kind = "set"
    <3>. DEFINE v == [ownerSig |-> tx.sig, readAt |-> tx.readAt]
    <3>1. slotSig' = [slotSig EXCEPT ![tx.name][recordKeyOf(tx.input)] = v]
      BY <1>1, <2>1 DEF sigStored
    <3>2. v \in SlotSigs /\ tx.name \in Names /\ recordKeyOf(tx.input) \in Keys
      BY <1>4, <2>1, TxFields DEF SlotSigs, Keys
    <3>. HIDE DEF v
    <3>. QED BY <1>0, <3>1, <3>2
  <2>2. CASE tx.kind = "remove"
    <3>1. slotSig' = [slotSig EXCEPT ![tx.name][tx.key] = NoSlotSig]
      BY <1>1, <2>2 DEF sigStored
    <3>2. NoSlotSig \in SlotSigs
      BY DEF NoSlotSig, SlotSigs
    <3>. QED BY <1>0, <3>1, <3>2
  <2>3. CASE tx.kind \notin {"set", "remove"}
    BY <1>0, <1>1, <2>3 DEF sigStored
  <2>. QED BY <2>1, <2>2, <2>3
<1>14. ASSUME NEW n \in Names, NEW k \in Keys, slotSig'[n][k].ownerSig # NoSignature
       PROVE  fresh(n, slotSig[n][k].ownerSig.over.generation, slotSig[n][k].readAt)'
  <2>1. PICK g, t : g = slotSig'[n][k].ownerSig.over.generation /\ t = slotSig'[n][k].readAt
    OBVIOUS
  <2>2. g \in Nat /\ fresh(n, g, t)
    <3>1. CASE slotSig'[n][k] = slotSig[n][k]
      <4>1. slotSig[n][k] \in SlotSigs
        BY <1>0
      <4>2. slotSig[n][k].ownerSig \in Sigs
        BY <1>14, <3>1, <4>1 DEF SlotSigs
      <4>. QED BY <1>10, <1>14, <2>1, <3>1, <4>2 DEF OwnerInv, FreshInv
    <3>2. CASE /\ tx.kind = "set" /\ n = tx.name
               /\ slotSig'[n][k] = [ownerSig |-> tx.sig, readAt |-> tx.readAt]
      <4>1. slotSig'[n][k].ownerSig = tx.sig /\ slotSig'[n][k].readAt = tx.readAt
        BY SMT, <3>2
      <4>. QED BY <1>2, <1>4, <1>11, <2>1, <3>2, <4>1
    <3>3. \/ slotSig'[n][k] = slotSig[n][k]
          \/ slotSig'[n][k] = NoSlotSig
          \/ /\ tx.kind = "set" /\ n = tx.name
             /\ slotSig'[n][k] = [ownerSig |-> tx.sig, readAt |-> tx.readAt]
      <4>1. CASE tx.kind = "set"
        <5>. DEFINE v == [ownerSig |-> tx.sig, readAt |-> tx.readAt]
        <5>1. slotSig' = [slotSig EXCEPT ![tx.name][recordKeyOf(tx.input)] = v]
          BY <1>1, <4>1 DEF sigStored
        <5>. HIDE DEF v
        <5>2. slotSig'[n][k] = slotSig[n][k] \/ (n = tx.name /\ slotSig'[n][k] = v)
          BY <1>0, <5>1
        <5>. QED BY <4>1, <5>2 DEF v
      <4>2. CASE tx.kind = "remove"
        <5>1. slotSig' = [slotSig EXCEPT ![tx.name][tx.key] = NoSlotSig]
          BY <1>1, <4>2 DEF sigStored
        <5>. QED BY <1>0, <5>1
      <4>3. CASE tx.kind \notin {"set", "remove"}
        BY <1>1, <4>3 DEF sigStored
      <4>. QED BY <4>1, <4>2, <4>3
    <3>4. NoSlotSig.ownerSig = NoSignature
      BY DEF NoSlotSig
    <3>. QED BY <1>14, <3>1, <3>2, <3>3, <3>4
  <2>3. fresh(n, g, t)'
    BY <1>8, <2>2
  <2>. QED BY <2>1, <2>3 DEF fresh
<1>. QED BY <1>7, <1>9, <1>12, <1>13, <1>14 DEF FreshInv

(* A process sends while the contract stands still.  What it sends is a    *)
(* register only if it has waited, a record only if it is signing it.      *)
LEMMA SendOwner ==
    ASSUME OwnerInv, SecretInv', NEW p \in Procs, NEW x \in States, NEW tx \in Txs,
           pool' = [pool EXCEPT ![account[p]] = Append(@, [tx |-> tx, cmd |-> x.cmd])],
           cli' = [cli EXCEPT ![p] = x], UNCHANGED <<vars, slotSig, changedAt>>,
           x.pc = "mining" \/ (x.pc = "committing" /\ x.status = "pending"),
           tx.kind = "register" /\ account[p] \notin HastyAccounts => mature(account[p], tx),
           tx.kind = "set" => fresh(tx.name, tx.sig.over.generation, tx.readAt)
    PROVE  OwnerInv'
<1>. DEFINE a   == account[p]
            new == [tx |-> tx, cmd |-> x.cmd]
<1>0. /\ cli \in [Procs -> States] /\ pool \in [Accounts -> Seq(Entry)] /\ a \in Accounts
      /\ UNCHANGED <<now, domains, commitments>>
  <2>1. a \in Accounts
    BY OwnerCLIAssumption
  <2>. QED BY <2>1 DEF OwnerInv, RevealInv, SecretInv, CLIType, vars
<1>1. new \in Entry /\ new.tx = tx
  <2>1. x.cmd \in Nat
    BY StateFields DEF idle
  <2>. QED BY <2>1 DEF Entry
<1>. HIDE DEF a, new
<1>2. pool' = [pool EXCEPT ![a] = Append(@, new)]
  BY DEF a, new
<1>3. \A b \in Accounts : \A i \in 1..Len(pool'[b]) :
        \/ b = a /\ pool'[b][i] = new
        \/ i \in 1..Len(pool[b]) /\ pool'[b][i] = pool[b][i]
  <2>1. \A b \in Accounts : \A i \in 1..Len(pool'[b]) :
          \/ b = a /\ i = Len(pool[a]) + 1 /\ pool'[b][i] = new
          \/ i \in 1..Len(pool[b]) /\ pool'[b][i] = pool[b][i]
    BY <1>0, <1>1, <1>2, Appended
  <2>. QED BY <2>1
<1>4. cli'[p] = x /\ \A q \in Procs \ {p} : cli'[q] = cli[q]
  BY <1>0
<1>5. \A q \in Procs : (committed(q)' \/ cli'[q].pc = "signing") => cli'[q] = cli[q]
  BY <1>4 DEF committed
<1>6. Aging'
  BY <1>0, <1>5 DEF OwnerInv, RevealInv, Aging, committed, own
<1>7. Matured'
  <2>. SUFFICES ASSUME NEW b \in Accounts \ HastyAccounts, NEW i \in 1..Len(pool'[b]),
                       pool'[b][i].tx.kind = "register"
                PROVE  mature(b, pool[b][i].tx)'
    BY DEF Matured, HastyAccounts
  <2>1. CASE b = a /\ pool'[b][i] = new
    <3>1. mature(b, tx)
      BY <1>1, <2>1 DEF a
    <3>. QED BY <1>0, <1>1, <2>1, <3>1 DEF mature, ownCommitment
  <2>2. CASE i \in 1..Len(pool[b]) /\ pool'[b][i] = pool[b][i]
    <3>1. mature(b, pool[b][i].tx)
      BY <2>2 DEF OwnerInv, RevealInv, Matured
    <3>. QED BY <1>0, <2>2, <3>1 DEF mature, ownCommitment
  <2>. QED BY <1>3, <2>1, <2>2
<1>8. FreshInv'
  <2>1. /\ changedAt' \in [Names -> Nat] /\ \A n \in Names : changedAt'[n] <= now'
        /\ slotSig' \in [Names -> [Keys -> SlotSigs]]
        /\ \A n \in Names, k \in Keys : slotSig'[n][k].ownerSig # NoSignature =>
             fresh(n, slotSig[n][k].ownerSig.over.generation, slotSig[n][k].readAt)'
    BY <1>0 DEF OwnerInv, FreshInv, fresh
  <2>2. \A q \in Procs : cli'[q].pc = "signing" =>
          fresh(cli[q].name, cli[q].generation, cli[q].readAt)'
    BY <1>0, <1>5 DEF OwnerInv, FreshInv, fresh
  <2>3. \A b \in Accounts : \A i \in 1..Len(pool'[b]) : pool'[b][i].tx.kind = "set" =>
          fresh(pool[b][i].tx.name, pool[b][i].tx.sig.over.generation, pool[b][i].tx.readAt)'
    <3>. SUFFICES ASSUME NEW b \in Accounts, NEW i \in 1..Len(pool'[b]), pool'[b][i].tx.kind = "set"
                  PROVE  fresh(pool[b][i].tx.name, pool[b][i].tx.sig.over.generation,
                               pool[b][i].tx.readAt)'
      OBVIOUS
    <3>1. CASE pool'[b][i] = new
      BY <1>0, <1>1, <3>1 DEF fresh
    <3>2. CASE i \in 1..Len(pool[b]) /\ pool'[b][i] = pool[b][i]
      BY <1>0, <3>2 DEF OwnerInv, FreshInv, fresh
    <3>. QED BY <1>3, <3>1, <3>2
  <2>. QED BY <2>1, <2>2, <2>3 DEF FreshInv
<1>9. ChainInv'
  BY <1>0 DEF OwnerInv, RevealInv, ChainInv
<1>. QED BY <1>6, <1>7, <1>8, <1>9 DEF OwnerInv, RevealInv

(* A process goes on while the contract stands still.                      *)
LEMMA ProcessOwner ==
    ASSUME OwnerInv, SecretInv', NEW p \in Procs, NEW x \in States, cli' = [cli EXCEPT ![p] = x],
           UNCHANGED <<vars, slotSig, changedAt, pool>>, x.pc \in {"idle", "waiting", "signing"},
           x.pc = "waiting" =>
             LET c == ownCommitment(account[p], x)
             IN  /\ commitments[c] # 0 /\ commitments[c] <= now
                 /\ p \notin Hasty => commitments[c] + MIN_COMMITMENT_AGE <= x.until,
           x.pc = "signing" => fresh(x.name, x.generation, x.readAt)
    PROVE  OwnerInv'
<1>0. /\ cli \in [Procs -> States] /\ UNCHANGED <<now, domains, commitments>>
  BY DEF OwnerInv, RevealInv, SecretInv, CLIType, vars
<1>1. cli'[p] = x /\ \A q \in Procs \ {p} : cli'[q] = cli[q]
  BY <1>0
<1>2. Aging'
  <2>. SUFFICES ASSUME NEW q \in Procs, committed(q)'
                PROVE  /\ commitments'[own(q)'] # 0 /\ commitments'[own(q)'] <= now'
                       /\ cli'[q].pc = "waiting" /\ q \notin Hasty =>
                            commitments'[own(q)'] + MIN_COMMITMENT_AGE <= cli'[q].until
    BY DEF Aging
  <2>1. CASE q = p
    BY <1>0, <1>1, <2>1 DEF committed, own
  <2>2. CASE q # p
    BY <1>0, <1>1, <2>2 DEF committed, own, OwnerInv, RevealInv, Aging
  <2>. QED BY <2>1, <2>2
<1>3. Matured'
  BY <1>0 DEF OwnerInv, RevealInv, Matured, mature, HastyAccounts, ownCommitment
<1>4. FreshInv'
  <2>1. /\ changedAt' \in [Names -> Nat] /\ \A n \in Names : changedAt'[n] <= now'
        /\ slotSig' \in [Names -> [Keys -> SlotSigs]]
        /\ \A n \in Names, k \in Keys : slotSig'[n][k].ownerSig # NoSignature =>
             fresh(n, slotSig[n][k].ownerSig.over.generation, slotSig[n][k].readAt)'
    BY <1>0 DEF OwnerInv, FreshInv, fresh
  <2>2. \A q \in Procs : cli'[q].pc = "signing" =>
          fresh(cli[q].name, cli[q].generation, cli[q].readAt)'
    BY <1>0, <1>1 DEF OwnerInv, FreshInv, fresh
  <2>3. \A b \in Accounts : \A i \in 1..Len(pool'[b]) : pool'[b][i].tx.kind = "set" =>
          fresh(pool[b][i].tx.name, pool[b][i].tx.sig.over.generation, pool[b][i].tx.readAt)'
    BY <1>0 DEF OwnerInv, FreshInv, fresh
  <2>. QED BY <2>1, <2>2, <2>3 DEF FreshInv
<1>5. ChainInv'
  BY <1>0 DEF OwnerInv, RevealInv, ChainInv
<1>. QED BY <1>2, <1>3, <1>4, <1>5 DEF OwnerInv, RevealInv

(* A number is no greater than itself.                                     *)
LEMMA Reflexive == \A i \in Nat : i <= i
BY SMT

(* Nothing that it speaks of changes.                                      *)
LEMMA SecretsStand ==
    ASSUME SecretInv, UNCHANGED <<cli, pool, drawn, commands>>
    PROVE  SecretInv'
<1>1. CLIType' /\ Numbered'
  BY SMT DEF SecretInv, CLIType, Numbered
<1>2. Drawn'
  BY DEF SecretInv, Drawn, registering
<1>3. Submitted'
  BY SMT DEF SecretInv, Submitted
<1>4. Apart'
  BY DEF SecretInv, Apart, registering, committed
<1>. QED BY <1>1, <1>2, <1>3, <1>4 DEF SecretInv

(* Every step of a command and of the chain keeps the invariant.           *)
LEMMA OwnerStep ==
    ASSUME OwnerInv, [CLINext]_<<vars, cliVars>>
    PROVE  OwnerInv'
<1>. DEFINE others(p, c) == \A q \in Procs \ {p} : cli[q] # idle => cli[q].cmd # c
<1>nat. commands \in Nat /\ drawn \in Nat /\ now \in Nat
  BY DEF OwnerInv, RevealInv, SecretInv, CLIType, ChainInv
<1>typ. /\ cli \in [Procs -> States] /\ pool \in [Accounts -> Seq(Entry)]
        /\ domains \in [Names -> Domain] /\ commitments \in [Commitment -> Nat]
  BY DEF OwnerInv, RevealInv, SecretInv, CLIType, ChainInv
<1>0. SecretInv
  BY DEF OwnerInv, RevealInv
<1>1. \A p \in Procs : cli[p] \in States
  BY <1>typ
<1>cmd. \A p \in Procs : cli[p] # idle =>
          cli[p].cmd \in Nat /\ cli[p].cmd <= commands /\ others(p, cli[p].cmd)
  BY <1>1, StateFields DEF OwnerInv, RevealInv, SecretInv, Numbered
<1>2. \A p \in Procs : others(p, commands + 1)
  <2>1. \A q \in Procs : cli[q] # idle => cli[q].cmd # commands + 1
    BY SMT, <1>nat, <1>cmd
  <2>. QED BY <2>1
<1>. HIDE DEF others
<1>3. CASE CLITick
  <2>1. /\ now' = now + 1 /\ UNCHANGED <<domains, commitments, cli, pool, slotSig, changedAt>>
        /\ UNCHANGED <<drawn, commands>>
    BY <1>3 DEF CLITick, Tick, cliVars
  <2>2. SecretInv'
    BY <1>0, <2>1, SecretsStand
  <2>3. ChainInv'
    BY SMT, <2>1 DEF OwnerInv, RevealInv, ChainInv
  <2>4. Aging'
    <3>. SUFFICES ASSUME NEW p \in Procs, committed(p)'
                  PROVE  /\ commitments'[own(p)'] # 0 /\ commitments'[own(p)'] <= now'
                         /\ cli'[p].pc = "waiting" /\ p \notin Hasty =>
                              commitments'[own(p)'] + MIN_COMMITMENT_AGE <= cli'[p].until
      BY DEF Aging
    <3>1. committed(p) /\ own(p)' = own(p)
      BY <2>1 DEF committed, own, ownCommitment
    <3>2. own(p) \in Commitment
      <4>1. account[p] \in Accounts /\ cli[p].name \in Names /\ cli[p].secret \in Secrets
        BY <1>1, <3>1, StateFields, OwnerCLIAssumption DEF committed
      <4>. QED BY <4>1, OwnIsCommitment DEF own
    <3>3. commitments[own(p)] \in Nat
      BY <1>typ, <3>2
    <3>4. commitments[own(p)] <= now'
      BY SMT, <1>nat, <2>1, <3>1, <3>3 DEF OwnerInv, RevealInv, Aging
    <3>. QED BY <2>1, <3>1, <3>4 DEF OwnerInv, RevealInv, Aging
  <2>5. Matured'
    <3>. SUFFICES ASSUME NEW b \in Accounts \ HastyAccounts, NEW i \in 1..Len(pool[b]),
                         pool[b][i].tx.kind = "register"
                  PROVE  mature(b, pool[b][i].tx)'
      BY <2>1 DEF Matured, HastyAccounts
    <3>1. mature(b, pool[b][i].tx)
      BY DEF OwnerInv, RevealInv, Matured
    <3>2. ownCommitment(b, pool[b][i].tx) \in Commitment
      <4>1. pool[b] \in Seq(Entry)
        BY <1>typ
      <4>2. pool[b][i] \in Entry
        BY SMT, <4>1
      <4>tx. pool[b][i].tx \in Txs
        BY <4>2 DEF Entry
      <4>3. pool[b][i].tx.name \in Names /\ pool[b][i].tx.secret \in Secrets
        BY <4>tx, TxFields DEF secretive
      <4>. QED BY <4>3, OwnIsCommitment
    <3>3. PICK d \in Commitment : d = ownCommitment(b, pool[b][i].tx)
      BY <3>2
    <3>4. commitments[d] \in Nat /\ MIN_COMMITMENT_AGE \in Nat
      BY <1>typ, NamespaceAssumption
    <3>5. commitments[d] # 0 /\ now >= commitments[d] + MIN_COMMITMENT_AGE
      BY <3>1, <3>3 DEF mature
    <3>6. now + 1 >= commitments[d] + MIN_COMMITMENT_AGE
      BY SMT, <1>nat, <3>4, <3>5
    <3>. QED BY <2>1, <3>3, <3>5, <3>6 DEF mature, ownCommitment
  <2>6. FreshInv'
    <3>1. changedAt' \in [Names -> Nat] /\ \A n \in Names : changedAt'[n] <= now'
      <4>1. changedAt \in [Names -> Nat] /\ \A n \in Names : changedAt[n] <= now
        BY DEF OwnerInv, FreshInv
      <4>2. \A n \in Names : changedAt[n] <= now + 1
        BY SMT, <1>nat, <4>1
      <4>. QED BY <2>1, <4>1, <4>2
    <3>. QED BY <2>1, <3>1 DEF OwnerInv, FreshInv, fresh
  <2>. QED BY <2>2, <2>3, <2>4, <2>5, <2>6 DEF OwnerInv, RevealInv
<1>4. ASSUME NEW a \in Accounts, Succeeds(a) PROVE OwnerInv'
  <2>1. /\ pool[a] # << >> /\ call(a, Head(pool[a]).tx) /\ receipt(Head(pool[a]), "successful")
        /\ pool' = [pool EXCEPT ![a] = Tail(@)] /\ UNCHANGED <<drawn, commands>>
        /\ "successful" \in Status
    BY <1>4 DEF Succeeds, Status
  <2>2. SecretInv'
    BY <1>0, <2>1, PopKeeps
  <2>3. ChainInv' /\ Aging' /\ Matured'
    BY <2>1, SuccessKeeps DEF OwnerInv
  <2>4. FreshInv'
    BY <1>4, SuccessIsFresh
  <2>. QED BY <2>2, <2>3, <2>4 DEF OwnerInv, RevealInv
<1>5. ASSUME NEW a \in Accounts, Reverts(a) PROVE OwnerInv'
  BY <1>5, RevertKeeps DEF Reverts
<1>6. ASSUME NEW p \in Procs, NEW tx \in PlainTxs, plainCommand(p, tx) PROVE OwnerInv'
  <2>. DEFINE x == [pc |-> "mining", cmd |-> commands + 1, status |-> "pending"]
  <2>1. x \in States /\ x.pc = "mining" /\ x.cmd = commands + 1
    <3>1. commands + 1 \in Nat
      BY SMT, <1>nat
    <3>. QED BY <3>1 DEF States, Status
  <2>2. tx \in Txs /\ tx.kind \notin {"commit", "register", "set"}
    BY DEF Txs, PlainTxs
  <2>. HIDE DEF x
  <2>3. /\ pool' = [pool EXCEPT ![account[p]] = Append(@, [tx |-> tx, cmd |-> x.cmd])]
        /\ cli' = [cli EXCEPT ![p] = x] /\ commands' = commands + 1
        /\ UNCHANGED <<vars, slotSig, changedAt>> /\ drawn' = drawn
    <3>1. cli' = [cli EXCEPT ![p] = x]
      BY <1>6 DEF plainCommand, begin, x
    <3>. QED BY <1>6, <2>1, <3>1 DEF plainCommand, begin, send
  <2>4. SecretInv'
    <3>1. /\ commands' \in Nat /\ commands <= commands' /\ drawn' \in Nat /\ drawn <= drawn'
          /\ x.cmd <= commands'
      BY SMT, <1>nat, <2>1, <2>3
    <3>2. others(p, x.cmd)
      BY <1>2, <2>1
    <3>. QED BY <1>0, <2>1, <2>2, <2>3, <3>1, <3>2, SendKeeps DEF others
  <2>. QED BY <2>1, <2>2, <2>3, <2>4, SendOwner
<1>7. ASSUME NEW p \in Procs, NEW n \in Names, cmdRegister(p, n) PROVE OwnerInv'
  <2>. DEFINE x  == [pc |-> "committing", cmd |-> commands + 1, status |-> "pending",
                     name |-> n, secret |-> drawn + 1]
              tx == [kind |-> "commit", name |-> n, secret |-> drawn + 1]
  <2>1. /\ x \in States /\ x.pc = "committing" /\ x.cmd = commands + 1 /\ x.status = "pending"
        /\ x.name = n /\ x.secret = drawn + 1
        /\ tx \in Txs /\ tx.kind = "commit" /\ tx.name = n /\ tx.secret = drawn + 1
    <3>1. drawn + 1 \in Nat /\ commands + 1 \in Nat
      BY SMT, <1>nat
    <3>2. drawn + 1 \in OwnSecrets
      BY <1>7, <3>1 DEF cmdRegister, OwnSecrets
    <3>. QED BY <3>1, <3>2 DEF States, Status, Txs
  <2>2. cli' = [cli EXCEPT ![p] = x] /\ drawn' = drawn + 1 /\ commands' = commands + 1
    BY <1>7 DEF cmdRegister, begin
  <2>3. pool' = [pool EXCEPT ![account[p]] = Append(@, [tx |-> tx, cmd |-> x.cmd])]
    BY <1>7, <2>2 DEF cmdRegister, begin, send
  <2>. HIDE DEF x, tx
  <2>4. UNCHANGED <<vars, slotSig, changedAt>>
    BY <1>7 DEF cmdRegister
  <2>5. SecretInv'
    <3>1. /\ commands' \in Nat /\ commands <= commands' /\ drawn' \in Nat /\ drawn <= drawn'
          /\ x.cmd <= commands' /\ commands < x.cmd /\ drawn < x.secret /\ x.secret <= drawn'
      BY SMT, <1>nat, <2>1, <2>2
    <3>2. others(p, x.cmd)
      BY <1>2, <2>1
    <3>3. tx.kind = "commit" /\ tx.name = x.name /\ tx.secret = x.secret /\ x.pc # "mining"
      BY <2>1
    <3>. QED BY <1>0, <2>1, <2>2, <2>3, <3>1, <3>2, <3>3, SendKeeps DEF others
  <2>. QED BY <2>1, <2>2, <2>3, <2>4, <2>5, SendOwner
<1>8. ASSUME NEW p \in Procs, Committed(p) PROVE OwnerInv'
  <2>. DEFINE x == [pc |-> "waiting", cmd |-> cli[p].cmd, until |-> waitEnd(p),
                    name |-> cli[p].name, secret |-> cli[p].secret]
  <2>1. committed(p) /\ registering(p) /\ cli[p].pc = "committing" /\ cli[p] # idle
    BY SMT, <1>8 DEF Committed, committed, registering, idle
  <2>2. cli[p].name \in Names /\ cli[p].secret \in OwnSecrets /\ cli[p].cmd \in Nat
    BY <1>1, <2>1, StateFields DEF OwnSecrets
  <2>3. waitEnd(p) \in Nat /\ (p \notin Hasty => waitEnd(p) = now + MIN_COMMITMENT_AGE + slack)
    <3>1. MIN_COMMITMENT_AGE \in Nat /\ slack \in Nat
      BY NamespaceAssumption, OwnerCLIAssumption
    <3>. QED BY SMT, <1>nat, <3>1 DEF waitEnd
  <2>4. /\ x \in States /\ x.pc = "waiting" /\ x.cmd = cli[p].cmd /\ x.secret = cli[p].secret
        /\ x.name = cli[p].name /\ x.until = waitEnd(p) /\ x # idle
    BY <2>2, <2>3 DEF States, idle
  <2>5. cli' = [cli EXCEPT ![p] = x] /\ UNCHANGED <<vars, pool, slotSig, changedAt, drawn, commands>>
    BY <1>8 DEF Committed
  <2>. HIDE DEF x
  <2>6. SecretInv'
    <3>1. commands' \in Nat /\ commands <= commands' /\ x.cmd <= commands'
      BY <1>nat, <1>cmd, <2>1, <2>4, <2>5, Reflexive
    <3>2. others(p, x.cmd)
      BY <1>cmd, <2>1, <2>4
    <3>. QED BY <1>0, <2>1, <2>4, <2>5, <3>1, <3>2, ProcessKeeps DEF others
  <2>7. PICK c : c = ownCommitment(account[p], x)
    OBVIOUS
  <2>8. c = own(p)
    BY <2>4, <2>7 DEF own, ownCommitment
  <2>9. commitments[c] # 0 /\ commitments[c] <= now
    BY <2>1, <2>8 DEF OwnerInv, RevealInv, Aging
  <2>10. commitments[c] \in Nat
    <3>1. account[p] \in Accounts /\ cli[p].name \in Names /\ cli[p].secret \in Secrets
      BY <2>2, OwnerCLIAssumption DEF OwnSecrets
    <3>2. c \in Commitment
      BY <2>8, <3>1, OwnIsCommitment DEF own
    <3>. QED BY <1>typ, <3>2
  <2>11. p \notin Hasty => commitments[c] + MIN_COMMITMENT_AGE <= x.until
    <3>1. MIN_COMMITMENT_AGE \in Nat /\ slack \in Nat
      BY NamespaceAssumption, OwnerCLIAssumption
    <3>2. commitments[c] + MIN_COMMITMENT_AGE <= now + MIN_COMMITMENT_AGE + slack
      BY SMT, <1>nat, <2>9, <2>10, <3>1
    <3>. QED BY <2>3, <2>4, <3>2
  <2>. QED BY <2>4, <2>5, <2>6, <2>7, <2>9, <2>11, ProcessOwner
<1>9. ASSUME NEW p \in Procs, Reveal(p) PROVE OwnerInv'
  <2>1. PICK al \in BOOLEAN : al = (available(cli[p].name) /\ rivals(p, cli[p].name) = {})
    OBVIOUS
  <2>. DEFINE x  == [pc |-> "mining", cmd |-> cli[p].cmd, status |-> "pending"]
              tx == [kind |-> "register", name |-> cli[p].name, secret |-> cli[p].secret,
                     sentAt |-> now, alone |-> al]
  <2>2. committed(p) /\ cli[p].pc = "waiting" /\ cli[p] # idle /\ now >= cli[p].until
    BY SMT, <1>9 DEF Reveal, committed, idle
  <2>3. /\ cli[p].name \in Names /\ cli[p].secret \in OwnSecrets /\ cli[p].cmd \in Nat
        /\ cli[p].until \in Nat
    BY <1>1, <2>2, StateFields DEF OwnSecrets
  <2>4. x \in States /\ x.pc = "mining" /\ x.cmd = cli[p].cmd
    BY <2>3 DEF States, Status
  <2>5. /\ tx \in Txs /\ tx.kind = "register" /\ tx.name = cli[p].name /\ tx.secret = cli[p].secret
    BY <1>nat, <2>3 DEF Txs
  <2>6. pool' = [pool EXCEPT ![account[p]] = Append(@, [tx |-> tx, cmd |-> x.cmd])]
    BY <1>9, <2>1 DEF Reveal, send
  <2>7. cli' = [cli EXCEPT ![p] = x] /\ UNCHANGED <<vars, slotSig, changedAt, drawn, commands>>
    BY <1>9 DEF Reveal
  <2>. HIDE DEF x, tx
  <2>8. SecretInv'
    <3>1. /\ commands' \in Nat /\ commands <= commands' /\ drawn' \in Nat /\ drawn <= drawn'
          /\ x.cmd <= commands'
      BY <1>nat, <1>cmd, <2>2, <2>4, <2>7, Reflexive
    <3>2. others(p, x.cmd)
      BY <1>cmd, <2>2, <2>4
    <3>. QED BY <1>0, <2>2, <2>4, <2>5, <2>6, <2>7, <3>1, <3>2, SendKeeps DEF others
  <2>9. account[p] \notin HastyAccounts => mature(account[p], tx)
    <3>1. PICK c : c = ownCommitment(account[p], tx)
      OBVIOUS
    <3>2. c = own(p)
      BY <2>5, <3>1 DEF own, ownCommitment
    <3>3. account[p] \notin HastyAccounts => p \notin Hasty
      BY DEF HastyAccounts
    <3>4. commitments[c] # 0 /\ (p \notin Hasty => commitments[c] + MIN_COMMITMENT_AGE <= cli[p].until)
      BY <2>2, <3>2 DEF OwnerInv, RevealInv, Aging
    <3>5. commitments[c] \in Nat
      <4>1. account[p] \in Accounts /\ cli[p].name \in Names /\ cli[p].secret \in Secrets
        BY <2>3, OwnerCLIAssumption DEF OwnSecrets
      <4>2. c \in Commitment
        BY <3>2, <4>1, OwnIsCommitment DEF own
      <4>. QED BY <1>typ, <4>2
    <3>6. MIN_COMMITMENT_AGE \in Nat
      BY NamespaceAssumption
    <3>7. p \notin Hasty => now >= commitments[c] + MIN_COMMITMENT_AGE
      BY SMT, <1>nat, <2>2, <2>3, <3>4, <3>5, <3>6
    <3>. QED BY <3>1, <3>3, <3>4, <3>7 DEF mature
  <2>. QED BY <2>4, <2>5, <2>6, <2>7, <2>8, <2>9, SendOwner
<1>10. ASSUME NEW p \in Procs, NEW n \in Names, NEW in \in RecordInputs, generationOf(p, n, in)
       PROVE  OwnerInv'
  <2>. DEFINE x == [pc |-> "signing", cmd |-> commands + 1, name |-> n, input |-> in,
                    generation |-> domains[n].generation, readAt |-> now]
  <2>1. domains[n].generation \in Nat
    BY SMT, <1>typ, NamespaceAssumption DEF Domain, Generations
  <2>2. /\ x \in States /\ x.pc = "signing" /\ x.cmd = commands + 1 /\ x.name = n
        /\ x.generation = domains[n].generation /\ x.readAt = now
    <3>1. commands + 1 \in Nat
      BY SMT, <1>nat
    <3>. QED BY <1>nat, <2>1, <3>1 DEF States
  <2>3. /\ cli' = [cli EXCEPT ![p] = x] /\ commands' = commands + 1
        /\ UNCHANGED <<vars, slotSig, changedAt, pool, drawn>>
    BY <1>10 DEF generationOf, begin
  <2>. HIDE DEF x
  <2>4. SecretInv'
    <3>0. x.cmd = commands + 1 /\ commands' = commands + 1
      BY <2>2, <2>3
    <3>1. commands' \in Nat /\ commands <= commands' /\ x.cmd <= commands'
      BY SMT, <1>nat, <3>0
    <3>2. others(p, x.cmd)
      BY <1>2, <2>2
    <3>. QED BY <1>0, <2>2, <2>3, <3>1, <3>2, ProcessKeeps DEF others
  <2>5. fresh(x.name, x.generation, x.readAt)
    <3>1. changedAt[n] \in Nat /\ changedAt[n] <= now
      BY DEF OwnerInv, FreshInv
    <3>2. now >= changedAt[n] /\ domains[n].generation <= domains[n].generation
      BY SMT, <1>nat, <2>1, <3>1
    <3>. QED BY <2>2, <3>2 DEF fresh
  <2>. QED BY <2>2, <2>3, <2>4, <2>5, ProcessOwner
<1>11. ASSUME NEW p \in Procs, cmdSet(p) PROVE OwnerInv'
  <2>. DEFINE x   == [pc |-> "mining", cmd |-> cli[p].cmd, status |-> "pending"]
              rec == [body |-> cli[p].input, generation |-> cli[p].generation]
              sig == SignRecord(cli[p].name, rec, account[p])
              tx  == [kind |-> "set", name |-> cli[p].name, input |-> cli[p].input,
                      sig |-> sig, readAt |-> cli[p].readAt]
  <2>1. cli[p].pc = "signing" /\ cli[p] # idle
    BY SMT, <1>11 DEF cmdSet, idle
  <2>2. /\ cli[p].name \in Names /\ cli[p].input \in RecordInputs /\ cli[p].generation \in Nat
        /\ cli[p].readAt \in Nat /\ cli[p].cmd \in Nat /\ account[p] \in Accounts
    BY <1>1, <2>1, StateFields, OwnerCLIAssumption
  <2>3. sig \in Sigs /\ sig.over.generation = cli[p].generation
    BY <2>2 DEF SignRecord, RecordMessage, Sigs
  <2>4. x \in States /\ x.pc = "mining" /\ x.cmd = cli[p].cmd
    BY <2>2 DEF States, Status
  <2>5. /\ cli' = [cli EXCEPT ![p] = x] /\ UNCHANGED <<vars, slotSig, changedAt, drawn, commands>>
        /\ pool' = [pool EXCEPT ![account[p]] = Append(@, [tx |-> tx, cmd |-> x.cmd])]
    BY <1>11 DEF cmdSet, send
  <2>. HIDE DEF x, sig
  <2>6. /\ tx \in Txs /\ tx.kind = "set" /\ tx.name = cli[p].name /\ tx.sig = sig
        /\ tx.readAt = cli[p].readAt
    BY <2>2, <2>3 DEF Txs
  <2>. HIDE DEF tx
  <2>7. SecretInv'
    <3>1. /\ commands' \in Nat /\ commands <= commands' /\ drawn' \in Nat /\ drawn <= drawn'
          /\ x.cmd <= commands'
      BY <1>nat, <1>cmd, <2>1, <2>4, <2>5, Reflexive
    <3>2. others(p, x.cmd)
      BY <1>cmd, <2>1, <2>4
    <3>. QED BY <1>0, <2>4, <2>5, <2>6, <3>1, <3>2, SendKeeps DEF others
  <2>8. fresh(tx.name, tx.sig.over.generation, tx.readAt)
    BY <2>1, <2>3, <2>6 DEF OwnerInv, FreshInv
  <2>. QED BY <2>4, <2>5, <2>6, <2>7, <2>8, SendOwner
<1>12. ASSUME NEW p \in Procs, Ends(p) PROVE OwnerInv'
  <2>1. idle \in States /\ idle.pc = "idle"
    BY DEF States, idle
  <2>2. cli' = [cli EXCEPT ![p] = idle] /\ UNCHANGED <<vars, pool, slotSig, changedAt, drawn, commands>>
    BY <1>12 DEF Ends
  <2>3. SecretInv'
    <3>1. commands' \in Nat /\ commands <= commands'
      BY <1>nat, <2>2, Reflexive
    <3>. QED BY <1>0, <2>1, <2>2, <3>1, ProcessKeeps
  <2>. QED BY <2>1, <2>2, <2>3, ProcessOwner
<1>13. CASE UNCHANGED <<vars, cliVars>>
  <2>1. UNCHANGED <<now, domains, commitments, cli, pool, slotSig, changedAt, drawn, commands>>
    BY <1>13 DEF vars, cliVars
  <2>2. SecretInv'
    BY <1>0, <2>1, SecretsStand
  <2>3. ChainInv' /\ Aging' /\ Matured'
    BY <2>1 DEF OwnerInv, RevealInv, ChainInv, Aging, committed, own, ownCommitment,
                Matured, mature, HastyAccounts
  <2>4. FreshInv'
    BY <2>1 DEF OwnerInv, FreshInv, fresh
  <2>. QED BY <2>2, <2>3, <2>4 DEF OwnerInv, RevealInv
<1>. QED BY <1>3, <1>4, <1>5, <1>6, <1>7, <1>8, <1>9, <1>10, <1>11, <1>12, <1>13 DEF CLINext

(* Before any command has run, no process, transaction or signature is.    *)
LEMMA OwnerStarts == CLIInit => OwnerInv
<1>. SUFFICES ASSUME CLIInit PROVE OwnerInv
  OBVIOUS
<1>1. /\ cli = [p \in Procs |-> idle] /\ pool = [a \in Accounts |-> << >>]
      /\ slotSig = [n \in Names |-> [k \in Keys |-> NoSlotSig]]
      /\ changedAt = [n \in Names |-> 0] /\ drawn = 0 /\ commands = 0
      /\ now = 1 /\ commitments = [c \in Commitment |-> 0]
      /\ domains = [n \in Names |-> [owner |-> ZeroAddress, pubKey |-> NoPubKey,
                                      expiry |-> 0, generation |-> 0]]
  BY DEF CLIInit, Init
<1>2. /\ \A p \in Procs : cli[p] = idle /\ cli[p].pc = "idle"
      /\ \A a \in Accounts : pool[a] = << >> /\ 1..Len(pool[a]) = {}
  BY SMT, <1>1 DEF idle
<1>3. SecretInv
  <2>1. CLIType
    <3>1. << >> \in Seq(Entry) /\ idle \in States
      BY SMT DEF States
    <3>. QED BY <1>1, <3>1 DEF CLIType
  <2>. QED BY <1>2, <2>1 DEF SecretInv, Numbered, Drawn, Submitted, Apart, registering
<1>4. ChainInv
  <2>1. [owner |-> ZeroAddress, pubKey |-> NoPubKey, expiry |-> 0, generation |-> 0] \in Domain
    BY SMT, NamespaceAssumption DEF Domain, Owners, Generations
  <2>. QED BY SMT, <1>1, <2>1 DEF ChainInv
<1>5. Aging /\ Matured
  BY <1>2 DEF Aging, Matured, committed
<1>6. FreshInv
  <2>1. NoSlotSig \in SlotSigs /\ NoSlotSig.ownerSig = NoSignature
    BY DEF NoSlotSig, SlotSigs
  <2>2. /\ changedAt \in [Names -> Nat] /\ \A n \in Names : changedAt[n] <= now
        /\ slotSig \in [Names -> [Keys -> SlotSigs]]
        /\ \A n \in Names, k \in Keys : slotSig[n][k].ownerSig = NoSignature
    BY SMT, <1>1, <2>1
  <2>. QED BY <1>2, <2>2 DEF FreshInv
<1>. QED BY <1>3, <1>4, <1>5, <1>6 DEF OwnerInv, RevealInv

(* main.go's register: whatever the other processes do and however long    *)
(* transactions take to be mined, every register transaction that waits in *)
(* the pool finds its commitment on the chain and old enough.              *)
THEOREM WaitingIsEnough == CLISpec => []RevealsMature
<1>1. OwnerInv /\ [CLINext]_<<vars, cliVars>> => OwnerInv'
  BY OwnerStep
<1>2. OwnerInv => RevealsMature
  <2>. SUFFICES ASSUME OwnerInv, NEW a \in Accounts \ HastyAccounts, NEW i \in DOMAIN pool[a],
                       pool[a][i].tx.kind = "register"
                PROVE  mature(a, pool[a][i].tx)
    BY DEF RevealsMature, HastyAccounts, mature
  <2>1. pool[a] \in Seq(Entry)
    BY DEF OwnerInv, RevealInv, SecretInv, CLIType
  <2>2. i \in 1..Len(pool[a])
    BY SMT, <2>1
  <2>. QED BY <2>2 DEF OwnerInv, RevealInv, Matured
<1>. QED BY <1>1, <1>2, OwnerStarts, PTL DEF CLISpec

(* main.go's set signs the generation it has read: a record that resolves  *)
(* and verifies was begun after the name last changed hands, whatever is   *)
(* mined between the reading, the signing and the mining of the record.    *)
THEOREM OldSignaturesDie == CLISpec => []VerifiedIsFresh
<1>1. OwnerInv /\ [CLINext]_<<vars, cliVars>> => OwnerInv'
  BY OwnerStep
<1>2. OwnerInv => VerifiedIsFresh
  <2>. SUFFICES ASSUME OwnerInv, NEW n \in Names, NEW k \in Keys, lookup(n, k).exists, verifies(n, k)
                PROVE  slotSig[n][k].readAt >= changedAt[n]
    BY DEF VerifiedIsFresh
  <2>1. records[n][k].generation = domains[n].generation
    BY DEF lookup, NoRecord
  <2>2. /\ slotSig[n][k].ownerSig # NoSignature
        /\ slotSig[n][k].ownerSig.over.generation = records[n][k].generation
    <3>. DEFINE rec == slotRecord(n, k)
    <3>1. rec.ownerSig = slotSig[n][k].ownerSig /\ rec.generation = records[n][k].generation
      BY DEF slotRecord
    <3>2. VerifyOwnerSig(n, rec, domains[n].owner, domains[n].pubKey)
      BY DEF verifies
    <3>. HIDE DEF rec
    <3>3. rec.ownerSig # NoSignature /\ rec.ownerSig.over = RecordMessage(n, rec)
      BY <3>2 DEF VerifyOwnerSig
    <3>4. RecordMessage(n, rec).generation = rec.generation
      BY DEF RecordMessage
    <3>. QED BY <3>1, <3>3, <3>4
  <2>3. fresh(n, slotSig[n][k].ownerSig.over.generation, slotSig[n][k].readAt)
    BY <2>2 DEF OwnerInv, FreshInv
  <2>. QED BY <2>1, <2>2, <2>3 DEF fresh
<1>. QED BY <1>1, <1>2, OwnerStarts, PTL DEF CLISpec

-----------------------------------------------------------------------------
(* The race for a name.  Somebody holds a commitment as long as they may   *)
(* still reveal it; while a lonely register has waited for less than the   *)
(* minimal age, its name is free and the commitments others hold to it     *)
(* are younger than it.                                                    *)

held(c) ==
    \/ \E p \in Procs : registering(p) /\ cli[p].secret = c.secret
    \/ \E i \in 1..Len(pool[c.owner]) :
          pool[c.owner][i].tx.kind = "register" /\ pool[c.owner][i].tx.secret = c.secret

undisturbed(tx) ==
    /\ available(tx.name)
    /\ \A c \in Commitment :
         c.name = tx.name /\ c.secret # tx.secret /\ commitments[c] # 0 /\ held(c) =>
             commitments[c] >= tx.sentAt

racing(a, tx) ==
    /\ commitments[ownCommitment(a, tx)] # 0 /\ tx.sentAt <= now
    /\ tx.alone /\ now < tx.sentAt + MIN_COMMITMENT_AGE => undisturbed(tx)

RaceInv ==
    /\ \A c \in Commitment : commitments[c] # 0 => c.secret \in Nat /\ c.secret <= drawn
    /\ \A a \in Accounts : \A i \in 1..Len(pool[a]) :
         pool[a][i].tx.kind = "register" => racing(a, pool[a][i].tx)

(* What is in the pool is a transaction, and a register says when it was   *)
(* sent.                                                                   *)
LEMMA PoolTx ==
    ASSUME NEW q \in [Accounts -> Seq(Entry)], NEW a \in Accounts, NEW i \in 1..Len(q[a])
    PROVE  /\ q[a][i] \in Entry /\ q[a][i].tx \in Txs
           /\ q[a][i].tx.kind = "register" =>
                /\ q[a][i].tx.sentAt \in Nat /\ q[a][i].tx.name \in Names
                /\ ownCommitment(a, q[a][i].tx) \in Commitment
                /\ ownCommitment(a, q[a][i].tx).secret = q[a][i].tx.secret
<1>1. q[a] \in Seq(Entry)
  OBVIOUS
<1>2. q[a][i] \in Entry
  BY SMT, <1>1
<1>3. PICK tx \in Txs : tx = q[a][i].tx
  BY <1>2 DEF Entry
<1>4. tx.kind = "register" => tx.sentAt \in Nat
  BY DEF Txs, PlainTxs
<1>5. tx.kind = "register" => tx.name \in Names /\ tx.secret \in Secrets
  BY TxFields DEF secretive
<1>. QED BY <1>2, <1>3, <1>4, <1>5, OwnIsCommitment

(* A step that leaves the contract alone, but for the time, after which    *)
(* nobody holds a commitment that nobody held before.                      *)
LEMMA RaceStands ==
    ASSUME CLIType', ChainInv, RaceInv, UNCHANGED <<domains, commitments>>,
           now' = now \/ now' = now + 1, drawn \in Nat, drawn' \in Nat, drawn <= drawn',
           \A c \in Commitment : commitments[c] # 0 /\ held(c)' => held(c),
           \A a \in Accounts : \A i \in 1..Len(pool'[a]) :
             pool'[a][i].tx.kind = "register" => racing(a, pool'[a][i].tx)
    PROVE  RaceInv'
<1>0. now \in Nat /\ domains \in [Names -> Domain] /\ MIN_COMMITMENT_AGE \in Nat
  BY NamespaceAssumption DEF ChainInv
<1>1. \A c \in Commitment : commitments'[c] # 0 => c.secret \in Nat /\ c.secret <= drawn'
  BY SMT DEF RaceInv
<1>2. \A n \in Names : available(n) => available(n)'
  <2>1. \A n \in Names : domains[n].expiry \in Nat
    BY <1>0 DEF Domain
  <2>2. \A n \in Names : now > domains[n].expiry => now' > domains[n].expiry
    BY SMT, <1>0, <2>1
  <2>. QED BY <2>2 DEF available
<1>3. ASSUME NEW a \in Accounts, NEW i \in 1..Len(pool'[a]), pool'[a][i].tx.kind = "register"
      PROVE  racing(a, pool[a][i].tx)'
  <2>1. PICK tx : tx = pool'[a][i].tx
    OBVIOUS
  <2>2. tx.sentAt \in Nat /\ tx.name \in Names
    BY <1>3, <2>1, PoolTx DEF CLIType
  <2>3. racing(a, tx)
    BY <1>3, <2>1
  <2>4. tx.sentAt <= now' /\ (now' < tx.sentAt + MIN_COMMITMENT_AGE => now < tx.sentAt + MIN_COMMITMENT_AGE)
    <3>1. tx.sentAt <= now
      BY <2>3 DEF racing
    <3>. QED BY SMT, <1>0, <2>2, <3>1
  <2>5. undisturbed(tx) =>
          /\ available(tx.name)'
          /\ \A c \in Commitment :
               c.name = tx.name /\ c.secret # tx.secret /\ commitments'[c] # 0 /\ held(c)' =>
                 commitments'[c] >= tx.sentAt
    BY <1>2, <2>2 DEF undisturbed
  <2>6. ownCommitment(a, pool[a][i].tx)' = ownCommitment(a, tx)
    BY <2>1 DEF ownCommitment
  <2>. QED BY <2>1, <2>3, <2>4, <2>5, <2>6 DEF racing, undisturbed, available
<1>. QED BY <1>1, <1>3 DEF RaceInv

(* A process sends.  A register holds what its process held; a new secret  *)
(* is in no commitment on the chain.                                       *)
LEMMA RaceSend ==
    ASSUME OwnerInv, OwnerInv', RaceInv, NEW p \in Procs, NEW x \in States, NEW tx \in Txs,
           pool' = [pool EXCEPT ![account[p]] = Append(@, [tx |-> tx, cmd |-> x.cmd])],
           cli' = [cli EXCEPT ![p] = x], UNCHANGED vars, drawn <= drawn',
           x.pc = "mining" \/ (x.pc = "committing" /\ drawn < x.secret),
           tx.kind = "register" =>
             registering(p) /\ tx.secret = cli[p].secret /\ racing(account[p], tx)
    PROVE  RaceInv'
<1>. DEFINE a   == account[p]
            new == [tx |-> tx, cmd |-> x.cmd]
<1>0. /\ cli \in [Procs -> States] /\ pool \in [Accounts -> Seq(Entry)] /\ a \in Accounts
      /\ UNCHANGED <<now, domains, commitments>> /\ drawn \in Nat /\ drawn' \in Nat
      /\ CLIType' /\ ChainInv
  <2>1. a \in Accounts
    BY OwnerCLIAssumption
  <2>. QED BY <2>1 DEF OwnerInv, RevealInv, SecretInv, CLIType, vars
<1>1. new \in Entry /\ new.tx = tx
  <2>1. x.cmd \in Nat
    BY StateFields DEF idle
  <2>. QED BY <2>1 DEF Entry
<1>. HIDE DEF a, new
<1>2. pool' = [pool EXCEPT ![a] = Append(@, new)]
  BY DEF a, new
<1>3. \A b \in Accounts : \A i \in 1..Len(pool'[b]) :
        \/ b = a /\ i = Len(pool[a]) + 1 /\ pool'[b][i] = new
        \/ i \in 1..Len(pool[b]) /\ pool'[b][i] = pool[b][i]
  BY <1>0, <1>1, <1>2, Appended
<1>4. cli'[p] = x /\ \A q \in Procs \ {p} : cli'[q] = cli[q]
  BY <1>0
<1>5. ASSUME NEW c \in Commitment, commitments[c] # 0, held(c)' PROVE held(c)
  <2>1. CASE \E q \in Procs : registering(q)' /\ cli'[q].secret = c.secret
    <3>1. PICK q \in Procs : registering(q)' /\ cli'[q].secret = c.secret
      BY <2>1
    <3>2. q # p
      <4>. SUFFICES ASSUME q = p PROVE FALSE
        OBVIOUS
      <4>1. x.secret = c.secret /\ x.pc = "committing"
        BY <1>4, <3>1 DEF registering
      <4>2. c.secret \in Nat /\ c.secret <= drawn
        BY <1>5 DEF RaceInv
      <4>. QED BY SMT, <1>0, <4>1, <4>2
    <3>. QED BY <1>4, <3>1, <3>2 DEF held, registering
  <2>2. CASE \E i \in 1..Len(pool'[c.owner]) : /\ pool'[c.owner][i].tx.kind = "register"
                                               /\ pool'[c.owner][i].tx.secret = c.secret
    <3>0. c.owner \in Accounts
      BY DEF Commitment
    <3>1. PICK i \in 1..Len(pool'[c.owner]) : /\ pool'[c.owner][i].tx.kind = "register"
                                              /\ pool'[c.owner][i].tx.secret = c.secret
      BY <2>2
    <3>2. CASE pool'[c.owner][i] = new
      BY <1>1, <3>1, <3>2 DEF held
    <3>3. CASE i \in 1..Len(pool[c.owner]) /\ pool'[c.owner][i] = pool[c.owner][i]
      BY <3>1, <3>3 DEF held
    <3>. QED BY <1>3, <3>0, <3>2, <3>3
  <2>. QED BY <1>5, <2>1, <2>2 DEF held
<1>6. ASSUME NEW b \in Accounts, NEW i \in 1..Len(pool'[b]), pool'[b][i].tx.kind = "register"
      PROVE  racing(b, pool'[b][i].tx)
  <2>1. CASE b = a /\ pool'[b][i] = new
    BY <1>1, <1>6, <2>1 DEF a
  <2>2. CASE i \in 1..Len(pool[b]) /\ pool'[b][i] = pool[b][i]
    BY <1>6, <2>2 DEF RaceInv
  <2>. QED BY <1>3, <2>1, <2>2
<1>. QED BY <1>0, <1>5, <1>6, RaceStands

(* A process goes on by itself.                                            *)
LEMMA RaceProcess ==
    ASSUME OwnerInv, OwnerInv', RaceInv, NEW p \in Procs, NEW x \in States,
           cli' = [cli EXCEPT ![p] = x], UNCHANGED <<vars, pool, drawn>>, x.pc # "committing",
           x.pc = "waiting" => registering(p) /\ x.secret = cli[p].secret
    PROVE  RaceInv'
<1>0. /\ cli \in [Procs -> States] /\ UNCHANGED <<now, domains, commitments>>
      /\ drawn \in Nat /\ CLIType' /\ ChainInv
  BY DEF OwnerInv, RevealInv, SecretInv, CLIType, vars
<1>1. cli'[p] = x /\ \A q \in Procs \ {p} : cli'[q] = cli[q]
  BY <1>0
<1>2. ASSUME NEW c \in Commitment, held(c)' PROVE held(c)
  <2>1. \A q \in Procs : registering(q)' => registering(q) /\ cli'[q].secret = cli[q].secret
    BY <1>1 DEF registering
  <2>. QED BY <1>2, <2>1 DEF held
<1>3. drawn <= drawn'
  BY <1>0, Reflexive
<1>4. \A b \in Accounts : \A i \in 1..Len(pool'[b]) :
        pool'[b][i].tx.kind = "register" => racing(b, pool'[b][i].tx)
  BY DEF RaceInv
<1>. QED BY <1>0, <1>2, <1>3, <1>4, RaceStands

(* A transaction is mined: nobody holds what nobody held.                  *)
LEMMA PopHolds ==
    ASSUME OwnerInv, NEW a \in Accounts, pool[a] # << >>, NEW st \in Status,
           receipt(Head(pool[a]), st), pool' = [pool EXCEPT ![a] = Tail(@)],
           NEW c \in Commitment, held(c)'
    PROVE  held(c)
<1>0. cli \in [Procs -> States] /\ pool \in [Accounts -> Seq(Entry)] /\ c.owner \in Accounts
  BY DEF OwnerInv, RevealInv, SecretInv, CLIType, Commitment
<1>1. \A q \in Procs : registering(q)' => registering(q) /\ cli'[q].secret = cli[q].secret
  BY <1>0, Received DEF registering
<1>2. \A i \in 1..Len(pool'[c.owner]) : \E j \in 1..Len(pool[c.owner]) :
        pool'[c.owner][i] = pool[c.owner][j]
  BY SMT, <1>0, Popped
<1>. QED BY <1>1, <1>2 DEF held

(* A transaction reverts.                                                  *)
LEMMA RaceReverts ==
    ASSUME OwnerInv, OwnerInv', RaceInv, NEW a \in Accounts, Reverts(a)
    PROVE  RaceInv'
<1>1. /\ pool[a] # << >> /\ receipt(Head(pool[a]), "reverted") /\ UNCHANGED <<vars, drawn>>
      /\ pool' = [pool EXCEPT ![a] = Tail(@)] /\ "reverted" \in Status
  BY DEF Reverts, Status
<1>2. /\ pool \in [Accounts -> Seq(Entry)] /\ UNCHANGED <<now, domains, commitments>>
      /\ drawn \in Nat /\ CLIType' /\ ChainInv
  BY <1>1 DEF OwnerInv, RevealInv, SecretInv, CLIType, vars
<1>3. \A c \in Commitment : held(c)' => held(c)
  BY <1>1, PopHolds
<1>4. \A b \in Accounts : \A i \in 1..Len(pool'[b]) : \E j \in 1..Len(pool[b]) :
        pool'[b][i] = pool[b][j]
  BY SMT, <1>1, <1>2, Popped
<1>5. ASSUME NEW b \in Accounts, NEW i \in 1..Len(pool'[b]), pool'[b][i].tx.kind = "register"
      PROVE  racing(b, pool'[b][i].tx)
  <2>1. PICK j \in 1..Len(pool[b]) : pool'[b][i] = pool[b][j]
    BY <1>4
  <2>. QED BY <1>5, <2>1 DEF RaceInv
<1>6. drawn <= drawn'
  BY <1>1, <1>2, Reflexive
<1>. QED BY <1>1, <1>2, <1>3, <1>5, <1>6, RaceStands

(* What the contract's functions demand of the name they change, and of    *)
(* the commitment.                                                         *)
LEMMA CallGuards ==
    ASSUME ChainInv, NEW a \in Accounts, NEW tx \in Txs, call(a, tx)
    PROVE  /\ \A n \in Names : domains'[n] = domains[n] \/ ~available(n) \/
                                (tx.kind = "register" /\ n = tx.name)
           /\ tx.kind = "register" =>
                now >= commitments[ownCommitment(a, tx)] + MIN_COMMITMENT_AGE
<1>0. domains \in [Names -> Domain]
  BY DEF ChainInv
<1>1. CASE tx.kind = "register"
  <2>1. register(a, tx.name, SigningKey[a], tx.secret, priceOf(tx.name))
    BY <1>1 DEF call
  <2>2. now >= commitments[ownCommitment(a, tx)] + MIN_COMMITMENT_AGE
    BY <2>1 DEF register, mayRegister, mayReveal, ownCommitment
  <2>3. \A n \in Names : n # tx.name => domains'[n] = domains[n]
    BY <1>0, <2>1 DEF register
  <2>. QED BY <1>1, <2>2, <2>3
<1>2. CASE tx.kind = "transfer"
  <2>1. transfer(a, tx.name, tx.to, tx.pubKey)
    BY <1>2 DEF call
  <2>2. ~available(tx.name) /\ \A n \in Names : n # tx.name => domains'[n] = domains[n]
    BY <1>0, <2>1 DEF transfer, mayTransfer
  <2>. QED BY <1>2, <2>2
<1>3. CASE tx.kind = "renew"
  <2>1. renew(tx.name, priceOf(tx.name))
    BY <1>3 DEF call
  <2>2. ~available(tx.name) /\ \A n \in Names : n # tx.name => domains'[n] = domains[n]
    BY <1>0, <2>1 DEF renew, mayRenew
  <2>. QED BY <1>3, <2>2
<1>4. CASE tx.kind \in {"commit", "set", "remove", "withdraw", "declare"}
  <2>1. domains' = domains
    BY <1>4 DEF call, commit, setRecord, removeRecord, withdraw, declare
  <2>. QED BY <1>4, <2>1
<1>. QED BY <1>1, <1>2, <1>3, <1>4, TxFields

(* A transaction succeeds.  A register of the same name that it overtakes  *)
(* reveals a commitment that somebody holds, and that is too young.        *)
LEMMA RaceSucceeds ==
    ASSUME OwnerInv, OwnerInv', RaceInv, NEW a \in Accounts, Succeeds(a)
    PROVE  RaceInv'
<1>. DEFINE e  == Head(pool[a])
            c0 == ownCommitment(a, e.tx)
<1>0. /\ pool \in [Accounts -> Seq(Entry)] /\ pool' \in [Accounts -> Seq(Entry)] /\ drawn \in Nat
      /\ now \in Nat \ {0} /\ domains \in [Names -> Domain] /\ commitments \in [Commitment -> Nat]
      /\ MIN_COMMITMENT_AGE \in Nat
  BY NamespaceAssumption DEF OwnerInv, RevealInv, SecretInv, CLIType, ChainInv
<1>1. /\ pool[a] # << >> /\ call(a, e.tx) /\ receipt(e, "successful") /\ drawn' = drawn
      /\ pool' = [pool EXCEPT ![a] = Tail(@)] /\ "successful" \in Status
  BY DEF Succeeds, Status
<1>2. /\ 1 \in 1..Len(pool[a]) /\ e = pool[a][1]
      /\ \A b \in Accounts : \A i \in 1..Len(pool'[b]) :
           /\ shift(a, b, i) \in 1..Len(pool[b]) /\ pool'[b][i] = pool[b][shift(a, b, i)]
           /\ b = a => shift(a, b, i) # 1
  BY <1>0, <1>1, Popped
<1>3. \A c \in Commitment : held(c)' => held(c)
  BY <1>1, PopHolds
<1>4. e.tx \in Txs
  BY <1>0, <1>2, PoolTx
<1>5. /\ now' = now
      /\ e.tx.kind = "commit" => commitments' = [commitments EXCEPT ![c0] = now]
      /\ e.tx.kind = "register" => commitments' = [commitments EXCEPT ![c0] = 0]
      /\ ~secretive(e.tx) => commitments' = commitments
  BY <1>1, <1>4, CallFacts DEF OwnerInv, RevealInv
<1>6. /\ \A n \in Names : domains'[n] = domains[n] \/ ~available(n) \/
                           (e.tx.kind = "register" /\ n = e.tx.name)
      /\ e.tx.kind = "register" => now >= commitments[c0] + MIN_COMMITMENT_AGE
  BY <1>1, <1>4, CallGuards DEF OwnerInv, RevealInv
<1>7. secretive(e.tx) => /\ c0 \in Commitment /\ c0.secret = e.tx.secret
                         /\ e.tx.secret \in Nat /\ e.tx.secret <= drawn
  <2>1. secretive(e.tx) => e.tx.name \in Names /\ e.tx.secret \in Secrets /\ e.tx.secret \in Nat
    BY <1>4, TxFields
  <2>2. secretive(e.tx) => e.tx.secret <= drawn
    BY <1>2 DEF OwnerInv, RevealInv, SecretInv, Submitted
  <2>. QED BY <2>1, <2>2, OwnIsCommitment
<1>8. c0.owner = a /\ c0.name = e.tx.name
  BY DEF ownCommitment, makeCommitment
<1>. HIDE DEF e, c0
<1>9. ASSUME NEW c \in Commitment
      PROVE  \/ commitments'[c] = commitments[c]
             \/ secretive(e.tx) /\ c = c0 /\ commitments'[c] \in {0, now}
  BY <1>0, <1>5, <1>7 DEF secretive
<1>10. \A c \in Commitment : commitments'[c] # 0 => c.secret \in Nat /\ c.secret <= drawn'
  BY <1>1, <1>7, <1>9 DEF RaceInv
<1>11. ASSUME NEW b \in Accounts, NEW i \in 1..Len(pool'[b]), pool'[b][i].tx.kind = "register"
       PROVE  racing(b, pool[b][i].tx)'
  <2>1. PICK j \in 1..Len(pool[b]) : pool'[b][i] = pool[b][j] /\ (b = a => j # 1)
    BY <1>2
  <2>2. PICK tx : tx = pool[b][j].tx
    OBVIOUS
  <2>3. /\ tx.kind = "register" /\ tx.sentAt \in Nat /\ tx.name \in Names
        /\ ownCommitment(b, tx) \in Commitment /\ ownCommitment(b, tx).secret = tx.secret
    BY <1>0, <1>11, <2>1, <2>2, PoolTx
  <2>4. racing(b, tx)
    BY <2>2, <2>3 DEF RaceInv
  <2>5. secretive(e.tx) => e.tx.secret # tx.secret
    <3>1. secretive(pool[b][j].tx)
      BY <2>2, <2>3 DEF secretive
    <3>2. 1 \in 1..Len(pool[a]) /\ e = pool[a][1]
      BY <1>2
    <3>3. secretive(pool[a][1].tx) /\ pool[b][j].tx.secret = pool[a][1].tx.secret => a = b /\ 1 = j
      BY <3>1, <3>2 DEF OwnerInv, RevealInv, SecretInv, Submitted
    <3>. QED BY <2>1, <2>2, <3>2, <3>3
  <2>6. commitments'[ownCommitment(b, tx)] # 0
    BY <1>7, <1>9, <2>3, <2>4, <2>5 DEF racing
  <2>7. ASSUME undisturbed(tx), now < tx.sentAt + MIN_COMMITMENT_AGE
        PROVE  undisturbed(pool[b][i].tx)'
    <3>1. ~(e.tx.kind = "register" /\ e.tx.name = tx.name)
      <4>. SUFFICES ASSUME e.tx.kind = "register", e.tx.name = tx.name PROVE FALSE
        OBVIOUS
      <4>1. commitments[c0] # 0
        BY <1>2 DEF RaceInv, racing, c0
      <4>2. held(c0)
        BY <1>2, <1>7, <1>8 DEF held, secretive
      <4>3. commitments[c0] >= tx.sentAt /\ commitments[c0] \in Nat
        BY <1>0, <1>7, <1>8, <2>5, <2>7, <4>1, <4>2 DEF undisturbed, secretive
      <4>. QED BY SMT, <1>0, <1>6, <2>3, <2>7, <4>3
    <3>2. available(tx.name)'
      <4>1. available(tx.name)
        BY <2>7 DEF undisturbed
      <4>2. domains'[tx.name] = domains[tx.name]
        BY <1>6, <2>3, <3>1, <4>1
      <4>. QED BY <1>5, <4>1, <4>2 DEF available
    <3>3. ASSUME NEW c \in Commitment, c.name = tx.name, c.secret # tx.secret,
                 commitments'[c] # 0, held(c)'
          PROVE  commitments'[c] >= tx.sentAt
      <4>1. CASE commitments'[c] = commitments[c]
        BY <1>3, <2>7, <3>3, <4>1 DEF undisturbed
      <4>2. CASE commitments'[c] = now
        <5>1. tx.sentAt <= now
          BY <2>4 DEF racing
        <5>. QED BY SMT, <1>0, <2>3, <4>2, <5>1
      <4>. QED BY <1>9, <3>3, <4>1, <4>2
    <3>. QED BY <2>1, <2>2, <3>2, <3>3 DEF undisturbed, available
  <2>8. ownCommitment(b, pool[b][i].tx)' = ownCommitment(b, tx)
    BY <2>1, <2>2 DEF ownCommitment
  <2>. QED BY <1>5, <2>1, <2>2, <2>4, <2>6, <2>7, <2>8 DEF racing
<1>. QED BY <1>10, <1>11 DEF RaceInv

(* Every step keeps the order of the race.                                 *)
LEMMA RaceStep ==
    ASSUME OwnerInv, RaceInv, [CLINext]_<<vars, cliVars>>
    PROVE  RaceInv'
<1>0. OwnerInv'
  BY OwnerStep
<1>nat. commands \in Nat /\ drawn \in Nat /\ now \in Nat /\ drawn <= drawn
  <2>1. commands \in Nat /\ drawn \in Nat /\ now \in Nat
    BY DEF OwnerInv, RevealInv, SecretInv, CLIType, ChainInv
  <2>. QED BY <2>1, Reflexive
<1>1. \A p \in Procs : cli[p] \in States
  BY DEF OwnerInv, RevealInv, SecretInv, CLIType
<1>2. CASE CLITick \/ UNCHANGED <<vars, cliVars>>
  <2>1. /\ now' = now \/ now' = now + 1
        /\ UNCHANGED <<domains, commitments, cli, pool, drawn>>
    BY <1>2 DEF CLITick, Tick, cliVars, vars
  <2>2. CLIType' /\ ChainInv
    BY <1>0 DEF OwnerInv, RevealInv, SecretInv
  <2>3. \A c \in Commitment : held(c)' => held(c)
    BY <2>1 DEF held, registering
  <2>4. \A a \in Accounts : \A i \in 1..Len(pool'[a]) :
          pool'[a][i].tx.kind = "register" => racing(a, pool'[a][i].tx)
    BY <2>1 DEF RaceInv
  <2>. QED BY <1>nat, <2>1, <2>2, <2>3, <2>4, RaceStands
<1>3. ASSUME NEW p \in Procs, NEW tx \in PlainTxs, plainCommand(p, tx) PROVE RaceInv'
  <2>. DEFINE x == [pc |-> "mining", cmd |-> commands', status |-> "pending"]
  <2>1. /\ cli' = [cli EXCEPT ![p] = x] /\ UNCHANGED <<vars, drawn>>
        /\ pool' = [pool EXCEPT ![account[p]] = Append(@, [tx |-> tx, cmd |-> x.cmd])]
    BY <1>3 DEF plainCommand, send
  <2>2. x \in States /\ x.pc = "mining"
    <3>1. commands' \in Nat
      BY <1>0 DEF OwnerInv, RevealInv, SecretInv, CLIType
    <3>. QED BY <3>1 DEF States, Status
  <2>3. tx \in Txs /\ tx.kind # "register"
    BY DEF Txs, PlainTxs
  <2>. HIDE DEF x
  <2>. QED BY <1>0, <1>nat, <2>1, <2>2, <2>3, RaceSend
<1>4. ASSUME NEW p \in Procs, NEW n \in Names, cmdRegister(p, n) PROVE RaceInv'
  <2>. DEFINE x  == [pc |-> "committing", cmd |-> commands', status |-> "pending",
                     name |-> n, secret |-> drawn']
              tx == [kind |-> "commit", name |-> n, secret |-> drawn']
  <2>1. /\ cli' = [cli EXCEPT ![p] = x] /\ UNCHANGED vars /\ drawn' = drawn + 1
        /\ pool' = [pool EXCEPT ![account[p]] = Append(@, [tx |-> tx, cmd |-> x.cmd])]
        /\ drawn' \in Secrets
    BY <1>4 DEF cmdRegister, send
  <2>2. x \in States /\ x.pc = "committing" /\ x.secret = drawn' /\ tx \in Txs /\ tx.kind = "commit"
    <3>1. commands' \in Nat /\ drawn' \in OwnSecrets
      BY <1>0, <2>1 DEF OwnerInv, RevealInv, SecretInv, CLIType, OwnSecrets
    <3>. QED BY <3>1 DEF States, Status, Txs
  <2>. HIDE DEF x, tx
  <2>3. drawn <= drawn' /\ drawn < x.secret
    BY SMT, <1>nat, <2>1, <2>2
  <2>. QED BY <1>0, <2>1, <2>2, <2>3, RaceSend
<1>5. ASSUME NEW p \in Procs, Committed(p) PROVE RaceInv'
  <2>. DEFINE x == [pc |-> "waiting", cmd |-> cli[p].cmd, until |-> waitEnd(p),
                    name |-> cli[p].name, secret |-> cli[p].secret]
  <2>1. /\ cli[p].pc = "committing" /\ cli' = [cli EXCEPT ![p] = x]
        /\ UNCHANGED <<vars, pool, drawn>>
    BY <1>5 DEF Committed
  <2>2. x \in States
    <3>1. cli'[p] \in States
      BY <1>0 DEF OwnerInv, RevealInv, SecretInv, CLIType
    <3>2. cli'[p] = x
      BY <2>1 DEF OwnerInv, RevealInv, SecretInv, CLIType
    <3>. QED BY <3>1, <3>2
  <2>3. x.pc = "waiting" /\ x.secret = cli[p].secret /\ registering(p)
    BY <2>1 DEF registering
  <2>. HIDE DEF x
  <2>. QED BY <1>0, <2>1, <2>2, <2>3, RaceProcess
<1>6. ASSUME NEW p \in Procs, Reveal(p) PROVE RaceInv'
  <2>1. PICK al \in BOOLEAN : al = (available(cli[p].name) /\ rivals(p, cli[p].name) = {})
    OBVIOUS
  <2>. DEFINE x  == [pc |-> "mining", cmd |-> cli[p].cmd, status |-> "pending"]
              tx == [kind |-> "register", name |-> cli[p].name, secret |-> cli[p].secret,
                     sentAt |-> now, alone |-> al]
  <2>2. /\ cli[p].pc = "waiting" /\ committed(p) /\ registering(p)
        /\ cli' = [cli EXCEPT ![p] = x] /\ UNCHANGED <<vars, drawn>>
        /\ pool' = [pool EXCEPT ![account[p]] = Append(@, [tx |-> tx, cmd |-> x.cmd])]
    BY <1>6, <2>1 DEF Reveal, send, committed, registering
  <2>3. cli[p].name \in Names /\ cli[p].secret \in OwnSecrets /\ cli[p].cmd \in Nat
    BY <1>1, <2>2, StateFields DEF OwnSecrets, idle
  <2>4. /\ x \in States /\ x.pc = "mining" /\ tx \in Txs /\ tx.kind = "register"
        /\ tx.name = cli[p].name /\ tx.secret = cli[p].secret /\ tx.sentAt = now /\ tx.alone = al
    BY <1>nat, <2>3 DEF States, Status, Txs
  <2>. HIDE DEF x, tx
  <2>5. racing(account[p], tx)
    <3>1. commitments[ownCommitment(account[p], tx)] # 0
      <4>1. ownCommitment(account[p], tx) = own(p)
        BY <2>4 DEF own, ownCommitment
      <4>. QED BY <2>2, <4>1 DEF OwnerInv, RevealInv, Aging
    <3>2. al => undisturbed(tx)
      <4>. SUFFICES ASSUME al, NEW c \in Commitment, c.name = tx.name, c.secret # tx.secret,
                           commitments[c] # 0, held(c)
                    PROVE  FALSE
        BY <2>1, <2>4 DEF undisturbed
      <4>0. c.owner \in Accounts /\ pool \in [Accounts -> Seq(Entry)]
        BY DEF Commitment, OwnerInv, RevealInv, SecretInv, CLIType
      <4>1. DOMAIN pool[c.owner] = 1..Len(pool[c.owner])
        BY SMT, <4>0
      <4>2. revealable(c)
        BY <4>1 DEF revealable, held, registering
      <4>. QED BY <2>1, <2>4, <4>2 DEF rivals
    <3>3. now <= now
      BY <1>nat, Reflexive
    <3>. QED BY <2>4, <3>1, <3>2, <3>3 DEF racing
  <2>. QED BY <1>0, <1>nat, <2>2, <2>4, <2>5, RaceSend
<1>7. ASSUME NEW p \in Procs, NEW n \in Names, NEW in \in RecordInputs, generationOf(p, n, in)
      PROVE  RaceInv'
  <2>. DEFINE x == [pc |-> "signing", cmd |-> commands', name |-> n, input |-> in,
                    generation |-> domains[n].generation, readAt |-> now]
  <2>1. cli' = [cli EXCEPT ![p] = x] /\ UNCHANGED <<vars, pool, drawn>> /\ x.pc = "signing"
    BY <1>7 DEF generationOf
  <2>. HIDE DEF x
  <2>2. x \in States
    <3>1. cli'[p] \in States
      BY <1>0 DEF OwnerInv, RevealInv, SecretInv, CLIType
    <3>2. cli'[p] = x
      BY <2>1 DEF OwnerInv, RevealInv, SecretInv, CLIType
    <3>. QED BY <3>1, <3>2
  <2>. QED BY <1>0, <2>1, <2>2, RaceProcess
<1>8. ASSUME NEW p \in Procs, cmdSet(p) PROVE RaceInv'
  <2>. DEFINE x   == [pc |-> "mining", cmd |-> cli[p].cmd, status |-> "pending"]
              rec == [body |-> cli[p].input, generation |-> cli[p].generation]
              tx  == [kind |-> "set", name |-> cli[p].name, input |-> cli[p].input,
                      sig |-> SignRecord(cli[p].name, rec, account[p]), readAt |-> cli[p].readAt]
  <2>1. /\ cli[p].pc = "signing" /\ cli' = [cli EXCEPT ![p] = x] /\ UNCHANGED <<vars, drawn>>
        /\ pool' = [pool EXCEPT ![account[p]] = Append(@, [tx |-> tx, cmd |-> x.cmd])]
    BY <1>8 DEF cmdSet, send
  <2>2. /\ cli[p].name \in Names /\ cli[p].input \in RecordInputs /\ cli[p].generation \in Nat
        /\ cli[p].readAt \in Nat /\ cli[p].cmd \in Nat /\ account[p] \in Accounts
    BY <1>1, <2>1, StateFields, OwnerCLIAssumption DEF idle
  <2>3. SignRecord(cli[p].name, rec, account[p]) \in Sigs
    BY <2>2 DEF SignRecord, RecordMessage, Sigs
  <2>4. x \in States /\ x.pc = "mining"
    BY <2>2 DEF States, Status
  <2>5. tx \in Txs /\ tx.kind # "register"
    <3>. HIDE DEF rec
    <3>. QED BY <2>2, <2>3 DEF Txs
  <2>. HIDE DEF x, tx
  <2>. QED BY <1>0, <1>nat, <2>1, <2>4, <2>5, RaceSend
<1>9. ASSUME NEW p \in Procs, Ends(p) PROVE RaceInv'
  <2>1. idle \in States /\ idle.pc = "idle"
    BY DEF States, idle
  <2>. QED BY <1>0, <1>9, <2>1, RaceProcess DEF Ends
<1>. QED BY <1>0, <1>2, <1>3, <1>4, <1>5, <1>6, <1>7, <1>8, <1>9, RaceReverts, RaceSucceeds
         DEF CLINext

(* main.go's register and the contract's waiting time: front-running does  *)
(* not work.  A register sent for a free name while nobody else holds a    *)
(* commitment to it gets the name, if it is mined before a commitment made *)
(* since could be old enough: for any accounts, processes and names, and   *)
(* in whatever order the accounts' transactions are mined.                 *)
THEOREM FrontRunningFails == CLISpec => RevealNotOvertaken
<1>1. CLIInit => OwnerInv /\ RaceInv
  <2>. SUFFICES ASSUME CLIInit PROVE RaceInv
    BY OwnerStarts
  <2>1. /\ \A a \in Accounts : 1..Len(pool[a]) = {}
        /\ \A c \in Commitment : commitments[c] = 0
    BY SMT DEF CLIInit, Init
  <2>. QED BY <2>1 DEF RaceInv
<1>2. OwnerInv /\ RaceInv /\ [CLINext]_<<vars, cliVars>> => (OwnerInv /\ RaceInv)'
  BY OwnerStep, RaceStep
<1>3. ASSUME OwnerInv, RaceInv, [CLINext]_<<vars, cliVars>>, NEW a \in Accounts, NEW tx,
             pool[a] # << >>, tx = Head(pool[a]).tx, pool'[a] = Tail(pool[a]),
             tx.kind = "register", tx.alone, validateName(tx.name),
             now < tx.sentAt + MIN_COMMITMENT_AGE,
             now - commitments[ownCommitment(a, tx)] \in MIN_COMMITMENT_AGE..MAX_COMMITMENT_AGE
      PROVE  domains'[tx.name].owner = a /\ changedAt'[tx.name] = now
  <2>0. /\ pool \in [Accounts -> Seq(Entry)] /\ cli \in [Procs -> States] /\ now \in Nat
        /\ domains \in [Names -> Domain] /\ commitments \in [Commitment -> Nat]
        /\ changedAt \in [Names -> Nat]
        /\ MIN_COMMITMENT_AGE \in Nat /\ MAX_COMMITMENT_AGE \in Nat
    BY <1>3, NamespaceAssumption DEF OwnerInv, RevealInv, SecretInv, CLIType, ChainInv, FreshInv
  <2>1. pool[a] \in Seq(Entry) /\ Len(Tail(pool[a])) # Len(pool[a])
        /\ 1 \in 1..Len(pool[a]) /\ Head(pool[a]) = pool[a][1]
    <3>1. pool[a] \in Seq(Entry)
      BY <2>0
    <3>. QED BY SMT, <1>3, <3>1
  <2>2. /\ tx = pool[a][1].tx /\ tx \in Txs /\ tx.name \in Names
        /\ ownCommitment(a, tx) \in Commitment
    <3>1. tx = pool[a][1].tx
      BY <1>3, <2>1
    <3>2. /\ pool[a][1].tx \in Txs
          /\ pool[a][1].tx.kind = "register" =>
               /\ pool[a][1].tx.name \in Names
               /\ ownCommitment(a, pool[a][1].tx) \in Commitment
      BY <2>0, <2>1, PoolTx
    <3>3. tx.kind = "register"
      BY <1>3
    <3>. QED BY <3>1, <3>2, <3>3
  <2>3. CASE Succeeds(a)
    <3>1. /\ register(a, tx.name, SigningKey[a], tx.secret, priceOf(tx.name))
          /\ changedAt' = [changedAt EXCEPT ![tx.name] = now]
      BY <1>3, <2>3 DEF Succeeds, call
    <3>2. domains'[tx.name].owner = a
      BY <2>0, <2>2, <3>1 DEF register
    <3>. QED BY <2>0, <2>2, <3>1, <3>2
  <2>4. ~Reverts(a)
    <3>. SUFFICES mayRegister(a, tx.name, SigningKey[a], tx.secret, priceOf(tx.name))
      BY <1>3 DEF Reverts, mayCall
    <3>1. racing(a, tx)
      BY <1>3, <2>1, <2>2 DEF RaceInv
    <3>2. available(tx.name)
      BY <1>3, <3>1 DEF racing, undisturbed
    <3>3. mayReveal(makeCommitment(tx.name, a, SigningKey[a], tx.secret))
      <4>1. PICK c \in Commitment : c = ownCommitment(a, tx)
        BY <2>2
      <4>2. commitments[c] # 0 /\ commitments[c] \in Nat
        BY <2>0, <3>1, <4>1 DEF racing
      <4>3. now - commitments[c] \in MIN_COMMITMENT_AGE..MAX_COMMITMENT_AGE
        BY <1>3, <4>1
      <4>4. /\ now >= commitments[c] + MIN_COMMITMENT_AGE
            /\ now <= commitments[c] + MAX_COMMITMENT_AGE
        BY SMT, <2>0, <4>2, <4>3
      <4>. QED BY <4>1, <4>2, <4>4 DEF mayReveal, ownCommitment
    <3>4. validPubKey(SigningKey[a])
      BY OwnerCLIAssumption
    <3>5. priceOf(tx.name) >= priceOf(tx.name)
      <4>1. basePrice \in Nat /\ NameShape[tx.name].length \in Nat
        BY <2>2, NamespaceAssumption
      <4>2. priceOf(tx.name) \in Nat
        BY SMT, <4>1 DEF priceOf
      <4>. QED BY SMT, <4>2
    <3>. QED BY <1>3, <3>2, <3>3, <3>4, <3>5 DEF mayRegister
  <2>5. CASE UNCHANGED <<vars, cliVars>> \/ CLITick \/ \E p \in Procs : Committed(p) \/ Ends(p)
             \/ \E n \in Names, in \in RecordInputs : generationOf(p, n, in)
    <3>1. pool' = pool
      BY <2>5 DEF CLITick, cliVars, Committed, Ends, generationOf
    <3>. QED BY <1>3, <2>1, <3>1
  <2>6. ASSUME NEW b \in Accounts, b # a, Succeeds(b) \/ Reverts(b) PROVE FALSE
    <3>1. pool' = [pool EXCEPT ![b] = Tail(@)]
      BY <2>6 DEF Succeeds, Reverts
    <3>. QED BY <1>3, <2>0, <2>1, <2>6, <3>1
  <2>7. ASSUME NEW p \in Procs, NEW t, NEW c, send(p, c, t) PROVE FALSE
    <3>1. pool'[a] = pool[a] \/ pool'[a] = Append(pool[a], [tx |-> t, cmd |-> c])
      BY <2>0, <2>7 DEF send
    <3>2. Len(pool'[a]) < Len(pool[a])
      BY SMT, <1>3, <2>1
    <3>. QED BY SMT, <2>1, <3>1, <3>2
  <2>8. CASE \E p \in Procs : Reveal(p) \/ cmdSet(p) \/ (\E n \in Names : cmdRegister(p, n))
             \/ \E t \in PlainTxs : plainCommand(p, t)
    BY <2>7, <2>8 DEF Reveal, cmdSet, cmdRegister, plainCommand
  <2>. QED BY <1>3, <2>3, <2>4, <2>5, <2>6, <2>8 DEF CLINext
<1>4. OwnerInv /\ RaceInv /\ [CLINext]_<<vars, cliVars>> =>
        [\A a \in Accounts :
           LET tx == Head(pool[a]).tx
           IN  /\ pool[a] # <<>> /\ pool'[a] = Tail(pool[a])
               /\ tx.kind = "register"
               /\ tx.alone
               /\ validateName(tx.name)
               /\ now < tx.sentAt + MIN_COMMITMENT_AGE
               /\ now - commitments[ownCommitment(a, tx)]
                    \in MIN_COMMITMENT_AGE..MAX_COMMITMENT_AGE
               => domains'[tx.name].owner = a /\ changedAt'[tx.name] = now]_<<vars, cliVars>>
  BY <1>3
<1>. QED BY <1>1, <1>2, <1>4, PTL DEF CLISpec, RevealNotOvertaken
====
