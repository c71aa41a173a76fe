------------------------------ MODULE Namespace ------------------------------
(***************************************************************************)
(* What the namespace contract promises its users, without the mechanism   *)
(* (no commitments, generations, key lists or fees): a name has one holder *)
(* at a time, is theirs until the time they paid for is over, and carries  *)
(* exactly the records published since it last changed hands.              *)
(***************************************************************************)
EXTENDS Naturals

CONSTANTS
    Names, Accounts, PubKeys, Keys, Bodies,
    NoOwner, NoPubKey, NoBody,
    Period       \* how long one payment buys

VARIABLES
    now,         \* block.timestamp
    holder,      \* name -> last holder, NoOwner if there never was one
    holderKey,   \* name -> the holder's public key
    paidUntil,   \* name -> the last moment it is the holder's
    live         \* name -> record key -> published body, or NoBody

nsVars == <<now, holder, holderKey, paidUntil, live>>

Active(n) == holder[n] # NoOwner /\ now <= paidUntil[n]

NoRecords == [k \in Keys |-> NoBody]

(* The answer to a query.                                                  *)
Visible(n, k) == IF Active(n) THEN live[n][k] ELSE NoBody

NSInit ==
    /\ now = 1
    /\ holder = [n \in Names |-> NoOwner]
    /\ holderKey = [n \in Names |-> NoPubKey]
    /\ paidUntil = [n \in Names |-> 0]
    /\ live = [n \in Names |-> NoRecords]

NSTick ==
    /\ now' = now + 1
    /\ UNCHANGED <<holder, holderKey, paidUntil, live>>

(* A free or lapsed name is taken, and starts without records.             *)
Take(n, a, p) ==
    /\ ~Active(n)
    /\ holder' = [holder EXCEPT ![n] = a]
    /\ holderKey' = [holderKey EXCEPT ![n] = p]
    /\ paidUntil' = [paidUntil EXCEPT ![n] = now + Period]
    /\ live' = [live EXCEPT ![n] = NoRecords]
    /\ UNCHANGED now

Extend(n) ==
    /\ Active(n)
    /\ paidUntil' = [paidUntil EXCEPT ![n] = @ + Period]
    /\ UNCHANGED <<now, holder, holderKey, live>>

(* The name goes to a new holder for the rest of the paid time, and the    *)
(* records of the old one are gone.                                        *)
HandOver(n, a, p) ==
    /\ Active(n)
    /\ holder' = [holder EXCEPT ![n] = a]
    /\ holderKey' = [holderKey EXCEPT ![n] = p]
    /\ live' = [live EXCEPT ![n] = NoRecords]
    /\ UNCHANGED <<now, paidUntil>>

Publish(n, k, b) ==
    /\ Active(n)
    /\ live' = [live EXCEPT ![n][k] = b]
    /\ UNCHANGED <<now, holder, holderKey, paidUntil>>

Unpublish(n, k) ==
    /\ Active(n)
    /\ live[n][k] # NoBody
    /\ live' = [live EXCEPT ![n][k] = NoBody]
    /\ UNCHANGED <<now, holder, holderKey, paidUntil>>

NSNext ==
    \/ NSTick
    \/ \E n \in Names :
         \/ \E a \in Accounts, p \in PubKeys : Take(n, a, p) \/ HandOver(n, a, p)
         \/ Extend(n)
         \/ \E k \in Keys : Unpublish(n, k) \/ \E b \in Bodies : Publish(n, k, b)

NSSpec == NSInit /\ [][NSNext]_nsVars
=============================================================================
