---------------------------- MODULE EventIterator ----------------------------
(***************************************************************************)
(* The iterators over filtered events in the contract bindings             *)
(* (resolver/internal/chain/bindings): a goroutine of go-ethereum sends    *)
(* the logs found through a channel and ends its subscription; Next takes  *)
(* them from the channel until it learns of the end, and then what is left *)
(* in it.  The event watcher reads every range of blocks through four of   *)
(* them and goes on to the next range when none has failed.                *)
(***************************************************************************)
EXTENDS Naturals, Sequences

CONSTANTS
    Logs,           \* what the node may have found: good and bad logs
    BadLogs,        \* those that UnpackLog rejects
    channelSize,    \* the capacity of the channel
    MaxLogs         \* bound of the model

VARIABLES
    found,          \* the logs of the range, in order
    unsent,         \* those the goroutine still has to send
    channel,        \* it.logs
    subscribed,     \* the subscription has not ended
    iter,           \* the iterator: iterating, done and fail
    delivered       \* history: the events Next has delivered

iterVars == <<found, unsent, channel, subscribed, iter, delivered>>

ASSUME IteratorAssumption ==
    BadLogs \subseteq Logs /\ channelSize \in Nat \ {0} /\ MaxLogs \in Nat

IterDone ==
    /\ found = << >> /\ unsent = << >> /\ channel = << >>
    /\ subscribed = FALSE
    /\ iter = [iterating |-> FALSE, done |-> TRUE, fail |-> FALSE]
    /\ delivered = << >>

(* FilterRecordSet and its like; a query that fails gives no iterator.     *)
IterInit ==
    /\ found \in UNION {[1..n -> Logs] : n \in 0..MaxLogs}
    /\ unsent = found /\ channel = << >>
    /\ subscribed = TRUE
    /\ iter = [iterating |-> TRUE, done |-> FALSE, fail |-> FALSE]
    /\ delivered = << >>

-----------------------------------------------------------------------------
(* The goroutine.                                                          *)
SendLog ==
    /\ subscribed
    /\ unsent # << >> /\ Len(channel) < channelSize
    /\ channel' = Append(channel, Head(unsent))
    /\ unsent' = Tail(unsent)
    /\ UNCHANGED <<found, subscribed, iter, delivered>>

(* All is sent.                                                            *)
EndSubscription ==
    /\ subscribed /\ unsent = << >>
    /\ subscribed' = FALSE
    /\ UNCHANGED <<found, unsent, channel, iter, delivered>>

-----------------------------------------------------------------------------
(* Next, in the loop of collectEvents.                                     *)

(* A log is there: it is unpacked and delivered, or the iteration fails.   *)
TakeLog ==
    LET log == Head(channel)
    IN  /\ iter.iterating /\ ~iter.fail
        /\ channel # << >>
        /\ channel' = Tail(channel)
        /\ IF log \in BadLogs
             THEN iter' = [iter EXCEPT !.fail = TRUE, !.iterating = FALSE] /\ UNCHANGED delivered
             ELSE delivered' = Append(delivered, log) /\ UNCHANGED iter
        /\ UNCHANGED <<found, unsent, subscribed>>

(* Faulty variant: the end of the subscription is the end.                 *)
StopAtEnd ==
    /\ iter.iterating /\ ~iter.done
    /\ ~subscribed
    /\ iter' = [iter EXCEPT !.done = TRUE, !.iterating = FALSE]
    /\ UNCHANGED <<found, unsent, channel, subscribed, delivered>>

(* The end of the subscription is there; also if a log is, too: select     *)
(* takes either.                                                           *)
LearnOfEnd ==
    /\ iter.iterating /\ ~iter.done
    /\ ~subscribed
    /\ iter' = [iter EXCEPT !.done = TRUE]
    /\ UNCHANGED <<found, unsent, channel, subscribed, delivered>>

(* Nothing is left.                                                        *)
NoMore ==
    /\ iter.iterating /\ iter.done
    /\ channel = << >>
    /\ iter' = [iter EXCEPT !.iterating = FALSE]
    /\ UNCHANGED <<found, unsent, channel, subscribed, delivered>>

(* Unsubscribe, after the loop, ends the goroutine.                        *)
CloseIterator ==
    /\ ~iter.iterating /\ subscribed
    /\ subscribed' = FALSE
    /\ UNCHANGED <<found, unsent, channel, iter, delivered>>

IterNext == SendLog \/ EndSubscription \/ TakeLog \/ LearnOfEnd \/ NoMore \/ CloseIterator

IterSpec == IterInit /\ [][IterNext]_iterVars

-----------------------------------------------------------------------------
(* Properties.                                                             *)

(* A range without an error has been read to its end: when Next has        *)
(* returned false and Error returns nil, every log found was delivered, in *)
(* order, also those that were still in the channel when the goroutine had *)
(* ended.  The watcher advances its cursor on this.                        *)
IterationComplete ==
    ~iter.iterating /\ ~iter.fail => delivered = found
=============================================================================
