------------------------------- MODULE Mailbox -------------------------------
(***************************************************************************)
(* The mailbox between actors, vmtrader/messaging/mailbox.py: many         *)
(* producers, one consumer, a cap, and a closing sentinel.                 *)
(*                                                                         *)
(* 'post' runs under a lock that other posts and 'close' respect, but the  *)
(* consumer takes without it, so a take can fall between a post's check,   *)
(* its put and its reading of the depth: these are separate steps here.    *)
(* An event is the pair of its producer and its number among that          *)
(* producer's posts; history variables record what producers were told.    *)
(***************************************************************************)
EXTENDS Integers, Sequences, FiniteSets, Functions

CONSTANTS Producers,
          maxsize,       \* the cap; zero means none
          MaxPosts       \* bound on the posts of each producer

ASSUME MailboxAssumption ==
    IsFiniteSet(Producers) /\ maxsize \in Nat /\ MaxPosts \in Nat

VARIABLES queue,         \* waiting events, and the sentinel
          closed,
          posted, dropped, high_water,   \* the counters
          step,          \* where each producer is in 'post'
          consumer,      \* "taking", or "ended" by the sentinel
          calls,         \* posts begun, per producer
          refused,       \* posts that raised MailboxClosed
          accepted,      \* events put on the queue, in order
          taken          \* events the consumer got, in order

vars == <<queue, closed, posted, dropped, high_water, step, consumer, calls,
          refused, accepted, taken>>

Sentinel == <<>>
Events == Producers \X (1..MaxPosts)
Event(p) == <<p, calls[p]>>
Unlocked == \A p \in Producers : step[p] = "idle"

(* The events waiting: all that is queued but the sentinel, which is there *)
(* from the close until the consumer meets it.                             *)
Waiting ==
    IF closed /\ consumer = "taking" THEN SubSeq(queue, 1, Len(queue) - 1)
                                     ELSE queue

Greater(m, n) == IF m > n THEN m ELSE n

Init ==
    /\ queue = <<>>
    /\ closed = FALSE
    /\ posted = 0 /\ dropped = 0 /\ high_water = 0
    /\ step = [p \in Producers |-> "idle"]
    /\ consumer = "taking"
    /\ calls = [p \in Producers |-> 0]
    /\ refused = 0
    /\ accepted = <<>> /\ taken = <<>>

Full == maxsize # 0 /\ Len(queue) >= maxsize

(* Mutant: an event dropped at the cap is not counted.                     *)
PostDropsSilently(p) ==
    /\ Unlocked /\ calls[p] < MaxPosts
    /\ calls' = [calls EXCEPT ![p] = @ + 1]
    /\ refused' = IF closed THEN refused + 1 ELSE refused
    /\ step' = IF closed \/ Full THEN step ELSE [step EXCEPT ![p] = "checked"]
    /\ UNCHANGED <<queue, closed, posted, dropped, high_water, consumer,
                   accepted, taken>>

(* post takes the lock and decides: refused, dropped, or to be put.        *)
Post(p) ==
    /\ Unlocked /\ calls[p] < MaxPosts
    /\ calls' = [calls EXCEPT ![p] = @ + 1]
    /\ refused' = IF closed THEN refused + 1 ELSE refused
    /\ dropped' = IF ~closed /\ Full THEN dropped + 1 ELSE dropped
    /\ step' = IF closed \/ Full THEN step ELSE [step EXCEPT ![p] = "checked"]
    /\ UNCHANGED <<queue, closed, posted, high_water, consumer, accepted, taken>>

Put(p) ==
    /\ step[p] = "checked"
    /\ queue' = Append(queue, Event(p))
    /\ accepted' = Append(accepted, Event(p))
    /\ step' = [step EXCEPT ![p] = "put"]
    /\ UNCHANGED <<closed, posted, dropped, high_water, consumer, calls, refused,
                   taken>>

(* The count, and the depth as it is by now; then the lock is released.    *)
Count(p) ==
    /\ step[p] = "put"
    /\ posted' = posted + 1
    /\ high_water' = Greater(Len(queue), high_water)
    /\ step' = [step EXCEPT ![p] = "idle"]
    /\ UNCHANGED <<queue, closed, dropped, consumer, calls, refused, accepted,
                   taken>>

(* Mutant: the sentinel overtakes the backlog.                             *)
CloseAtTheFront ==
    /\ Unlocked /\ ~closed
    /\ closed' = TRUE
    /\ queue' = <<Sentinel>> \o queue
    /\ UNCHANGED <<posted, dropped, high_water, step, consumer, calls, refused,
                   accepted, taken>>

(* Closing twice changes nothing; the first time the sentinel goes last.   *)
Close ==
    /\ Unlocked /\ ~closed
    /\ closed' = TRUE
    /\ queue' = Append(queue, Sentinel)
    /\ UNCHANGED <<posted, dropped, high_water, step, consumer, calls, refused,
                   accepted, taken>>

(* Mutant: the consumer takes the newest event first.                      *)
TakeNewest ==
    /\ consumer = "taking" /\ queue # <<>>
    /\ queue' = SubSeq(queue, 1, Len(queue) - 1)
    /\ IF queue[Len(queue)] = Sentinel
       THEN consumer' = "ended" /\ UNCHANGED taken
       ELSE taken' = Append(taken, queue[Len(queue)]) /\ UNCHANGED consumer
    /\ UNCHANGED <<closed, posted, dropped, high_water, step, calls, refused,
                   accepted>>

(* The consumer loop ends at the sentinel.                                 *)
Take ==
    /\ consumer = "taking" /\ queue # <<>>
    /\ queue' = Tail(queue)
    /\ IF Head(queue) = Sentinel
       THEN consumer' = "ended" /\ UNCHANGED taken
       ELSE taken' = Append(taken, Head(queue)) /\ UNCHANGED consumer
    /\ UNCHANGED <<closed, posted, dropped, high_water, step, calls, refused,
                   accepted>>

Producer(p) == Post(p) \/ Put(p) \/ Count(p)

Next == Close \/ Take \/ \E p \in Producers : Producer(p)

Spec == Init /\ [][Next]_vars

(* A post that holds the lock finishes, and the consumer keeps taking.     *)
FairSpec == /\ Spec
            /\ WF_vars(Take)
            /\ \A p \in Producers : WF_vars(Put(p) \/ Count(p))
-----------------------------------------------------------------------------
(* No accepted event is lost or overtaken: what the consumer got, followed *)
(* by what waits, is what was accepted, and the consumer is told to end    *)
(* only when it has got everything posted before the close ("None once the *)
(* mailbox is closed and everything posted before the close has been       *)
(* taken", take).                                                          *)
NothingLost ==
    /\ taken \o Waiting = accepted
    /\ consumer = "ended" => taken = accepted

(* When no post is in progress every call is accounted for exactly once:   *)
(* queued, dropped or refused ("dropped stays exact regardless").          *)
EveryPostAccountedFor ==
    /\ posted <= Len(accepted)
    /\ Unlocked => /\ posted = Len(accepted)
                   /\ SumFunction(calls) = posted + dropped + refused

(* An accepted event reaches the consumer, and after a close the consumer  *)
(* ends, whatever producers go on doing.                                   *)
EventuallyTaken ==
    /\ \A e \in Events : (\E i \in 1..Len(accepted) : accepted[i] = e)
                            ~> (\E i \in 1..Len(taken) : taken[i] = e)
    /\ closed ~> consumer = "ended"
=============================================================================
