--------------------------- MODULE ActorCycle_proofs ---------------------------
(***************************************************************************)
(* What one rebalance cycle guarantees, proved for a burst of any size and *)
(* for both modes: module ActorCycle's three safety invariants, and the    *)
(* half of CycleEnds that needs no fairness.                               *)
(***************************************************************************)
EXTENDS ActorCycle, SequenceTheorems, TLAPS

MainStates == {"begin", "post", "deciding", "carrying", "stop", "unwind", "join",
               "latch", "check", "drain", "settle", "exited", "raised"}

(* Where the main thread is once it has waited for the executor, and once  *)
(* it has closed the command lane (in threaded mode).                      *)
PastLatch == {"check", "drain", "carrying", "settle", "exited", "raised"}
PastJoin == PastLatch \cup {"latch"}

TypeInv ==
    /\ synchronous \in BOOLEAN /\ closed \in BOOLEAN /\ ended_by \in BOOLEAN
    /\ commands_refused \in BOOLEAN /\ overran \in BOOLEAN /\ traded \in BOOLEAN
    /\ main \in MainStates
    /\ executor \in {"unborn", "take", "deciding", "posting", "enqueue", "ended"}
    /\ decision \in {"none"} \cup Decisions
    /\ burst \in {"none", "begun", "done", "failed", "stopped"}
    /\ commands \in Nat /\ attempted \in Nat /\ completed \in Nat
    /\ sent \in 0..BurstSize

(* Synchronous mode uses neither the thread nor the command mailbox, and   *)
(* the decision is made inside the post.                                   *)
InlineInv ==
    synchronous =>
        /\ executor = "unborn" /\ commands = 0
        /\ decision = "none" <=> main \in {"begin", "post", "deciding"}
        /\ decision = "weights" <=> attempted = 1
        /\ decision = "stop" => main \in {"unwind", "raised"}

(* Threaded mode: the executor's mailbox holds the one RebalanceDue until  *)
(* it is taken, and the sentinel from the close until the loop ends.       *)
InboxInv ==
    ~synchronous =>
        /\ main \notin {"deciding", "unwind"}
        /\ executor = "unborn" <=> main = "begin"
        /\ main = "post" => executor = "take" /\ decision = "none"
        /\ closed <=> main \notin {"begin", "post", "stop"} \/ decision = "stop"
        /\ executor \in {"unborn", "deciding"} => decision = "none"
        /\ executor \in {"posting", "enqueue"} => decision = "weights"
        /\ executor = "ended" => closed /\ decision # "none"
        /\ main \in {"begin", "post"} => inbox = <<>>
        /\ main \notin {"begin", "post"} =>
               inbox = IF executor = "take" /\ decision = "none"
                       THEN IF closed THEN <<RebalanceDue, None>>
                                      ELSE <<RebalanceDue>>
                       ELSE IF closed /\ executor # "ended" THEN <<None>> ELSE <<>>

(* The join is a barrier unless it timed out, and the latch is behind it.  *)
BarrierInv ==
    /\ ended_by <=> ~synchronous /\ decision = "stop"
    /\ ~synchronous /\ commands_refused => main \in PastLatch
    /\ ~synchronous /\ main \in PastJoin /\ ~overran => executor = "ended"
    /\ ~synchronous /\ ~overran /\ main \in {"drain", "carrying", "settle", "exited"}
           => decision # "stop"

(* One decision is one command at most, and none gets lost on its way to   *)
(* the broker unless the strategy overran.                                 *)
CommandInv ==
    /\ commands + attempted <= 1
    /\ commands + attempted = 1 =>
           decision = "weights" /\ executor \notin {"posting", "enqueue"}
    /\ ~synchronous /\ ~overran /\ decision = "weights"
           /\ executor \in {"take", "ended"} => commands + attempted = 1
    /\ main \in {"settle", "exited"} /\ ~overran => commands = 0

BurstInv ==
    /\ burst = "none" <=> attempted = 0
    /\ burst = "begun" <=> main = "carrying"
    /\ burst = "stopped" => main \in {"unwind", "raised"}
    /\ burst = "done" => sent = BurstSize
    /\ completed = IF burst = "done" THEN 1 ELSE 0
    /\ main \in {"settle", "exited"} => (traded <=> completed > 0)
    /\ main \in {"unwind", "raised"} => decision = "stop" \/ burst = "stopped"

CycleInv ==
    TypeInv /\ InlineInv /\ InboxInv /\ BarrierInv /\ CommandInv /\ BurstInv
-----------------------------------------------------------------------------
(* A sentinel after one event: the mailbox never holds more.               *)
LEMMA AppendSecond ==
    ASSUME NEW S, NEW x \in S, NEW y \in S
    PROVE  Append(<<x>>, y) = <<x, y>>
<1> DEFINE a == Append(<<x>>, y)
           b == <<x, y>>
<1>1. a \in Seq(S) /\ b \in Seq(S)  OBVIOUS
<1>2. Len(a) = 2 /\ Len(b) = 2  OBVIOUS
<1>3. a[1] = x /\ a[2] = y  OBVIOUS
<1>4. b[1] = x /\ b[2] = y  OBVIOUS
<1> HIDE DEF a, b
<1>5. ASSUME NEW i \in 1..Len(a) PROVE a[i] = b[i]
  <2>1. i = 1 \/ i = 2  BY <1>2
  <2> QED  BY <2>1, <1>3, <1>4
<1>6. a = b  BY <1>1, <1>2, <1>5, SeqEqual
<1> QED  BY <1>6 DEF a, b

(* All that ever happens to it.                                            *)
LEMMA QueueFacts ==
    /\ Append(<<>>, RebalanceDue) = <<RebalanceDue>>
    /\ Append(<<>>, None) = <<None>>
    /\ Append(<<RebalanceDue>>, None) = <<RebalanceDue, None>>
    /\ Head(<<RebalanceDue>>) = RebalanceDue /\ Tail(<<RebalanceDue>>) = <<>>
    /\ Head(<<None>>) = None /\ Tail(<<None>>) = <<>>
    /\ Head(<<RebalanceDue, None>>) = RebalanceDue
    /\ Tail(<<RebalanceDue, None>>) = <<None>>
    /\ RebalanceDue # None
<1>1. Append(<<RebalanceDue>>, None) = <<RebalanceDue, None>>
  <2>1. RebalanceDue \in {RebalanceDue, None} /\ None \in {RebalanceDue, None}
    OBVIOUS
  <2> QED  BY <2>1, AppendSecond
<1> QED  BY <1>1 DEF RebalanceDue, None

(* A cycle begins in the invariant.                                        *)
LEMMA InitEstablishes == Init => CycleInv
<1> SUFFICES ASSUME Init PROVE CycleInv  OBVIOUS
<1>1. TypeInv
  <2>1. sent \in 0..BurstSize
    BY BurstAssumption DEF Init
  <2> QED  BY <2>1 DEF Init, TypeInv, MainStates
<1>2. InlineInv
  BY DEF Init, InlineInv
<1>3. InboxInv
  BY DEF Init, InboxInv
<1>4. BarrierInv
  BY DEF Init, BarrierInv, PastLatch, PastJoin
<1>5. CommandInv /\ BurstInv
  BY DEF Init, CommandInv, BurstInv
<1> QED  BY <1>1, <1>2, <1>3, <1>4, <1>5 DEF CycleInv

(* The main thread's steps: the wait for the executor ...                  *)
LEMMA BeginKeeps == ASSUME CycleInv, Begin PROVE CycleInv'
  BY DEF Begin, CycleInv, TypeInv, InlineInv, InboxInv, BarrierInv,
      CommandInv, BurstInv, MainStates, PastLatch, PastJoin, sessionVars,
      strategyVars, brokerVars

LEMMA PostEventKeeps == ASSUME CycleInv, PostEvent PROVE CycleInv'
<1>1. TypeInv' /\ InlineInv' /\ BarrierInv' /\ CommandInv' /\ BurstInv'
  BY DEF PostEvent, CycleInv, TypeInv, InlineInv, BarrierInv, CommandInv,
      BurstInv, MainStates, PastLatch, PastJoin, sessionVars, brokerVars
<1>2. InboxInv'
  BY DEF PostEvent, CycleInv, InboxInv, sessionVars
<1> QED  BY <1>1, <1>2 DEF CycleInv

LEMMA StopKeeps == ASSUME CycleInv, Stop PROVE CycleInv'
<1>1. TypeInv' /\ InlineInv' /\ BarrierInv' /\ CommandInv' /\ BurstInv'
  BY DEF Stop, CloseInbox, CycleInv, TypeInv, InlineInv, InboxInv,
      BarrierInv, CommandInv, BurstInv, MainStates, PastLatch, PastJoin,
      sessionVars, brokerVars
<1>2. InboxInv'
  BY QueueFacts DEF Stop, CloseInbox, CycleInv, InboxInv, sessionVars
<1> QED  BY <1>1, <1>2 DEF CycleInv

LEMMA JoinKeeps == ASSUME CycleInv, Join PROVE CycleInv'
  BY DEF Join, CycleInv, TypeInv, InlineInv, InboxInv, BarrierInv,
      CommandInv, BurstInv, MainStates, PastLatch, sessionVars, strategyVars,
      brokerVars

LEMMA JoinTimesOutKeeps == ASSUME CycleInv, JoinTimesOut PROVE CycleInv'
  BY DEF JoinTimesOut, CycleInv, TypeInv, InlineInv, InboxInv, BarrierInv,
      CommandInv, BurstInv, MainStates, PastLatch, strategyVars, brokerVars

LEMMA LatchKeeps == ASSUME CycleInv, Latch PROVE CycleInv'
  BY DEF Latch, CycleInv, TypeInv, InlineInv, InboxInv, BarrierInv,
      CommandInv, BurstInv, MainStates, PastLatch, PastJoin, strategyVars,
      brokerVars

LEMMA CheckEndedByKeeps == ASSUME CycleInv, CheckEndedBy PROVE CycleInv'
  BY DEF CheckEndedBy, CycleInv, TypeInv, InlineInv, InboxInv, BarrierInv,
      CommandInv, BurstInv, MainStates, PastLatch, PastJoin, sessionVars,
      strategyVars, brokerVars

(* ... carrying out what was decided ...                                   *)
LEMMA DecideInlineKeeps ==
    ASSUME NEW d \in Decisions, CycleInv, DecideInline(d) PROVE CycleInv'
  BY DEF DecideInline, TakeUp, CycleInv, TypeInv, InlineInv, InboxInv,
      BarrierInv, CommandInv, BurstInv, MainStates, Decisions, sessionVars

LEMMA DrainTakeKeeps == ASSUME CycleInv, DrainTake PROVE CycleInv'
  BY DEF DrainTake, TakeUp, CycleInv, TypeInv, InlineInv, InboxInv,
      BarrierInv, CommandInv, BurstInv, MainStates, PastLatch, PastJoin,
      sessionVars, strategyVars

LEMMA SubmitOneKeeps == ASSUME CycleInv, SubmitOne PROVE CycleInv'
  BY BurstAssumption DEF SubmitOne, CycleInv, TypeInv, InlineInv, InboxInv,
      BarrierInv, CommandInv, BurstInv, sessionVars, strategyVars

LEMMA BurstDoneKeeps == ASSUME CycleInv, BurstDone PROVE CycleInv'
  BY DEF BurstDone, AfterBurst, CycleInv, TypeInv, InlineInv, InboxInv,
      BarrierInv, CommandInv, BurstInv, MainStates, PastLatch, PastJoin,
      sessionVars, strategyVars

LEMMA BurstFailsKeeps == ASSUME CycleInv, BurstFails PROVE CycleInv'
  BY DEF BurstFails, AfterBurst, CycleInv, TypeInv, InlineInv, InboxInv,
      BarrierInv, CommandInv, BurstInv, MainStates, PastLatch, PastJoin,
      sessionVars, strategyVars

LEMMA BurstStopsKeeps == ASSUME CycleInv, BurstStops PROVE CycleInv'
  BY DEF BurstStops, CycleInv, TypeInv, InlineInv, InboxInv, BarrierInv,
      CommandInv, BurstInv, MainStates, PastLatch, PastJoin, sessionVars,
      strategyVars

LEMMA DrainEndsKeeps == ASSUME CycleInv, DrainEnds PROVE CycleInv'
  BY DEF DrainEnds, CycleInv, TypeInv, InlineInv, InboxInv, BarrierInv,
      CommandInv, BurstInv, MainStates, PastLatch, PastJoin, strategyVars,
      brokerVars

LEMMA SettleKeeps == ASSUME CycleInv, Settle PROVE CycleInv'
  BY DEF Settle, CycleInv, TypeInv, InlineInv, InboxInv, BarrierInv,
      CommandInv, BurstInv, MainStates, PastLatch, PastJoin, sessionVars,
      strategyVars, brokerVars

(* ... and the executor's.                                                 *)
LEMMA TakeKeeps == ASSUME CycleInv, Take PROVE CycleInv'
<1>1. TypeInv' /\ InlineInv' /\ BarrierInv' /\ CommandInv' /\ BurstInv'
  BY DEF Take, CycleInv, TypeInv, InlineInv, BarrierInv, CommandInv,
      BurstInv, sessionVars, brokerVars
<1>2. InboxInv'
  BY QueueFacts DEF Take, CycleInv, InboxInv, sessionVars
<1> QED  BY <1>1, <1>2 DEF CycleInv

LEMMA DecideKeeps ==
    ASSUME NEW d \in Decisions, CycleInv, Decide(d) PROVE CycleInv'
<1>1. TypeInv' /\ InlineInv'
  BY DEF Decide, CloseInbox, CycleInv, TypeInv, InlineInv, InboxInv, Decisions,
      sessionVars, brokerVars
<1>2. BarrierInv' /\ CommandInv' /\ BurstInv'
  BY DEF Decide, CycleInv, TypeInv, InlineInv, InboxInv, BarrierInv, CommandInv,
      BurstInv, Decisions, PastJoin, PastLatch, sessionVars, brokerVars
<1>3. InboxInv'
  BY QueueFacts DEF Decide, CloseInbox, CycleInv, InboxInv, Decisions,
      sessionVars
<1> QED  BY <1>1, <1>2, <1>3 DEF CycleInv

LEMMA PostCommandKeeps == ASSUME CycleInv, PostCommand PROVE CycleInv'
  BY DEF PostCommand, CycleInv, TypeInv, InlineInv, InboxInv, BarrierInv,
      CommandInv, BurstInv, PastJoin, sessionVars, strategyVars, brokerVars

LEMMA EnqueueKeeps == ASSUME CycleInv, Enqueue PROVE CycleInv'
  BY DEF Enqueue, CycleInv, TypeInv, InlineInv, InboxInv, BarrierInv,
      CommandInv, BurstInv, PastLatch, PastJoin, sessionVars, strategyVars
-----------------------------------------------------------------------------
(* The invariant is inductive: every step of either thread keeps it.       *)
LEMMA CycleInductive == CycleInv /\ [Next]_vars => CycleInv'
<1> SUFFICES ASSUME CycleInv, [Next]_vars PROVE CycleInv'  OBVIOUS
<1>1. CASE Begin \/ PostEvent \/ Stop \/ Join \/ JoinTimesOut \/ Latch \/ CheckEndedBy
  BY <1>1, BeginKeeps, PostEventKeeps, StopKeeps, JoinKeeps,
      JoinTimesOutKeeps, LatchKeeps, CheckEndedByKeeps
<1>2. CASE \E d \in Decisions : DecideInline(d)
  BY <1>2, DecideInlineKeeps
<1>3. CASE SubmitOne \/ BurstDone \/ BurstFails \/ BurstStops \/ DrainTake
           \/ DrainEnds \/ Settle
  BY <1>3, SubmitOneKeeps, BurstDoneKeeps, BurstFailsKeeps, BurstStopsKeeps,
      DrainTakeKeeps, DrainEndsKeeps, SettleKeeps
<1>4. CASE Take \/ PostCommand \/ Enqueue
  BY <1>4, TakeKeeps, PostCommandKeeps, EnqueueKeeps
<1>5. CASE \E d \in Decisions : Decide(d)
  BY <1>5, DecideKeeps
<1>6. CASE UNCHANGED vars
  BY <1>6 DEF vars, CycleInv, TypeInv, InlineInv, InboxInv, BarrierInv,
      CommandInv, BurstInv
<1> QED  BY <1>1, <1>2, <1>3, <1>4, <1>5, <1>6 DEF Next, Main, Engine, Executor

(* Every reachable state of a cycle, in either mode, satisfies it.         *)
LEMMA CycleInvariant == Spec => []CycleInv
  BY InitEstablishes, CycleInductive, PTL DEF Spec

(* Settlement starts only when the strategy has finished deciding and what *)
(* it decided has been carried out, unless it overran its budget: the join *)
(* in _decide_and_submit is a barrier, in either mode and whatever the     *)
(* interleaving of the two threads.                                        *)
THEOREM SettlementWaits == Spec => []SettledAfterDecision
<1>1. CycleInv => SettledAfterDecision
  BY DEF CycleInv, TypeInv, InlineInv, InboxInv, BarrierInv, CommandInv,
      BurstInv, PastLatch, PastJoin, SettledAfterDecision
<1> QED  BY CycleInvariant, <1>1, PTL

(* Only a stop raises out of the cycle, and neither a stop of the broker   *)
(* nor, within the budget, one raised on the strategy's own thread is      *)
(* swallowed on its way to the session (ended_by, ENDS_THE_CYCLE).         *)
THEOREM StopIsNotSwallowed == Spec => []StopReachesTheSession
<1>1. CycleInv => StopReachesTheSession
  BY DEF CycleInv, InlineInv, BarrierInv, BurstInv, StopReachesTheSession
<1> QED  BY CycleInvariant, <1>1, PTL

(* A cycle answers that it traded exactly when the whole burst was sent,   *)
(* for a burst of any size (size_and_submit: completed, not attempted).    *)
THEOREM TradedMeansCompleted == Spec => []TradedIsHonest
<1>1. CycleInv => TradedIsHonest
  BY DEF CycleInv, BurstInv, TradedIsHonest
<1> QED  BY CycleInvariant, <1>1, PTL
-------------------------------------------------------------------------------
(* Why the cycle ends: what CycleEnds needs besides fairness.              *)

(* The steps the main thread can still take, at most: it comes to the      *)
(* drain with the burst before it or behind it, and synchronously carries  *)
(* the burst out before it stops the executor.                             *)
StepsLeft ==
  CASE main \in {"exited", "raised"} -> 0
    [] main = "settle"   -> 1
    [] main = "drain"    -> IF burst = "none" THEN 4 + BurstSize ELSE 2
    [] main = "carrying" -> (IF synchronous THEN 9 + BurstSize ELSE 3) + (BurstSize - sent)
    [] main = "check"    -> 5 + BurstSize
    [] main = "latch"    -> 6 + BurstSize
    [] main = "join"     -> 7 + BurstSize
    [] main \in {"stop", "unwind"} -> 8 + BurstSize
    [] main = "deciding" -> 10 + 2 * BurstSize
    [] main = "post"     -> 11 + 2 * BurstSize
    [] main = "begin"    -> 12 + 2 * BurstSize

(* Every step of the main thread leaves it fewer, and no step of the       *)
(* executor's thread gives it one back.                                    *)
EndDrawsNearer ==
    [][/\ StepsLeft \in Nat
       /\ Main => StepsLeft' < StepsLeft
       /\ Executor => StepsLeft' = StepsLeft]_vars

(* A cycle is a bounded number of steps of the main thread, whatever the   *)
(* strategy's thread does meanwhile: a late command is one more round of   *)
(* the drain and never a second one, because one decision is one command   *)
(* at most (CommandInv).                                                   *)
THEOREM CycleIsBounded == Spec => EndDrawsNearer
<1>1. CycleInv /\ [Next]_vars =>
        [/\ StepsLeft \in Nat
         /\ Main => StepsLeft' < StepsLeft
         /\ Executor => StepsLeft' = StepsLeft]_vars
  <2> SUFFICES ASSUME CycleInv
               PROVE  /\ StepsLeft \in Nat
                      /\ Main => StepsLeft' < StepsLeft
                      /\ Executor => StepsLeft' = StepsLeft
    OBVIOUS
  <2>1. TypeInv /\ InlineInv /\ InboxInv /\ CommandInv /\ BurstInv
    BY DEF CycleInv
  <2>2. BurstSize \in Nat /\ BurstSize > 0 /\ sent \in 0..BurstSize /\ main \in MainStates
    BY <2>1, BurstAssumption DEF TypeInv
  <2>3. StepsLeft \in Nat
    BY <2>2 DEF StepsLeft, MainStates
  <2>4. ASSUME Executor PROVE StepsLeft' = StepsLeft
    <3>1. UNCHANGED <<main, burst, sent, synchronous>>
      BY <2>4 DEF Executor, Take, Decide, PostCommand, Enqueue, sessionVars, brokerVars
    <3> QED  BY <3>1 DEF StepsLeft
  <2>5. ASSUME Main PROVE StepsLeft' < StepsLeft
    <3>1. CASE Begin
      BY <2>2, <3>1 DEF Begin, StepsLeft
    <3>2. CASE PostEvent
      BY <2>2, <3>2 DEF PostEvent, StepsLeft
    <3>3. ASSUME NEW d \in Decisions, DecideInline(d) PROVE StepsLeft' < StepsLeft
      <4>1. synchronous /\ synchronous' = synchronous
        BY <2>1, <3>3 DEF DecideInline, InboxInv, TypeInv, sessionVars
      <4> QED  BY <2>2, <3>3, <4>1 DEF DecideInline, TakeUp, StepsLeft
    <3>4. CASE SubmitOne
      BY <2>2, <3>4 DEF SubmitOne, StepsLeft, sessionVars
    <3>5. CASE BurstDone \/ BurstFails \/ BurstStops
      BY <2>2, <3>5 DEF BurstDone, BurstFails, BurstStops, AfterBurst, StepsLeft, sessionVars
    <3>6. CASE Stop
      BY <2>2, <3>6 DEF Stop, StepsLeft
    <3>7. CASE Join \/ JoinTimesOut
      BY <2>2, <3>7 DEF Join, JoinTimesOut, StepsLeft
    <3>8. CASE Latch
      BY <2>2, <3>8 DEF Latch, StepsLeft
    <3>9. CASE CheckEndedBy
      BY <2>2, <3>9 DEF CheckEndedBy, StepsLeft, brokerVars
    <3>10. CASE DrainTake
      <4>1. burst = "none" /\ sent' = sent
        BY <2>1, <3>10 DEF DrainTake, TakeUp, CommandInv, BurstInv, TypeInv
      <4>2. ~synchronous /\ ~synchronous'
        BY <2>1, <3>10 DEF DrainTake, InlineInv, sessionVars
      <4> QED  BY <2>2, <3>10, <4>1, <4>2 DEF DrainTake, TakeUp, StepsLeft
    <3>11. CASE DrainEnds
      BY <2>2, <3>11 DEF DrainEnds, StepsLeft
    <3>12. CASE Settle
      BY <2>2, <3>12 DEF Settle, StepsLeft
    <3> QED  BY <2>5, <3>1, <3>2, <3>3, <3>4, <3>5, <3>6, <3>7, <3>8, <3>9, <3>10, <3>11,
                <3>12 DEF Main, Engine
  <2> QED  BY <2>3, <2>4, <2>5
<1> QED  BY <1>1, CycleInvariant, PTL DEF Spec, EndDrawsNearer
===============================================================================
