------------------------ MODULE TaskQueueWorker_proofs ------------------------
(***************************************************************************)
(* What the fill pump's thread promises, proved for any number of tasks    *)
(* and of restarts: module TaskQueueWorker's RunInOrder and AnswersAreTrue.*)
(* The last part is the half of CallsReturn that needs no fairness.        *)
(***************************************************************************)
EXTENDS TaskQueueWorker, SequenceTheorems, TLAPS

(* What the only thread that can be running has in its hand.               *)
Hand == IF thread = 0 THEN Idle ELSE holding[thread]

(* How many tasks have left the queue.                                     *)
Left == IF Hand \in Tasks THEN Len(ran) + 1 ELSE Len(ran)

TypeInv ==
    /\ queue \in Seq(0..MaxTasks) /\ ran \in Seq(Tasks)
    /\ unfinished \in Nat
    /\ starts \in 0..MaxStarts /\ thread \in 0..starts
    /\ alive \in SUBSET Threads
    /\ holding \in [Threads -> 0..MaxTasks + 2]
    /\ stop_called \in BOOLEAN /\ timed \in BOOLEAN
    /\ posted \in 0..MaxTasks /\ mark \in 0..posted
    /\ caller \in {"none", "join_tasks", "stop"}

(* There is one consumer at most, the thread whose reference is kept, and  *)
(* a call in progress has it.                                              *)
OneConsumerInv ==
    /\ alive \subseteq {thread} \ {0}
    /\ \A t \in Threads : t \notin alive => holding[t] = Idle
    /\ caller # "none" => thread # 0
    /\ caller = "stop" => stop_called

(* The history is in order, and goes on with the task in hand.             *)
HistoryInv ==
    /\ \A i \in 1..Len(ran) : ran[i] = i
    /\ Hand \in Tasks => Hand = Len(ran) + 1

(* The queue continues it: with no pill waiting ...                        *)
NoPill ==
    /\ stop_called => Left >= mark
    /\ Len(queue) = posted - Left
    /\ \A i \in 1..Len(queue) : queue[i] = Left + i

(* ... or with the pill behind the tasks posted before the stop and before *)
(* the ones posted since.                                                  *)
PillWaits ==
    /\ stop_called /\ Left <= mark
    /\ Len(queue) = posted - Left + 1
    /\ \A i \in 1..Len(queue) :
           queue[i] = IF i <= mark - Left THEN Left + i
                      ELSE IF i = mark - Left + 1 THEN Pill
                      ELSE Left + i - 1

QueueInv ==
    /\ Left <= posted
    /\ NoPill \/ PillWaits
    /\ Hand = Pill => NoPill /\ stop_called
    /\ thread # 0 /\ thread \notin alive => NoPill /\ stop_called

(* unfinished_tasks counts what waits and what is in hand.                 *)
CountInv == unfinished = Len(queue) + IF Hand = Idle THEN 0 ELSE 1

WorkerInv == TypeInv /\ OneConsumerInv /\ HistoryInv /\ QueueInv /\ CountInv
-----------------------------------------------------------------------------
(* A thread that is doing something is the one whose reference is kept.    *)
LEMMA LoopFacts ==
    ASSUME NEW t \in Threads, WorkerInv, holding[t] # Idle \/ t \in alive
    PROVE  t = thread /\ t \in alive /\ thread # 0 /\ Hand = holding[t]
  BY DEF WorkerInv, OneConsumerInv, Hand, Threads

(* A step that puts nothing in the queue and takes nothing out keeps what  *)
(* is said of it, if it neither ends the thread nor takes up the pill.     *)
LEMMA QueueFrame ==
    ASSUME QueueInv, UNCHANGED <<queue, posted, mark, stop_called>>, Left' = Left,
           Hand' = Pill => Hand = Pill,
           thread' # 0 /\ thread' \notin alive' => thread # 0 /\ thread \notin alive
    PROVE  QueueInv'
<1>1. NoPill => NoPill'
  BY DEF NoPill
<1>2. PillWaits => PillWaits'
  BY DEF PillWaits
<1> QED  BY <1>1, <1>2 DEF QueueInv

(* The worker begins in the invariant.                                     *)
LEMMA InitEstablishes == Init => WorkerInv
<1> SUFFICES ASSUME Init PROVE WorkerInv  OBVIOUS
<1>1. Hand = Idle /\ Left = 0 /\ Idle # Pill
  BY WorkerAssumption DEF Init, Hand, Left, Tasks, Idle, Pill
<1>2. TypeInv
  <2>1. holding \in [Threads -> 0..MaxTasks + 2]
    BY WorkerAssumption DEF Init, Idle
  <2>2. starts \in 0..MaxStarts /\ thread \in 0..starts /\ posted \in 0..MaxTasks
        /\ mark \in 0..posted /\ unfinished \in Nat
    BY WorkerAssumption DEF Init
  <2>3. queue \in Seq(0..MaxTasks) /\ ran \in Seq(Tasks)
    BY DEF Init
  <2>4. alive \in SUBSET Threads /\ caller \in {"none", "join_tasks", "stop"}
    BY DEF Init
  <2>5. stop_called \in BOOLEAN /\ timed \in BOOLEAN
    BY DEF Init
  <2> QED  BY <2>1, <2>2, <2>3, <2>4, <2>5 DEF TypeInv
<1>3. OneConsumerInv
  BY DEF Init, OneConsumerInv
<1>4. HistoryInv
  BY <1>1, WorkerAssumption DEF Init, HistoryInv, Tasks, Idle
<1>5. QueueInv
  BY <1>1 DEF Init, QueueInv, NoPill
<1>6. CountInv
  BY <1>1 DEF Init, CountInv
<1> QED  BY <1>2, <1>3, <1>4, <1>5, <1>6 DEF WorkerInv
-----------------------------------------------------------------------------
(* The caller's steps.                                                     *)

LEMMA startKeeps == ASSUME WorkerInv, start PROVE WorkerInv'
<1>1. Hand = Idle /\ Hand' = Idle
  BY WorkerAssumption DEF start, WorkerInv, OneConsumerInv, TypeInv, Hand,
     Threads
<1>2. Left' = Left /\ Idle # Pill
  BY <1>1, WorkerAssumption DEF start, Left, Idle, Pill
<1>3. TypeInv'
  BY WorkerAssumption DEF start, WorkerInv, TypeInv, Threads
<1>4. OneConsumerInv'
  BY WorkerAssumption DEF start, WorkerInv, OneConsumerInv, TypeInv
<1>5. HistoryInv' /\ CountInv'
  BY <1>1 DEF start, WorkerInv, HistoryInv, CountInv
<1>6. QueueInv'
  BY <1>1, <1>2, QueueFrame DEF start, WorkerInv
<1> QED  BY <1>3, <1>4, <1>5, <1>6 DEF WorkerInv

LEMMA post_taskKeeps == ASSUME WorkerInv, post_task PROVE WorkerInv'
<1>1. Hand' = Hand /\ Left' = Left
  BY DEF post_task, Hand, Left
<1>t. TypeInv /\ QueueInv
  BY DEF WorkerInv
<1>2. Left \in Nat /\ posted \in Nat /\ mark \in Nat /\ mark <= posted
  BY <1>t, WorkerAssumption DEF Left, TypeInv, Threads, Tasks, Pill, Idle, Done
<1>3. Len(queue') = Len(queue) + 1 /\ queue'[Len(queue) + 1] = posted + 1
      /\ \A i \in 1..Len(queue) : queue'[i] = queue[i]
  BY <1>t DEF post_task, TypeInv
<1>l. Len(queue) \in Nat
  BY <1>t DEF TypeInv
<1>n. posted' = posted + 1 /\ mark' = mark /\ stop_called' = stop_called
      /\ thread' = thread /\ alive' = alive
  BY DEF post_task
<1>4. NoPill => NoPill'
  BY <1>1, <1>2, <1>3, <1>l, <1>n DEF NoPill
<1>5. PillWaits => PillWaits'
  BY <1>1, <1>2, <1>3, <1>l, <1>n DEF PillWaits
<1>6. QueueInv'
  BY <1>1, <1>2, <1>4, <1>5, <1>n, <1>t DEF QueueInv
<1>7. TypeInv'
  BY WorkerAssumption DEF post_task, WorkerInv, TypeInv
<1>8. OneConsumerInv' /\ HistoryInv'
  BY <1>1 DEF post_task, WorkerInv, OneConsumerInv, HistoryInv
<1>9. CountInv'
  BY <1>1, <1>3, <1>l DEF post_task, WorkerInv, CountInv
<1> QED  BY <1>6, <1>7, <1>8, <1>9 DEF WorkerInv

(* Calling join_tasks, and returning from it or from a stop that timed     *)
(* out, leaves everything but the call as it is.                           *)
LEMMA WaitKeeps ==
    ASSUME WorkerInv, join_tasks \/ JoinDrained \/ JoinTimesOut \/ StopTimesOut
    PROVE  WorkerInv'
<1>1. /\ UNCHANGED <<loopVars, thread, stop_called, starts, posted, mark>>
      /\ timed' \in BOOLEAN /\ caller' \in {"none", "join_tasks"}
      /\ caller' # "none" => thread # 0
  BY DEF join_tasks, JoinDrained, JoinTimesOut, StopTimesOut, WorkerInv,
     TypeInv
<1>2. Hand' = Hand /\ Left' = Left
  BY <1>1 DEF Hand, Left, loopVars
<1>3. TypeInv'
  BY <1>1 DEF WorkerInv, TypeInv, loopVars
<1>4. OneConsumerInv'
  BY <1>1 DEF WorkerInv, OneConsumerInv, loopVars
<1>5. HistoryInv' /\ CountInv'
  BY <1>1, <1>2 DEF WorkerInv, HistoryInv, CountInv, loopVars
<1>6. QueueInv'
  BY <1>1, <1>2, QueueFrame DEF WorkerInv, loopVars
<1> QED  BY <1>3, <1>4, <1>5, <1>6 DEF WorkerInv

LEMMA stopKeeps == ASSUME WorkerInv, stop PROVE WorkerInv'
<1>1. TypeInv'
  <2>1. TypeInv
    BY DEF WorkerInv
  <2>2. queue' \in Seq(0..MaxTasks)
    <3>1. Pill \in 0..MaxTasks
      BY WorkerAssumption DEF Pill
    <3>2. queue' = queue \/ queue' = Append(queue, Pill)
      BY DEF stop
    <3>3. queue \in Seq(0..MaxTasks)
      BY <2>1 DEF TypeInv
    <3>4. Append(queue, Pill) \in Seq(0..MaxTasks)
      BY <3>1, <3>3, AppendProperties
    <3> QED  BY <3>2, <3>3, <3>4
  <2>3. unfinished' \in Nat /\ mark' \in 0..posted
    BY <2>1 DEF stop, TypeInv
  <2>4. caller' \in {"none", "join_tasks", "stop"}
        /\ timed' \in BOOLEAN /\ stop_called' \in BOOLEAN
    BY DEF stop
  <2> QED  BY <2>1, <2>2, <2>3, <2>4 DEF stop, TypeInv
<1>2. QueueInv'
  <2>1. Hand' = Hand /\ Left' = Left
    BY DEF stop, Hand, Left
  <2>t. TypeInv /\ QueueInv
    BY DEF WorkerInv
  <2>2. Left \in Nat /\ posted \in Nat /\ mark \in Nat /\ mark <= posted
    BY <2>t, WorkerAssumption DEF Left, TypeInv, Threads, Tasks, Pill, Idle, Done
  <2>n. posted' = posted /\ stop_called' /\ thread # 0
        /\ thread' = thread /\ alive' = alive
    BY DEF stop
  <2>3. CASE stop_called
    <3>1. mark' = mark /\ queue' = queue
      BY <2>3 DEF stop
    <3>2. NoPill => NoPill'
      BY <3>1, <2>1, <2>n, <2>3 DEF NoPill
    <3>3. PillWaits => PillWaits'
      BY <3>1, <2>1, <2>n, <2>3 DEF PillWaits
    <3> QED  BY <2>1, <2>n, <2>t, <3>2, <3>3 DEF QueueInv
  <2>4. CASE ~stop_called
    <3>1. mark' = posted /\ queue' = Append(queue, Pill)
      BY <2>4 DEF stop
    <3>2. NoPill /\ Hand # Pill /\ thread \in alive
      BY <2>4, <2>t, <2>n DEF QueueInv, PillWaits
    <3>3. Len(queue') = Len(queue) + 1 /\ queue'[Len(queue) + 1] = Pill
          /\ \A i \in 1..Len(queue) : queue'[i] = queue[i]
      BY <2>t, <3>1 DEF TypeInv
    <3>4. PillWaits'
      BY <2>1, <2>2, <2>n, <3>1, <3>2, <3>3, <2>t DEF PillWaits, NoPill, QueueInv
    <3> QED  BY <2>1, <2>n, <2>t, <3>1, <3>2, <3>4 DEF QueueInv
  <2> QED  BY <2>3, <2>4
<1>3. Hand' = Hand
  BY DEF stop, Hand
<1>4. OneConsumerInv' /\ HistoryInv'
  BY <1>3 DEF stop, WorkerInv, OneConsumerInv, HistoryInv
<1>5. CountInv'
  BY <1>3 DEF stop, WorkerInv, TypeInv, CountInv
<1> QED  BY <1>1, <1>2, <1>4, <1>5 DEF WorkerInv

LEMMA StopEndsKeeps == ASSUME WorkerInv, StopEnds PROVE WorkerInv'
<1>1. Hand = Idle /\ Hand' = Idle /\ alive = {}
  <2>1. thread = 0 \/ thread \in Threads
    BY WorkerAssumption DEF WorkerInv, TypeInv, Threads
  <2> QED  BY <2>1 DEF StopEnds, WorkerInv, OneConsumerInv, Hand
<1>2. Left' = Left
  BY <1>1 DEF StopEnds, Left, loopVars
<1>3. TypeInv'
  BY DEF StopEnds, WorkerInv, TypeInv, loopVars
<1>4. OneConsumerInv'
  BY <1>1 DEF StopEnds, WorkerInv, OneConsumerInv, loopVars
<1>5. HistoryInv' /\ CountInv'
  BY <1>1 DEF StopEnds, WorkerInv, HistoryInv, CountInv, loopVars
<1>6. QueueInv'
  BY <1>1, <1>2, QueueFrame DEF StopEnds, WorkerInv, loopVars
<1> QED  BY <1>3, <1>4, <1>5, <1>6 DEF WorkerInv
-----------------------------------------------------------------------------
(* The thread's steps.                                                     *)

LEMMA GetKeeps == ASSUME NEW t \in Threads, WorkerInv, Get(t) PROVE WorkerInv'
<1>c. TypeInv' /\ HistoryInv' /\ QueueInv'
  <2>t. TypeInv /\ QueueInv /\ HistoryInv
    BY DEF WorkerInv
  <2>1. t = thread /\ t \in alive /\ thread # 0 /\ Hand = Idle
    BY LoopFacts DEF Get
  <2>2. Left = Len(ran) /\ Left \in Nat
    BY <2>t, <2>1, WorkerAssumption DEF Left, TypeInv, Threads, Tasks, Pill,
       Idle, Done
  <2>3. Hand' = Head(queue)
    BY <2>t, <2>1 DEF Get, callVars, Hand, TypeInv
  <2>4. queue \in Seq(0..MaxTasks) /\ queue # <<>> /\ queue' = Tail(queue)
    BY <2>t DEF Get, TypeInv
  <2>5. Len(queue) \in Nat /\ Len(queue) >= 1 /\ Len(queue') = Len(queue) - 1
        /\ Head(queue) = queue[1] /\ Head(queue) \in 0..MaxTasks
    <3>1. Len(queue) \in Nat /\ Len(queue) >= 1
      BY <2>4
    <3>2. Len(Tail(queue)) = Len(queue) - 1
      BY <2>4
    <3>3. queue[1] \in 0..MaxTasks
      BY <2>4, <3>1, WorkerAssumption
    <3> QED  BY <3>1, <3>2, <3>3, <2>4
  <2>s. ASSUME NEW i \in 1..Len(queue')
        PROVE  queue'[i] = queue[i + 1] /\ i \in Nat /\ i >= 1
               /\ i + 1 \in 1..Len(queue)
    BY <2>4, <2>5
  <2>n. posted' = posted /\ mark' = mark /\ stop_called' = stop_called
        /\ ran' = ran /\ thread' = thread /\ alive' = alive
    BY DEF Get, callVars
  <2>6. posted \in Nat /\ mark \in Nat /\ mark <= posted /\ posted <= MaxTasks
    BY <2>t, WorkerAssumption DEF TypeInv
  <2>7. TypeInv'
    <3>1. queue' \in Seq(0..MaxTasks)
      BY <2>4
    <3>2. holding' \in [Threads -> 0..MaxTasks + 2]
      BY <2>5, <2>t, WorkerAssumption DEF Get, TypeInv
    <3> QED  BY <3>1, <3>2, <2>t DEF Get, TypeInv, callVars
  <2>8. CASE NoPill
    <3>1. Hand' = Left + 1 /\ Hand' \in Tasks
      BY <2>8, <2>2, <2>3, <2>5, <2>6, WorkerAssumption DEF NoPill, Tasks
    <3>2. Left' = Left + 1
      BY <3>1, <2>2, <2>n DEF Left
    <3>3. NoPill'
      <4>1. ASSUME NEW i \in 1..Len(queue')
            PROVE  queue'[i] = Left' + i
        BY <2>8, <2>2, <3>2, <2>s, <2>6 DEF NoPill
      <4>2. Len(queue') = posted' - Left'
        <5>1. Len(queue) = posted - Left  BY <2>8 DEF NoPill
        <5> QED  BY <5>1, <2>2, <3>2, <2>5, <2>6, <2>n
      <4>3. stop_called' => Left' >= mark'
        BY <2>8, <2>2, <3>2, <2>6, <2>n DEF NoPill
      <4> QED  BY <4>1, <4>2, <4>3, <2>n, Zenon DEF NoPill
    <3>4. HistoryInv'
      BY <3>1, <2>2, <2>t, <2>n DEF HistoryInv
    <3>5. Left' <= posted'
      BY <3>2, <2>2, <2>5, <2>6, <2>8, <2>n DEF NoPill
    <3>6. Hand' # Pill
      BY <3>1, WorkerAssumption DEF Tasks, Pill
    <3> QED  BY <2>7, <3>3, <3>4, <3>5, <3>6, <2>1, <2>n DEF QueueInv
  <2>9. CASE PillWaits /\ Left = mark
    <3>1. Hand' = Pill /\ Hand' \notin Tasks
      BY <2>9, <2>2, <2>3, <2>5, <2>6, WorkerAssumption DEF PillWaits, Tasks, Pill
    <3>2. Left' = Left
      BY <3>1, <2>2, <2>n DEF Left
    <3>3. NoPill'
      <4>1. ASSUME NEW i \in 1..Len(queue')
            PROVE  queue'[i] = Left' + i
        BY <2>9, <2>2, <3>2, <2>s, <2>6 DEF NoPill, PillWaits
      <4>2. Len(queue') = posted' - Left'
        BY <2>9, <2>2, <3>2, <2>5, <2>6, <2>n DEF NoPill, PillWaits
      <4>3. stop_called' => Left' >= mark'
        BY <2>9, <2>2, <3>2, <2>6, <2>n DEF NoPill, PillWaits
      <4> QED  BY <4>1, <4>2, <4>3, <2>n, Zenon DEF NoPill
    <3>4. HistoryInv'
      BY <3>1, <2>2, <2>t, <2>n DEF HistoryInv
    <3> QED  BY <2>7, <3>2, <3>3, <3>4, <2>1, <2>9, <2>n, <2>t DEF QueueInv, PillWaits
  <2>10. CASE PillWaits /\ Left # mark
    <3>1. Hand' = Left + 1 /\ Hand' \in Tasks
      BY <2>10, <2>2, <2>3, <2>5, <2>6, WorkerAssumption DEF PillWaits, Tasks
    <3>2. Left' = Left + 1
      BY <3>1, <2>2, <2>n DEF Left
    <3>3. PillWaits'
      <4>1. ASSUME NEW i \in 1..Len(queue')
            PROVE  queue'[i] = IF i <= mark - Left' THEN Left' + i
                       ELSE IF i = mark - Left' + 1 THEN Pill
                       ELSE Left' + i - 1
        <5>1. queue'[i] = queue[i + 1] /\ i \in Nat /\ i >= 1
              /\ i + 1 \in 1..Len(queue)
          BY <2>s
        <5>2. queue[i + 1] = IF i + 1 <= mark - Left THEN Left + (i + 1)
                             ELSE IF i + 1 = mark - Left + 1 THEN Pill
                             ELSE Left + (i + 1) - 1
          BY <2>10, <5>1 DEF PillWaits
        <5>3. /\ i + 1 <= mark - Left <=> i <= mark - Left'
              /\ i + 1 = mark - Left + 1 <=> i = mark - Left' + 1
              /\ Left + (i + 1) = Left' + i /\ Left + (i + 1) - 1 = Left' + i - 1
          BY <5>1, <2>2, <2>6, <3>2
        <5> QED  BY <5>1, <5>2, <5>3, Zenon
      <4>2. Len(queue') = posted' - Left' + 1
        <5>1. Len(queue) = posted - Left + 1  BY <2>10 DEF PillWaits
        <5> QED  BY <5>1, <2>2, <3>2, <2>5, <2>6, <2>n
      <4>3. stop_called' /\ Left' <= mark'
        BY <2>10, <2>2, <3>2, <2>6, <2>n DEF PillWaits
      <4> QED  BY <4>1, <4>2, <4>3, <2>n, Zenon DEF PillWaits
    <3>4. HistoryInv'
      BY <3>1, <2>2, <2>t, <2>n DEF HistoryInv
    <3>5. Left' <= posted'
      BY <3>2, <2>2, <2>5, <2>6, <2>10, <2>n DEF PillWaits
    <3>6. Hand' # Pill
      BY <3>1, WorkerAssumption DEF Tasks, Pill
    <3> QED  BY <2>7, <3>3, <3>4, <3>5, <3>6, <2>1, <2>n DEF QueueInv
  <2> QED  BY <2>8, <2>9, <2>10, <2>t DEF QueueInv
<1>d. OneConsumerInv'
  BY DEF Get, callVars, WorkerInv, OneConsumerInv, TypeInv
<1>e. CountInv'
  <2>1. t = thread /\ thread # 0 /\ Hand = Idle
    BY LoopFacts DEF Get
  <2>2. queue \in Seq(0..MaxTasks) /\ queue # <<>> /\ queue' = Tail(queue)
        /\ unfinished' = unfinished
    BY DEF Get, WorkerInv, TypeInv
  <2>3. Len(queue) \in Nat /\ Len(queue') = Len(queue) - 1 /\ Head(queue) \in 0..MaxTasks
    <3>1. Len(queue) \in Nat /\ Len(queue) >= 1
      BY <2>2
    <3>2. Len(Tail(queue)) = Len(queue) - 1
      BY <2>2
    <3>3. Head(queue) = queue[1] /\ queue[1] \in 0..MaxTasks
      BY <2>2, <3>1, WorkerAssumption
    <3> QED  BY <2>2, <3>1, <3>2, <3>3
  <2>4. Hand' = Head(queue)
    BY <2>1 DEF Get, callVars, Hand, WorkerInv, TypeInv
  <2>5. Hand' # Idle
    BY <2>3, <2>4, WorkerAssumption DEF Idle
  <2> QED  BY <2>1, <2>2, <2>3, <2>5 DEF CountInv, WorkerInv
<1> QED  BY <1>c, <1>d, <1>e DEF WorkerInv

LEMMA RunKeeps == ASSUME NEW t \in Threads, WorkerInv, Run(t) PROVE WorkerInv'
<1>t. TypeInv /\ QueueInv /\ HistoryInv /\ OneConsumerInv
  BY DEF WorkerInv
<1>0. holding[t] # Idle
  BY WorkerAssumption DEF Run, Tasks, Idle
<1>1. t = thread /\ t \in alive /\ thread # 0 /\ Hand = holding[t]
  BY <1>0, LoopFacts
<1>2. Hand \in Tasks /\ Hand = Len(ran) + 1
  BY <1>1, <1>t DEF Run, HistoryInv
<1>3. Hand' = Done /\ Done \notin Tasks /\ Done # Pill
  BY <1>t, <1>1, WorkerAssumption DEF Run, callVars, Hand, TypeInv, Done,
     Tasks, Pill
<1>4. ran \in Seq(Tasks) /\ ran' = Append(ran, Len(ran) + 1)
  BY <1>t, <1>1, <1>2 DEF Run, TypeInv
<1>5. Len(ran') = Len(ran) + 1 /\ Len(ran) \in Nat
      /\ ran'[Len(ran) + 1] = Len(ran) + 1
      /\ \A i \in 1..Len(ran) : ran'[i] = ran[i]
  BY <1>4, <1>2
<1>6. Left' = Left
  BY <1>2, <1>3, <1>5 DEF Left
<1>n. posted' = posted /\ mark' = mark /\ stop_called' = stop_called
      /\ thread' = thread /\ alive' = alive /\ queue' = queue
  BY DEF Run, callVars
<1>7. HistoryInv'
  BY <1>t, <1>3, <1>5 DEF HistoryInv
<1>8. QueueInv'
  BY <1>1, <1>3, <1>6, <1>n, <1>t, QueueFrame
<1>9. OneConsumerInv'
  BY <1>1, <1>t DEF OneConsumerInv, Run, callVars, TypeInv
<1>10. TypeInv'
  BY <1>t, WorkerAssumption DEF Run, callVars, TypeInv, Done, Tasks
<1>11. CountInv'
  BY <1>0, <1>1, <1>3, WorkerAssumption DEF Run, callVars, WorkerInv,
     CountInv, Done, Idle
<1> QED  BY <1>7, <1>8, <1>9, <1>10, <1>11 DEF WorkerInv

LEMMA TaskDoneKeeps ==
    ASSUME NEW t \in Threads, WorkerInv, TaskDone(t) PROVE WorkerInv'
<1>t. TypeInv /\ QueueInv
  BY DEF WorkerInv
<1>0. holding[t] # Idle
  BY WorkerAssumption DEF TaskDone, Done, Idle
<1>1. t = thread /\ t \in alive /\ thread # 0 /\ Hand = Done
  BY <1>0, LoopFacts DEF TaskDone
<1>2. Hand' = Idle /\ Idle \notin Tasks /\ Done \notin Tasks /\ Idle # Pill
  BY <1>t, <1>1, WorkerAssumption DEF TaskDone, callVars, Hand, TypeInv, Done,
     Idle, Tasks, Pill
<1>3. Left' = Left
  BY <1>1, <1>2 DEF TaskDone, callVars, Left
<1>4. QueueInv'
  BY <1>1, <1>2, <1>3, <1>t, QueueFrame DEF TaskDone, callVars
<1>5. OneConsumerInv' /\ HistoryInv'
  BY <1>1, <1>2 DEF TaskDone, callVars, WorkerInv, OneConsumerInv, TypeInv,
     HistoryInv
<1>6. TypeInv' /\ CountInv'
  BY <1>0, <1>1, <1>2, <1>t, WorkerAssumption DEF TaskDone, callVars,
     WorkerInv, TypeInv, CountInv, Done, Idle
<1> QED  BY <1>4, <1>5, <1>6 DEF WorkerInv

LEMMA EndLoopKeeps ==
    ASSUME NEW t \in Threads, WorkerInv, EndLoop(t) PROVE WorkerInv'
<1>t. TypeInv /\ QueueInv
  BY DEF WorkerInv
<1>0. holding[t] # Idle
  BY WorkerAssumption DEF EndLoop, Pill, Idle
<1>1. t = thread /\ t \in alive /\ thread # 0 /\ Hand = Pill
  BY <1>0, LoopFacts DEF EndLoop
<1>2. Hand' = Idle /\ Idle \notin Tasks /\ Pill \notin Tasks /\ Idle # Pill
  BY <1>t, <1>1, WorkerAssumption DEF EndLoop, callVars, Hand, TypeInv, Idle,
     Tasks, Pill
<1>3. Left' = Left
  BY <1>1, <1>2 DEF EndLoop, callVars, Left
<1>4. NoPill /\ stop_called
  BY <1>1, <1>t DEF QueueInv
<1>5. NoPill' /\ stop_called'
  BY <1>3, <1>4 DEF NoPill, EndLoop, callVars
<1>6. QueueInv'
  BY <1>2, <1>3, <1>5, <1>t DEF QueueInv, EndLoop, callVars
<1>7. OneConsumerInv' /\ HistoryInv'
  BY <1>1, <1>2 DEF EndLoop, callVars, WorkerInv, OneConsumerInv, TypeInv,
     HistoryInv
<1>8. TypeInv' /\ CountInv'
  BY <1>0, <1>1, <1>2, <1>t, WorkerAssumption DEF EndLoop, callVars,
     WorkerInv, TypeInv, CountInv, Idle
<1> QED  BY <1>6, <1>7, <1>8 DEF WorkerInv
-----------------------------------------------------------------------------
(* The invariant is inductive.                                             *)
LEMMA WorkerInductive == WorkerInv /\ [Next]_vars => WorkerInv'
<1> SUFFICES ASSUME WorkerInv, [Next]_vars PROVE WorkerInv'  OBVIOUS
<1>1. CASE start \/ post_task \/ stop \/ StopEnds
  BY <1>1, startKeeps, post_taskKeeps, stopKeeps, StopEndsKeeps
<1>2. CASE join_tasks \/ JoinDrained \/ JoinTimesOut \/ StopTimesOut
  BY <1>2, WaitKeeps
<1>3. CASE \E t \in Threads : Loop(t)
  BY <1>3, GetKeeps, RunKeeps, TaskDoneKeeps, EndLoopKeeps DEF Loop
<1>4. CASE UNCHANGED vars
  <2>1. Hand' = Hand /\ Left' = Left
    BY <1>4 DEF vars, Hand, Left
  <2>2. QueueInv'
    BY <1>4, <2>1, QueueFrame DEF vars, WorkerInv
  <2> QED  BY <1>4, <2>1, <2>2 DEF vars, WorkerInv, TypeInv, OneConsumerInv,
                                   HistoryInv, CountInv
<1> QED  BY <1>1, <1>2, <1>3, <1>4 DEF Next, Caller, Returns

(* Every reachable state satisfies it.                                     *)
LEMMA WorkerInvariant == Spec => []WorkerInv
  BY InitEstablishes, WorkerInductive, PTL DEF Spec

(* Tasks run once each and in the order they were posted, however many     *)
(* timeouts, stops and restarts come between: there is never a second      *)
(* consumer, because stop keeps the reference of a thread that outlives    *)
(* the timeout and start does nothing while it is kept.                    *)
THEOREM TasksRunInOrder == Spec => []RunInOrder
<1>1. WorkerInv => RunInOrder
  <2> SUFFICES ASSUME WorkerInv PROVE RunInOrder  OBVIOUS
  <2>1. ASSUME NEW t \in Threads, holding[t] \in Tasks PROVE holding[t] = Len(ran) + 1
    <3>1. holding[t] # Idle
      BY <2>1, WorkerAssumption DEF Tasks, Idle
    <3>2. Hand = holding[t]
      BY <3>1, LoopFacts
    <3> QED  BY <2>1, <3>2 DEF WorkerInv, HistoryInv
  <2> QED  BY <2>1 DEF RunInOrder, WorkerInv, HistoryInv
<1> QED  BY WorkerInvariant, <1>1, PTL

(* When join_tasks answers True everything posted has run, the pill or not *)
(* and whatever is in the thread's hand; when stop does, everything posted *)
(* before the pill has.                                                    *)
THEOREM AnswersHold == Spec => AnswersAreTrue
<1> DEFINE Answer == /\ JoinDrained => Len(ran) = posted
                     /\ StopEnds => Len(ran) >= mark
<1>1. WorkerInv /\ [Next]_vars => [Answer]_vars
  <2> SUFFICES ASSUME WorkerInv PROVE Answer  OBVIOUS
  <2>1. TypeInv /\ QueueInv /\ CountInv /\ OneConsumerInv
    BY DEF WorkerInv
  <2>2. ASSUME JoinDrained PROVE Len(ran) = posted
    <3>1. Len(queue) = 0 /\ Hand = Idle
      BY <2>1, <2>2 DEF JoinDrained, CountInv, TypeInv
    <3>2. Left = Len(ran) /\ Left \in Nat /\ posted \in Nat
          /\ mark \in Nat /\ mark <= posted
      BY <3>1, <2>1, WorkerAssumption DEF Left, TypeInv, Tasks, Idle
    <3>3. Len(queue) = posted - Left
      BY <2>1, <3>1, <3>2 DEF QueueInv, NoPill, PillWaits
    <3> QED  BY <3>1, <3>2, <3>3
  <2>3. ASSUME StopEnds PROVE Len(ran) >= mark
    <3>1. thread # 0 /\ thread \notin alive /\ thread \in Threads
      BY <2>1, <2>3, WorkerAssumption DEF StopEnds, OneConsumerInv, TypeInv,
         Threads
    <3>2. NoPill /\ stop_called
      BY <2>1, <3>1 DEF QueueInv
    <3>3. Left = Len(ran)
      BY <2>1, <3>1, WorkerAssumption DEF OneConsumerInv, Left, Hand, Tasks, Idle
    <3> QED  BY <3>2, <3>3 DEF NoPill
  <2> QED  BY <2>2, <2>3
<1> QED  BY WorkerInvariant, <1>1, PTL DEF Spec, AnswersAreTrue
-----------------------------------------------------------------------------
(* Why a wait ends: what CallsReturn needs besides fairness.               *)

(* The call in progress may answer, or the thread has something to do.     *)
MayReturn == \/ caller = "join_tasks" /\ unfinished = 0
             \/ caller = "stop" /\ thread \notin alive
MayWork == thread \in alive /\ (Hand # Idle \/ queue # <<>>)

(* Used as settle uses it, nobody waits for somebody who waits: a call     *)
(* that cannot answer yet has a running thread with work before it.        *)
NobodyWaitsInVain == caller # "none" /\ ~any_use => MayReturn \/ MayWork

(* What is left to do: to take a task, to run it and to mark it done; to   *)
(* take the pill and to end.                                               *)
Steps(h) == IF h = Idle THEN 0 ELSE IF h \in Tasks THEN 2 ELSE 1
WorkLeft == 3 * Len(queue) + Steps(Hand)

(* While a call waits every step of the thread leaves less to do, however  *)
(* the class is used.                                                      *)
WaitsShorten ==
    [][caller # "none" /\ caller' # "none" => WorkLeft \in Nat /\ WorkLeft' < WorkLeft]_vars

(* Under settle's use there is one start, nothing is posted after the      *)
(* pill, and a thread that was told to stop has the pill before it.        *)
PillAhead == Hand = Pill \/ \E i \in 1..Len(queue) : queue[i] = Pill
UseInv ==
    ~any_use =>
      /\ starts = 0 => ~stop_called
      /\ stop_called => mark = posted
      /\ stop_called /\ thread \in alive => PillAhead

(* The use settle makes keeps the pill before the thread.                  *)
LEMMA UseInductive == WorkerInv /\ UseInv /\ [Next]_vars => UseInv'
<1> SUFFICES ASSUME WorkerInv, UseInv, [Next]_vars, ~any_use' PROVE UseInv'
  BY DEF UseInv
<1>0. ~any_use /\ any_use' = any_use
  BY DEF Next, Caller, Returns, Loop, vars, loopVars, callVars, start, post_task,
     join_tasks, JoinDrained, JoinTimesOut, stop, StopEnds, StopTimesOut, Get, Run,
     TaskDone, EndLoop
<1>1. TypeInv /\ OneConsumerInv
  BY DEF WorkerInv
<1>2. CASE start
  BY <1>0, <1>2 DEF UseInv, start
<1>3. CASE post_task
  BY <1>0, <1>3 DEF UseInv, post_task
<1>4. CASE stop
  <2>1. UNCHANGED Hand /\ thread \in 1..starts
    BY <1>1, <1>4 DEF stop, Hand, TypeInv
  <2>2. CASE stop_called
    BY <1>0, <1>4, <2>1, <2>2 DEF UseInv, stop, PillAhead
  <2>3. CASE ~stop_called
    <3>1. Len(queue') = Len(queue) + 1 /\ queue'[Len(queue) + 1] = Pill
          /\ Len(queue) \in Nat
      BY <1>1, <1>4, <2>3 DEF stop, TypeInv
    <3>2. PillAhead'
      <4>1. Len(queue) + 1 \in 1..Len(queue')
        BY <3>1
      <4> QED  BY <3>1, <4>1 DEF PillAhead
    <3>3. starts' # 0 /\ mark' = posted'
      BY <1>1, <1>4, <2>1, <2>3 DEF stop, TypeInv
    <3> QED  BY <3>2, <3>3 DEF UseInv
  <2> QED  BY <2>2, <2>3
<1>5. CASE StopEnds
  BY <1>0, <1>1, <1>5 DEF UseInv, StopEnds, loopVars, OneConsumerInv
<1>6. CASE join_tasks \/ JoinDrained \/ JoinTimesOut \/ StopTimesOut \/ UNCHANGED vars
  <2>1. UNCHANGED <<queue, holding, thread, alive, starts, stop_called, mark, posted>>
    BY <1>6 DEF join_tasks, JoinDrained, JoinTimesOut, StopTimesOut, vars, loopVars
  <2> QED  BY <1>0, <2>1 DEF UseInv, PillAhead, Hand
<1>7. ASSUME NEW t \in Threads, Loop(t) PROVE UseInv'
  <2>1. holding[t] # Idle \/ t \in alive
    BY <1>7, WorkerAssumption DEF Loop, Get, Run, TaskDone, EndLoop, Tasks, Idle, Done,
       Pill
  <2>2. t = thread /\ t \in alive /\ thread # 0 /\ Hand = holding[t]
    BY <2>1, LoopFacts
  <2>3. UNCHANGED <<thread, starts, stop_called, mark, posted>>
    BY <1>7 DEF Loop, Get, Run, TaskDone, EndLoop, callVars
  <2>4. ASSUME stop_called, thread \in alive' PROVE PillAhead'
    <3>0. PillAhead
      BY <1>0, <2>2, <2>4 DEF UseInv
    <3>1. Hand' = holding'[t]
      BY <2>2, <2>3 DEF Hand
    <3>2. CASE Get(t)
      <4>1. queue # <<>> /\ queue' = Tail(queue) /\ Hand' = Head(queue)
        BY <1>1, <3>1, <3>2 DEF Get, TypeInv
      <4>2. Hand = Idle /\ Idle # Pill
        BY <2>2, <3>2, WorkerAssumption DEF Get, Idle, Pill
      <4>3. PICK i \in 1..Len(queue) : queue[i] = Pill
        BY <3>0, <4>2 DEF PillAhead
      <4>4. CASE i = 1
        BY <4>1, <4>3, <4>4 DEF PillAhead
      <4>5. CASE i # 1
        <5>1. i - 1 \in 1..Len(queue') /\ queue'[i - 1] = queue[i]
          BY <1>1, <4>1, <4>5 DEF TypeInv
        <5> QED  BY <4>3, <5>1 DEF PillAhead
      <4> QED  BY <4>4, <4>5
    <3>3. CASE Run(t) \/ TaskDone(t)
      <4>1. queue' = queue /\ Hand # Pill
        BY <2>2, <3>3, WorkerAssumption DEF Run, TaskDone, Tasks, Done, Pill
      <4> QED  BY <3>0, <4>1 DEF PillAhead
    <3>4. CASE EndLoop(t)
      BY <2>2, <2>4, <3>4 DEF EndLoop
    <3> QED  BY <1>7, <3>2, <3>3, <3>4 DEF Loop
  <2> QED  BY <1>0, <2>3, <2>4 DEF UseInv
<1> QED  BY <1>2, <1>3, <1>4, <1>5, <1>6, <1>7 DEF Next, Caller, Returns

(* Used as settle uses it, the worker never leaves its caller waiting for  *)
(* nothing: a barrier that cannot answer yet, and a stop whose thread has  *)
(* not ended, have a running thread with something in hand or in its       *)
(* queue.  UseInv is what the class alone does not give: the second thread *)
(* of a restarted worker gets no pill.                                     *)
THEOREM WaitsAreNotInVain == Spec => []NobodyWaitsInVain
<1>1. Init => UseInv
  BY DEF Init, UseInv
<1>2. WorkerInv /\ UseInv => NobodyWaitsInVain
  <2> SUFFICES ASSUME WorkerInv, UseInv, caller # "none", ~any_use
               PROVE  MayReturn \/ MayWork
    BY DEF NobodyWaitsInVain
  <2>1. TypeInv /\ OneConsumerInv /\ QueueInv /\ CountInv
    BY DEF WorkerInv
  <2>2. thread # 0 /\ thread \in Threads /\ Hand = holding[thread]
    BY <2>1, WorkerAssumption DEF OneConsumerInv, TypeInv, Threads, Hand
  <2>3. CASE thread \notin alive
    <3>1. NoPill /\ stop_called /\ Hand = Idle /\ mark = posted
      BY <2>1, <2>2, <2>3 DEF QueueInv, OneConsumerInv, UseInv
    <3>2. Left = Len(ran) /\ Left \in Nat /\ posted \in Nat /\ Left <= posted
      BY <2>1, <3>1, WorkerAssumption DEF Left, TypeInv, QueueInv, Tasks, Idle
    <3>3. Len(queue) = 0 /\ unfinished = 0
      BY <2>1, <3>1, <3>2 DEF NoPill, CountInv
    <3> QED  BY <2>1, <2>3, <3>3 DEF TypeInv, MayReturn
  <2>4. CASE thread \in alive
    <3>1. CASE caller = "stop"
      <4>1. PillAhead
        BY <2>1, <2>4, <3>1 DEF OneConsumerInv, UseInv
      <4>2. Idle # Pill
        BY WorkerAssumption DEF Idle, Pill
      <4>3. Hand = Pill \/ queue # <<>>
        BY <2>1, <4>1 DEF PillAhead, TypeInv
      <4> QED  BY <2>4, <4>2, <4>3 DEF MayWork
    <3>2. CASE caller = "join_tasks"
      <4>1. unfinished = 0 \/ Len(queue) # 0 \/ Hand # Idle
        BY <2>1 DEF CountInv
      <4> QED  BY <2>4, <3>2, <4>1 DEF MayWork, MayReturn
    <3> QED  BY <2>1, <3>1, <3>2 DEF TypeInv
  <2> QED  BY <2>3, <2>4
<1> QED  BY <1>1, <1>2, UseInductive, WorkerInvariant, PTL DEF Spec

(* While a call waits nothing is added to the thread's work and each of    *)
(* its steps takes from it, so that the wait is bounded by the work there  *)
(* was: nobody posts behind the caller's back.                             *)
THEOREM EachStepShortensTheWait == Spec => WaitsShorten
<1>1. WorkerInv /\ [Next]_vars =>
        [caller # "none" /\ caller' # "none" => WorkLeft \in Nat /\ WorkLeft' < WorkLeft]_vars
  <2> SUFFICES ASSUME WorkerInv, Next, caller # "none", caller' # "none"
               PROVE  WorkLeft \in Nat /\ WorkLeft' < WorkLeft
    OBVIOUS
  <2>1. PICK t \in Threads : Loop(t)
    BY DEF Next, Caller, Returns, start, post_task, join_tasks, stop, JoinDrained,
       JoinTimesOut, StopEnds, StopTimesOut
  <2>2. holding[t] # Idle \/ t \in alive
    BY <2>1, WorkerAssumption DEF Loop, Get, Run, TaskDone, EndLoop, Tasks, Idle, Done,
       Pill
  <2>3. t = thread /\ t \in alive /\ thread # 0 /\ Hand = holding[t]
    BY <2>2, LoopFacts
  <2>4. TypeInv /\ Len(queue) \in Nat
    BY DEF WorkerInv, TypeInv
  <2>5. Hand' = holding'[t]
    BY <2>1, <2>3 DEF Hand, Loop, Get, Run, TaskDone, EndLoop, callVars
  <2>6. Steps(Idle) = 0 /\ Steps(Pill) = 1 /\ Steps(Done) = 1
        /\ \A h : Steps(h) \in 0..2 /\ (h \in Tasks => Steps(h) = 2)
    BY WorkerAssumption DEF Steps, Idle, Pill, Done, Tasks
  <2>7. CASE Get(t)
    <3>1. Len(queue') = Len(queue) - 1 /\ Len(queue) > 0 /\ Hand = Idle
      BY <2>3, <2>4, <2>7 DEF Get, TypeInv
    <3>2. Steps(Hand)' = Steps(Hand') /\ Steps(Hand') \in 0..2 /\ Steps(Hand) = 0
      BY <2>6, <3>1 DEF Steps
    <3> QED  BY <2>4, <3>1, <3>2 DEF WorkLeft
  <2>8. CASE Run(t)
    <3>1. queue' = queue /\ Hand \in Tasks /\ Hand' = Done
      BY <2>3, <2>4, <2>5, <2>8 DEF Run, TypeInv
    <3>2. Steps(Hand) = 2 /\ Steps(Hand') = 1 /\ Steps(Hand)' = Steps(Hand')
      BY <2>6, <3>1 DEF Steps
    <3> QED  BY <2>4, <3>1, <3>2 DEF WorkLeft
  <2>9. CASE TaskDone(t) \/ EndLoop(t)
    <3>1. queue' = queue /\ Hand \in {Done, Pill} /\ Hand' = Idle
      BY <2>3, <2>4, <2>5, <2>9 DEF TaskDone, EndLoop, TypeInv
    <3>2. Steps(Hand) = 1 /\ Steps(Hand') = 0 /\ Steps(Hand)' = Steps(Hand')
      BY <2>6, <3>1 DEF Steps
    <3> QED  BY <2>4, <3>1, <3>2 DEF WorkLeft
  <2> QED  BY <2>1, <2>7, <2>8, <2>9 DEF Loop
<1> QED  BY <1>1, WorkerInvariant, PTL DEF Spec, WaitsShorten
=============================================================================
