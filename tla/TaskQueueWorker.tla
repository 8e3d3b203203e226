--------------------------- MODULE TaskQueueWorker ---------------------------
(***************************************************************************)
(* The fill pump's thread, vmtrader/broker/live/worker.py: one caller, a   *)
(* FIFO queue of tasks, a poison pill, and the two ways the caller waits:  *)
(* join_tasks, the drain barrier of settlement, and stop.                  *)
(*                                                                         *)
(* Module LiveBroker uses this worker through what is shown here (Drained, *)
(* StopWorker).  Tasks are numbered in the order they are posted.  Each    *)
(* start makes a new thread, so that two consumers could be seen if there  *)
(* were ever two.  A task that raises is reported and abandoned, which     *)
(* looks the same as one that returns.                                     *)
(***************************************************************************)
EXTENDS Naturals, Sequences, FiniteSets

CONSTANTS MaxTasks, MaxStarts     \* bounds on the caller

ASSUME WorkerAssumption == MaxTasks \in Nat /\ MaxStarts \in Nat

VARIABLES queue, unfinished,      \* queue.Queue and its unfinished_tasks
          thread,                 \* the reference kept; 0 is None
          stop_called,
          alive,                  \* threads still running
          holding,                \* what each has taken from the queue
          starts,                 \* threads made so far
          any_use,                \* TRUE: any order of calls; FALSE: the use
                                  \* settle makes of the class
          caller, timed,          \* the call in progress, if it has a timeout
          posted, ran,            \* history: tasks posted, tasks run in order
          mark                    \* tasks posted when the pill went in

vars == <<queue, unfinished, thread, stop_called, alive, holding, starts,
          any_use, caller, timed, posted, ran, mark>>
loopVars == <<queue, unfinished, alive, holding, ran>>
callVars == <<thread, stop_called, starts, any_use, caller, timed, posted, mark>>

Threads == 1..MaxStarts
Tasks == 1..MaxTasks
Pill == 0
Idle == MaxTasks + 1     \* waiting for a task
Done == MaxTasks + 2     \* ran one, has not marked it done

Init ==
    /\ queue = <<>> /\ unfinished = 0
    /\ thread = 0 /\ alive = {} /\ starts = 0
    /\ any_use \in BOOLEAN
    /\ stop_called = FALSE
    /\ holding = [t \in Threads |-> Idle]
    /\ caller = "none" /\ timed = FALSE
    /\ posted = 0 /\ ran = <<>> /\ mark = 0
-----------------------------------------------------------------------------
(* The caller.  With thread None, join_tasks and stop answer at once and   *)
(* change nothing; so does a second start.                                 *)

start ==
    /\ caller = "none" /\ thread = 0
    /\ starts < MaxStarts /\ (any_use \/ starts = 0)
    /\ starts' = starts + 1
    /\ thread' = starts + 1
    /\ alive' = alive \cup {starts + 1}
    /\ UNCHANGED <<queue, unfinished, holding, ran, stop_called, any_use,
                   caller, timed, posted, mark>>

post_task ==
    /\ caller = "none" /\ posted < MaxTasks
    /\ any_use \/ (thread # 0 /\ ~stop_called)
    /\ posted' = posted + 1
    /\ queue' = Append(queue, posted + 1)
    /\ unfinished' = unfinished + 1
    /\ UNCHANGED <<alive, holding, ran, thread, stop_called, starts, any_use,
                   caller, timed, mark>>

join_tasks ==
    /\ caller = "none" /\ thread # 0
    /\ caller' = "join_tasks"
    /\ timed' \in BOOLEAN
    /\ UNCHANGED <<loopVars, thread, stop_called, starts, any_use, posted,
                   mark>>

(* Mutant: the barrier looks at the queue and not at what is running.      *)
JoinSeesEmptyQueue ==
    /\ caller = "join_tasks" /\ queue = <<>>
    /\ caller' = "none"
    /\ UNCHANGED <<loopVars, thread, stop_called, starts, any_use, timed,
                   posted, mark>>

(* The barrier answers True.                                               *)
JoinDrained ==
    /\ caller = "join_tasks" /\ unfinished = 0
    /\ caller' = "none"
    /\ UNCHANGED <<loopVars, thread, stop_called, starts, any_use, timed,
                   posted, mark>>

JoinTimesOut ==
    /\ caller = "join_tasks" /\ timed /\ unfinished # 0
    /\ caller' = "none"
    /\ UNCHANGED <<loopVars, thread, stop_called, starts, any_use, timed,
                   posted, mark>>

(* The pill goes in once, behind every task.                               *)
stop ==
    /\ caller = "none" /\ thread # 0
    /\ caller' = "stop"
    /\ timed' \in BOOLEAN
    /\ stop_called' = TRUE
    /\ IF stop_called
       THEN UNCHANGED <<queue, unfinished, mark>>
       ELSE /\ queue' = Append(queue, Pill)
            /\ unfinished' = unfinished + 1
            /\ mark' = posted
    /\ UNCHANGED <<alive, holding, ran, thread, starts, any_use, posted>>

(* The thread has ended: True, and the reference is dropped.               *)
StopEnds ==
    /\ caller = "stop" /\ thread \notin alive
    /\ caller' = "none"
    /\ thread' = 0
    /\ UNCHANGED <<loopVars, stop_called, starts, any_use, timed, posted,
                   mark>>

(* Mutant: a thread that outlives the timeout is forgotten.                *)
StopForgets ==
    /\ caller = "stop" /\ timed /\ thread \in alive
    /\ caller' = "none"
    /\ thread' = 0
    /\ UNCHANGED <<loopVars, stop_called, starts, any_use, timed, posted,
                   mark>>

(* "A thread that outlives the timeout keeps its reference."               *)
StopTimesOut ==
    /\ caller = "stop" /\ timed /\ thread \in alive
    /\ caller' = "none"
    /\ UNCHANGED <<loopVars, thread, stop_called, starts, any_use, timed,
                   posted, mark>>
-----------------------------------------------------------------------------
(* The thread: __loop.                                                     *)

Get(t) ==
    /\ t \in alive /\ holding[t] = Idle /\ queue # <<>>
    /\ holding' = [holding EXCEPT ![t] = Head(queue)]
    /\ queue' = Tail(queue)
    /\ UNCHANGED <<callVars, unfinished, alive, ran>>

Run(t) ==
    /\ holding[t] \in Tasks
    /\ ran' = Append(ran, holding[t])
    /\ holding' = [holding EXCEPT ![t] = Done]
    /\ UNCHANGED <<callVars, queue, unfinished, alive>>

(* Mutant: a task that raised is not marked done.                          *)
NotDone(t) ==
    /\ holding[t] = Done
    /\ holding' = [holding EXCEPT ![t] = Idle]
    /\ unfinished' \in {unfinished, unfinished - 1}
    /\ UNCHANGED <<callVars, queue, alive, ran>>

(* The 'finally': done, whether or not it raised.                          *)
TaskDone(t) ==
    /\ holding[t] = Done
    /\ holding' = [holding EXCEPT ![t] = Idle]
    /\ unfinished' = unfinished - 1
    /\ UNCHANGED <<callVars, queue, alive, ran>>

(* The pill ends the loop; it was an unfinished task too.                  *)
EndLoop(t) ==
    /\ holding[t] = Pill
    /\ holding' = [holding EXCEPT ![t] = Idle]
    /\ unfinished' = unfinished - 1
    /\ alive' = alive \ {t}
    /\ UNCHANGED <<callVars, queue, ran>>
-----------------------------------------------------------------------------
Returns == JoinDrained \/ JoinTimesOut \/ StopEnds \/ StopTimesOut
Caller == start \/ post_task \/ join_tasks \/ stop \/ Returns
Loop(t) == Get(t) \/ Run(t) \/ TaskDone(t) \/ EndLoop(t)

Next == Caller \/ \E t \in Threads : Loop(t)

Spec == Init /\ [][Next]_vars

(* A task ends: the gateway bounds every call it makes.  A timeout is not  *)
(* needed for a call to return.                                            *)
FairSpec == /\ Spec
            /\ WF_vars(JoinDrained) /\ WF_vars(StopEnds)
            /\ \A t \in Threads : WF_vars(Loop(t))
-----------------------------------------------------------------------------
(* Tasks run once each and in the order they were posted, across timeouts, *)
(* stops and restarts: "a later poll never books before an earlier one"    *)
(* (test_tasks_run_in_the_order_they_were_posted).                         *)
RunInOrder ==
    /\ \A i \in 1..Len(ran) : ran[i] = i
    /\ \A t \in Threads : holding[t] \in Tasks => holding[t] = Len(ran) + 1

(* The worker's answers are true: when join_tasks answers True every task  *)
(* posted has been run, which settlement books on the strength of, and     *)
(* when stop does everything posted before the pill has been: "a fill      *)
(* collected but not yet handed back is never dropped on shutdown".        *)
AnswersAreTrue ==
    [][/\ JoinDrained => Len(ran) = posted
       /\ StopEnds => Len(ran) >= mark]_vars

(* Used as settle uses it, every wait ends, even one without a timeout     *)
(* ("Finish the queued tasks, then shut the thread down", stop).  Under    *)
(* any use it would not: stop_called is never reset, so the second thread  *)
(* of a restarted worker is given no pill.                                 *)
CallsReturn == caller # "none" /\ ~any_use ~> caller = "none"
=============================================================================
