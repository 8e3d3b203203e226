------------------------------ MODULE ActorCycle ------------------------------
(***************************************************************************)
(* One rebalance cycle as two actors: LiveTradingSession._decide_and_submit *)
(* (trading/live.py), BaseStrategyExecutor (alpha_model) and BrokerActor   *)
(* (broker/actor.py).                                                      *)
(*                                                                         *)
(* The main thread posts one RebalanceDue, stops the strategy executor,    *)
(* waits for it within a budget, closes the command lane, and carries out  *)
(* what was decided.  In synchronous mode the same handlers run on the     *)
(* main thread inside the post.  Both modes are one specification here:    *)
(* 'synchronous' is chosen initially and never changes.                    *)
(*                                                                         *)
(* The strategy may decide, fail, ask to stop, or hang; the burst of       *)
(* orders a decision becomes may complete, fail part-way, or be stopped    *)
(* part-way.  'decision', 'burst', 'sent' and 'overran' record which.      *)
(***************************************************************************)
EXTENDS Naturals, Sequences

CONSTANT BurstSize       \* orders one decision becomes

ASSUME BurstAssumption == BurstSize \in Nat \ {0}

VARIABLES synchronous,
          main,              \* where the main thread is
          executor,          \* where the executor's thread is
          inbox, closed,     \* the executor's mailbox
          ended_by,          \* a stop waits to be raised
          commands,          \* how many commands the broker's mailbox holds
          commands_refused,  \* the command latch
          attempted, completed,
          decision, burst, sent, overran, traded    \* history

vars == <<synchronous, main, executor, inbox, closed, ended_by, commands,
          commands_refused, attempted, completed, decision, burst, sent,
          overran, traded>>

brokerVars == <<commands, attempted, completed, burst, sent>>
strategyVars == <<inbox, closed, ended_by, decision>>
sessionVars == <<synchronous, commands_refused, overran, traded>>

RebalanceDue == "RebalanceDue"
None == "None"

Init ==
    /\ synchronous \in BOOLEAN
    /\ main = "begin" /\ executor = "unborn"
    /\ inbox = <<>> /\ closed = FALSE
    /\ ended_by = FALSE
    /\ commands = 0 /\ commands_refused = FALSE
    /\ attempted = 0 /\ completed = 0
    /\ decision = "none" /\ burst = "none" /\ sent = 0
    /\ overran = FALSE /\ traded = FALSE

(* Mailbox.close: the sentinel goes last, and only the first time.         *)
CloseInbox ==
    /\ closed' = TRUE
    /\ inbox' = IF closed THEN inbox ELSE Append(inbox, None)
-----------------------------------------------------------------------------
(* The main thread.                                                        *)

(* _actors, and executor.start() in threaded mode.                         *)
Begin ==
    /\ main = "begin"
    /\ main' = "post"
    /\ executor' = IF synchronous THEN "unborn" ELSE "take"
    /\ UNCHANGED <<sessionVars, strategyVars, brokerVars>>

(* post_event: handled here and now, or queued.                            *)
PostEvent ==
    /\ main = "post"
    /\ main' = IF synchronous THEN "deciding" ELSE "stop"
    /\ inbox' = IF synchronous THEN inbox ELSE Append(inbox, RebalanceDue)
    /\ UNCHANGED <<sessionVars, executor, closed, ended_by, decision, brokerVars>>

(* The command is taken up: size_and_submit begins.                        *)
TakeUp ==
    /\ main' = "carrying"
    /\ attempted' = attempted + 1
    /\ burst' = "begun"
    /\ UNCHANGED <<completed, sent>>

(* Synchronous dispatch: a decision goes straight to the broker actor, an  *)
(* error is logged by on_error, and a stop is raised at once.              *)
DecideInline(d) ==
    /\ main = "deciding"
    /\ decision' = d
    /\ IF d = "weights"
       THEN TakeUp
       ELSE /\ main' = IF d = "stop" THEN "unwind" ELSE "stop"
            /\ UNCHANGED <<attempted, completed, burst, sent>>
    /\ UNCHANGED <<sessionVars, executor, inbox, closed, ended_by, commands>>

(* One order of the burst: broker.submit_order and broker.update.          *)
SubmitOne ==
    /\ main = "carrying" /\ sent < BurstSize
    /\ sent' = sent + 1
    /\ UNCHANGED <<sessionVars, strategyVars, main, executor, commands, attempted,
                   completed, burst>>

AfterBurst == IF synchronous THEN "stop" ELSE "drain"

(* size_and_submit returns, and the command counts as completed.           *)
BurstDone ==
    /\ main = "carrying" /\ sent = BurstSize
    /\ main' = AfterBurst
    /\ completed' = completed + 1 /\ burst' = "done"
    /\ UNCHANGED <<sessionVars, strategyVars, executor, commands, attempted, sent>>

(* It raises after any number of orders: reported and absorbed.            *)
BurstFails ==
    /\ main = "carrying"
    /\ main' = AfterBurst
    /\ burst' = "failed"
    /\ UNCHANGED <<sessionVars, strategyVars, executor, commands, attempted,
                   completed, sent>>

(* It raises one of ENDS_THE_CYCLE: not absorbed; synchronously it passes  *)
(* through the 'finally' that stops the executor.                          *)
BurstStops ==
    /\ main = "carrying"
    /\ main' = IF synchronous THEN "unwind" ELSE "raised"
    /\ burst' = "stopped"
    /\ UNCHANGED <<sessionVars, strategyVars, executor, commands, attempted,
                   completed, sent>>

(* executor.stop: close the inbox, then join if there is a thread.         *)
Stop ==
    /\ main \in {"stop", "unwind"}
    /\ CloseInbox
    /\ main' = IF main = "unwind" THEN "raised"
               ELSE IF synchronous THEN "latch" ELSE "join"
    /\ UNCHANGED <<sessionVars, executor, ended_by, decision, brokerVars>>

(* Mutant: the barrier does not wait for the thread.                       *)
JoinAtOnce ==
    /\ main = "join"
    /\ main' = "latch"
    /\ UNCHANGED <<sessionVars, strategyVars, executor, brokerVars>>

Join ==
    /\ main = "join" /\ executor = "ended"
    /\ main' = "latch"
    /\ UNCHANGED <<sessionVars, strategyVars, executor, brokerVars>>

(* Mutant: the join has no timeout.                                        *)
JoinNeverTimesOut ==
    /\ FALSE
    /\ UNCHANGED vars

(* STRATEGY_BUDGET_SECONDS pass with the thread still alive.               *)
JoinTimesOut ==
    /\ main = "join" /\ executor # "ended"
    /\ main' = "latch"
    /\ overran' = TRUE
    /\ UNCHANGED <<synchronous, commands_refused, traded, strategyVars, executor,
                   brokerVars>>

(* refuse_commands.                                                        *)
Latch ==
    /\ main = "latch"
    /\ main' = "check"
    /\ commands_refused' = TRUE
    /\ UNCHANGED <<synchronous, overran, traded, strategyVars, executor, brokerVars>>

(* Mutant: what ended the executor is not raised.                          *)
CheckIgnoresStop ==
    /\ main = "check"
    /\ main' = "drain"
    /\ UNCHANGED <<sessionVars, strategyVars, executor, brokerVars>>

CheckEndedBy ==
    /\ main = "check"
    /\ main' = IF ended_by THEN "raised" ELSE "drain"
    /\ UNCHANGED <<sessionVars, strategyVars, executor, brokerVars>>

(* drain: one waiting command after another.                               *)
DrainTake ==
    /\ main = "drain" /\ commands > 0
    /\ commands' = commands - 1
    /\ TakeUp
    /\ UNCHANGED <<sessionVars, strategyVars, executor>>

(* Mutant: a command that was taken up counts as traded.                   *)
DrainEndsOnAttempt ==
    /\ main = "drain" /\ commands = 0
    /\ traded' = (attempted > 0)
    /\ main' = "settle"
    /\ UNCHANGED <<synchronous, commands_refused, overran, strategyVars, executor,
                   brokerVars>>

(* The cycle's answer: whether a command was completed.                    *)
DrainEnds ==
    /\ main = "drain" /\ commands = 0
    /\ traded' = (completed > 0)
    /\ main' = "settle"
    /\ UNCHANGED <<synchronous, commands_refused, overran, strategyVars, executor,
                   brokerVars>>

(* LiveBroker.settle, which module LiveBroker models.                      *)
Settle ==
    /\ main = "settle"
    /\ main' = "exited"
    /\ UNCHANGED <<sessionVars, strategyVars, executor, brokerVars>>
-----------------------------------------------------------------------------
(* The executor's thread.                                                  *)

Take ==
    /\ executor = "take" /\ inbox # <<>>
    /\ inbox' = Tail(inbox)
    /\ executor' = IF Head(inbox) = None THEN "ended" ELSE "deciding"
    /\ UNCHANGED <<sessionVars, main, closed, ended_by, decision, brokerVars>>

(* A stop cannot be raised here: it is left in 'ended_by' and the mailbox  *)
(* closed, so that the loop ends.                                          *)
Decide(d) ==
    /\ executor = "deciding"
    /\ decision' = d
    /\ executor' = IF d = "weights" THEN "posting" ELSE "take"
    /\ ended_by' = (ended_by \/ d = "stop")
    /\ IF d = "stop" THEN CloseInbox ELSE UNCHANGED <<inbox, closed>>
    /\ UNCHANGED <<sessionVars, main, brokerVars>>

(* post_command looks at the latch; MailboxClosed is reported like any     *)
(* other failure of a handler.                                             *)
PostCommand ==
    /\ executor = "posting"
    /\ executor' = IF commands_refused THEN "take" ELSE "enqueue"
    /\ UNCHANGED <<sessionVars, strategyVars, main, brokerVars>>

(* ... and then posts, without holding anything against the latch.         *)
Enqueue ==
    /\ executor = "enqueue"
    /\ commands' = commands + 1
    /\ executor' = "take"
    /\ UNCHANGED <<sessionVars, strategyVars, main, attempted, completed, burst, sent>>
-----------------------------------------------------------------------------
Decisions == {"weights", "error", "stop"}

(* The main thread's steps in the engine's own code, and the one in which  *)
(* it is the strategy that runs on it.                                     *)
Engine ==
    \/ Begin \/ PostEvent
    \/ SubmitOne \/ BurstDone \/ BurstFails \/ BurstStops
    \/ Stop \/ Join \/ JoinTimesOut \/ Latch \/ CheckEndedBy
    \/ DrainTake \/ DrainEnds \/ Settle

Main == Engine \/ \E d \in Decisions : DecideInline(d)

Executor == Take \/ PostCommand \/ Enqueue \/ \E d \in Decisions : Decide(d)

Next == Main \/ Executor

Spec == Init /\ [][Next]_vars

(* Only the engine's own code is sure to go on.  The strategy may hang for *)
(* ever, on its own thread or, in synchronous mode, on the main one.       *)
FairSpec == Spec /\ WF_vars(Engine)
-----------------------------------------------------------------------------
(* "The strategy has finished deciding, and everything it decided has been *)
(* carried out.  Both have to be true before settlement starts"            *)
(* (_decide_and_submit), unless the strategy overran its budget.           *)
SettledAfterDecision ==
    main \in {"settle", "exited"} /\ ~overran =>
        /\ executor \in {"unborn", "ended"}
        /\ decision # "none"
        /\ decision = "weights" => burst \in {"done", "failed"}
        /\ commands = 0

(* Both modes end the cycle the same way, and only a stop raises: a stop   *)
(* from the strategy's own thread is not swallowed on the way to the main  *)
(* thread (_handle_reporting_errors, ended_by).                            *)
StopReachesTheSession ==
    /\ main = "raised" => decision = "stop" \/ burst = "stopped"
    /\ main \in {"settle", "exited"} => burst # "stopped"
    /\ main \in {"settle", "exited"} /\ ~overran => decision # "stop"

(* A cycle reported as traded sent every order of the burst, whichever     *)
(* thread decided and however late ("completed, not attempted").           *)
TradedIsHonest ==
    main \in {"settle", "exited"} => (traded <=> burst = "done" /\ sent = BurstSize)

(* In threaded mode the cycle ends although the strategy may never answer, *)
(* because the join times out.  In synchronous mode, where no budget       *)
(* applies, it ends unless the strategy hangs on the main thread; nothing  *)
(* else can hold it (_decide_and_submit).                                  *)
CycleEnds ==
    <>[](main \in {"exited", "raised"} \/ (synchronous /\ main = "deciding"))
===============================================================================
