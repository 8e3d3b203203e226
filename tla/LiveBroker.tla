------------------------------ MODULE LiveBroker ------------------------------
(***************************************************************************)
(* The live broker, vmtrader/broker/live_broker.py: submission of orders,  *)
(* the fill worker that polls the venue, the drain that books fills into   *)
(* the portfolio on the main thread, settlement and update.                *)
(*                                                                         *)
(* Two threads of one process.  The main thread is at 'pc'; the fill       *)
(* worker is at 'wpc' and touches only the venue, the ledger, the fill     *)
(* buffer and its own watermark.  A step is what the other thread, or a    *)
(* crash, can tell apart: a ledger commit, a venue call, an append to the  *)
(* buffer.                                                                 *)
(***************************************************************************)
EXTENDS OrderLedger, Sequences

CONSTANT CleanRecovery   \* TRUE: the venue is quiet, and no enquiry comes back
                         \* empty, between recovery's polls and the seeding

ASSUME CleanRecoveryAssumption == CleanRecovery \in BOOLEAN

VARIABLES open_orders,        \* open_orders: the orders being tracked
          booked_quantity,    \* the poller's watermark, per order
          portfolio_booked,   \* the portfolio's watermark, per order
          fill_buffer,        \* fills handed over by the poller
          pending,            \* the buffer a drain has swapped out
          holding             \* what the portfolio holds through each order

VARIABLES tasks,              \* poll tasks of the round still queued, oldest first
          wpc, wtask, wreport \* the worker: where, on which order, told what

VARIABLES pc,                 \* where the main thread is
          kind,               \* which launch this is
          caller,             \* what a drain returns to
          todo,               \* orders left in the current loop
          done,               \* orders the current round found finished
          cur,                \* the order being submitted
          kill_switch,        \* the kill switch file exists
          expired             \* the settlement deadline has passed

memoryVars == <<open_orders, booked_quantity, portfolio_booked,
                fill_buffer, pending, holding>>
workerVars == <<tasks, wpc, wtask, wreport>>
loopVars   == <<todo, done, cur>>
brokerVars == <<venueVars, ledgerVars, memoryVars, workerVars, loopVars,
                pc, kind, caller, kill_switch, expired>>

NoOrder == 0
ReportType == [filled : Nat, done : BOOLEAN]
FillType == [order_no : Orders, cumulative_filled : Nat]

Steps == {"down", "recover", "drain", "close", "seed", "gate", "update",
          "warm_up", "burst", "placing", "placed", "failed", "refused", "stopping",
          "settle", "barrier", "unwind", "stale", "equity", "exiting"}
Callers == {"recover", "update", "settle",
            "finished", "expired", "killed", "interrupted"}
WorkerSteps == {"off", "idle", "record", "append", "advance"}

BrokerTypeOK ==
    /\ open_orders \subseteq Orders
    /\ booked_quantity \in [Orders -> Nat]
    /\ portfolio_booked \in [Orders -> Nat]
    /\ fill_buffer \in Seq(FillType)
    /\ pending \in Seq(FillType)
    /\ holding \in [Orders -> Nat]
    /\ tasks \subseteq Orders
    /\ wpc \in WorkerSteps
    /\ wtask \in Orders \cup {NoOrder}
    /\ wreport \in ReportType
    /\ pc \in Steps
    /\ kind \in {"rebalance", "eod"}
    /\ caller \in Callers
    /\ todo \subseteq Orders
    /\ done \subseteq Orders
    /\ cur \in Orders \cup {NoOrder}
    /\ kill_switch \in BOOLEAN
    /\ expired \in BOOLEAN

Zero == [o \in Orders |-> 0]

(* The broker's memory in a process that has just been built.              *)
FreshMemory ==
    /\ open_orders' = {}
    /\ booked_quantity' = Zero
    /\ portfolio_booked' = Zero
    /\ fill_buffer' = <<>>
    /\ pending' = <<>>
    /\ holding' = Zero
    /\ tasks' = {}
    /\ wpc' = "off"
    /\ wtask' = NoOrder
    /\ wreport' = EmptyReport
    /\ done' = {}
    /\ cur' = NoOrder
    /\ expired' = FALSE

BrokerInit ==
    /\ open_orders = {}
    /\ booked_quantity = Zero
    /\ portfolio_booked = Zero
    /\ fill_buffer = <<>>
    /\ pending = <<>>
    /\ holding = Zero
    /\ tasks = {}
    /\ wpc = "off"
    /\ wtask = NoOrder
    /\ wreport = EmptyReport
    /\ pc = "down"
    /\ kind = "rebalance"
    /\ caller = "recover"
    /\ todo = {}
    /\ done = {}
    /\ cur = NoOrder
    /\ kill_switch = FALSE
    /\ expired = FALSE

(* Loops run over orders oldest first.                                     *)
Oldest(S, o) == o \in S /\ \A p \in S : o <= p

Goto(step) == pc' = step /\ UNCHANGED <<kind, caller>>

(* The portfolio becomes the venue's balance.                              *)
seed_from_venue == holding' = filled

StartDrain(who) ==
    /\ pc' = "drain"
    /\ caller' = who
    /\ pending' = fill_buffer
    /\ fill_buffer' = <<>>
    /\ UNCHANGED kind
-----------------------------------------------------------------------------
(* Submission: submit_order for each order of the burst.                   *)

(* Mutant: the venue is called before the intent is written.               *)
SubmitUnrecorded(o) ==
    /\ pc = "burst"
    /\ Oldest({p \in Orders : order_state[p] = "none"}, o)
    /\ ~kill_switch
    /\ cur' = o
    /\ Goto("placing")
    /\ UNCHANGED <<venueVars, ledgerVars, memoryVars, workerVars, todo, done,
                   kill_switch, expired>>

(* The guard lets the order through; the intent is written before the      *)
(* venue is called.                                                        *)
SubmitIntent(o) ==
    /\ pc = "burst"
    /\ Oldest({p \in Orders : order_state[p] = "none"}, o)
    /\ ~kill_switch
    /\ record_intent(o)
    /\ cur' = o
    /\ Goto("placing")
    /\ UNCHANGED <<venueVars, orphan_note, fill_keys, fill_sum, curve, memoryVars,
                   workerVars, todo, done, kill_switch, expired>>

(* check_order raises: the kill switch stops the cycle, an order limit     *)
(* only this order.  Either way the refusal is put on record first.        *)
SubmitRefused(o) ==
    /\ pc = "burst"
    /\ Oldest({p \in Orders : order_state[p] = "none"}, o)
    /\ record_intent(o)
    /\ cur' = o
    /\ Goto(IF kill_switch THEN "stopping" ELSE "refused")
    /\ UNCHANGED <<venueVars, orphan_note, fill_keys, fill_sum, curve, memoryVars,
                   workerVars, todo, done, kill_switch, expired>>

(* place_market_order returns an order number ...                          *)
PlaceAccepted ==
    /\ pc = "placing"
    /\ Accept(cur)
    /\ Goto("placed")
    /\ UNCHANGED <<ledgerVars, memoryVars, workerVars, loopVars, kill_switch, expired>>

(* ... or raises, the order having reached the venue or not.               *)
PlaceRaises(reached) ==
    /\ pc = "placing"
    /\ IF reached THEN Accept(cur) ELSE UNCHANGED venueVars
    /\ Goto("failed")
    /\ UNCHANGED <<ledgerVars, memoryVars, workerVars, loopVars, kill_switch, expired>>

RecordSubmitted ==
    /\ pc = "placed"
    /\ record_submitted(cur)
    /\ open_orders' = open_orders \cup {cur}
    /\ booked_quantity' = [booked_quantity EXCEPT ![cur] = 0]
    /\ cur' = NoOrder
    /\ Goto("burst")
    /\ UNCHANGED <<venueVars, orphan_note, fill_keys, fill_sum, curve,
                   portfolio_booked, fill_buffer, pending, holding,
                   workerVars, todo, done, kill_switch, expired>>

(* The row of a refused, or failed, submission is closed as REJECTED; only *)
(* the operator's stop leaves the cycle, without settling.                 *)
RecordRejected ==
    /\ pc \in {"failed", "refused", "stopping"}
    /\ record_state(cur, "REJECTED", FALSE)
    /\ cur' = NoOrder
    /\ Goto(IF pc = "stopping" THEN "exiting" ELSE "burst")
    /\ UNCHANGED <<venueVars, fill_keys, fill_sum, curve, memoryVars,
                   workerVars, todo, done, kill_switch, expired>>
-----------------------------------------------------------------------------
(* Polling.                                                                *)

(* Mutant: the increment is taken the wrong way round.                     *)
PollSwapped(o, r, seen) ==
    LET fresh == r.filled > seen IN
    /\ IF fresh THEN record_fill(o, r.filled, seen - r.filled)
                ELSE UNCHANGED <<fill_keys, fill_sum>>
    /\ fill_buffer' = IF fresh
                      THEN Append(fill_buffer, [order_no |-> o,
                                                cumulative_filled |-> r.filled])
                      ELSE fill_buffer
    /\ booked_quantity' = [booked_quantity EXCEPT ![o] = IF fresh THEN r.filled
                                                                  ELSE seen]
    /\ done' = IF r.done THEN done \cup {o} ELSE done

(* _poll_once on the main thread, told 'r', from watermark 'seen'.  The    *)
(* fill worker is not running then, so the enquiry, the commit and the     *)
(* hand-over are one step.                                                 *)
poll_once(o, r, seen) ==
    LET fresh == r.filled > seen IN
    /\ IF fresh THEN record_fill(o, r.filled, r.filled - seen)
                ELSE UNCHANGED <<fill_keys, fill_sum>>
    /\ fill_buffer' = IF fresh
                      THEN Append(fill_buffer, [order_no |-> o,
                                                cumulative_filled |-> r.filled])
                      ELSE fill_buffer
    /\ booked_quantity' = [booked_quantity EXCEPT ![o] = IF fresh THEN r.filled
                                                                  ELSE seen]
    /\ done' = IF r.done THEN done \cup {o} ELSE done

(* The worker takes a task and hears from the venue; without news for the  *)
(* portfolio the task is over.                                             *)
WorkerPoll(o, r) ==
    LET fresh == r.filled > booked_quantity[o] IN
    /\ wpc = "idle" /\ Oldest(tasks, o)
    /\ tasks' = tasks \ {o}
    /\ wpc' = IF fresh THEN "record" ELSE "idle"
    /\ wtask' = IF fresh THEN o ELSE NoOrder
    /\ wreport' = IF fresh THEN r ELSE EmptyReport
    /\ done' = IF r.done /\ ~fresh THEN done \cup {o} ELSE done
    /\ UNCHANGED <<venueVars, ledgerVars, memoryVars, pc, kind, caller,
                   todo, cur, kill_switch, expired>>

(* The task raises, in the enquiry or in the ledger: it is reported, and   *)
(* abandoned before it changed anything.                                   *)
WorkerFails(o) ==
    /\ \/ wpc = "idle" /\ Oldest(tasks, o) /\ tasks' = tasks \ {o}
       \/ wpc = "record" /\ wtask = o /\ UNCHANGED tasks
    /\ wpc' = "idle"
    /\ wtask' = NoOrder
    /\ wreport' = EmptyReport
    /\ UNCHANGED <<venueVars, ledgerVars, memoryVars, pc, kind, caller,
                   loopVars, kill_switch, expired>>

WorkerRecord ==
    /\ wpc = "record"
    /\ record_fill(wtask, wreport.filled, wreport.filled - booked_quantity[wtask])
    /\ wpc' = "append"
    /\ UNCHANGED <<venueVars, order_state, orphan_note, curve, memoryVars, tasks,
                   wtask, wreport, pc, kind, caller, loopVars, kill_switch, expired>>

WorkerAppend ==
    /\ wpc = "append"
    /\ fill_buffer' = Append(fill_buffer, [order_no |-> wtask,
                                           cumulative_filled |-> wreport.filled])
    /\ wpc' = "advance"
    /\ UNCHANGED <<venueVars, ledgerVars, open_orders, booked_quantity,
                   portfolio_booked, pending, holding, tasks, wtask, wreport,
                   pc, kind, caller, loopVars, kill_switch, expired>>

WorkerAdvance ==
    /\ wpc = "advance"
    /\ booked_quantity' = [booked_quantity EXCEPT ![wtask] = wreport.filled]
    /\ done' = IF wreport.done THEN done \cup {wtask} ELSE done
    /\ wpc' = "idle"
    /\ wtask' = NoOrder
    /\ wreport' = EmptyReport
    /\ UNCHANGED <<venueVars, ledgerVars, open_orders, portfolio_booked,
                   fill_buffer, pending, holding, tasks, pc, kind, caller,
                   todo, cur, kill_switch, expired>>

Worker ==
    \/ \E o \in Orders : \/ \E r \in Reports(o) : WorkerPoll(o, r)
                          \/ WorkerFails(o)
    \/ WorkerRecord
    \/ WorkerAppend
    \/ WorkerAdvance

(* Mutant: the queue is empty, though a task may still be running.         *)
QueueEmpty == tasks = {}

(* join_tasks: no task is queued or being run.                             *)
Drained == tasks = {} /\ wpc \in {"off", "idle"}
-----------------------------------------------------------------------------
(* Booking, on the main thread only.                                       *)

(* One iteration of _drain_fill_buffer: the increment is taken against     *)
(* what the portfolio has, and a fill it already has is skipped.           *)
BookFill ==
    /\ pc = "drain" /\ pending # <<>>
    /\ LET o == Head(pending).order_no
           total == Head(pending).cumulative_filled
       IN IF total > portfolio_booked[o]
          THEN /\ holding' = [holding EXCEPT
                                ![o] = @ + (total - portfolio_booked[o])]
               /\ portfolio_booked' = [portfolio_booked EXCEPT ![o] = total]
          ELSE UNCHANGED <<holding, portfolio_booked>>
    /\ pending' = Tail(pending)
    /\ UNCHANGED <<venueVars, ledgerVars, open_orders, booked_quantity,
                   fill_buffer, workerVars, loopVars, pc, kind, caller,
                   kill_switch, expired>>

(* Why the drain was made decides how the remaining orders are closed: the *)
(* budget expiring marks them STALE, the kill switch leaves them SUBMITTED.*)
AfterDrain ==
    CASE caller \in {"recover", "update", "settle"} -> "close"
      [] caller = "expired" -> "stale"
      [] OTHER -> "exiting"

DrainEnds ==
    /\ pc = "drain" /\ pending = <<>>
    /\ Goto(AfterDrain)
    /\ UNCHANGED <<venueVars, ledgerVars, memoryVars, workerVars, loopVars,
                   kill_switch, expired>>

(* _close_order: out of the open set, and its end on record.               *)
CloseOrder(o, s) ==
    /\ open_orders' = open_orders \ {o}
    /\ record_state(o, s, FALSE)
    /\ done' = done \ {o}
    /\ UNCHANGED <<venueVars, fill_keys, fill_sum, curve, booked_quantity,
                   portfolio_booked, fill_buffer, pending, holding, workerVars,
                   todo, cur, pc, kind, caller, kill_switch, expired>>

CloseFilled(o) ==
    /\ pc = "close"
    /\ Oldest(done, o)
    /\ CloseOrder(o, "FILLED")

CloseStale(o) ==
    /\ pc = "stale"
    /\ Oldest(open_orders, o)
    /\ CloseOrder(o, "STALE")

StaleEnds ==
    /\ pc = "stale" /\ open_orders = {}
    /\ Goto("exiting")
    /\ UNCHANGED <<venueVars, ledgerVars, memoryVars, workerVars, loopVars,
                   kill_switch, expired>>

AfterClose ==
    CASE caller = "recover" -> "seed"
      [] caller = "settle" -> "settle"
      [] OTHER -> IF kind = "eod" THEN "equity" ELSE "warm_up"

CloseEnds ==
    /\ pc = "close" /\ done = {}
    /\ Goto(AfterClose)
    /\ UNCHANGED <<venueVars, ledgerVars, memoryVars, workerVars, loopVars,
                   kill_switch, expired>>
-----------------------------------------------------------------------------
(* update(now, force=True): poll every open order once, book, close.       *)

UpdatePoll(o, r) ==
    /\ pc = "update"
    /\ Oldest(todo, o)
    /\ poll_once(o, r, booked_quantity[o])
    /\ todo' = todo \ {o}
    /\ UNCHANGED <<venueVars, order_state, orphan_note, curve, open_orders,
                   portfolio_booked, pending, holding, workerVars, pc, kind,
                   caller, cur, kill_switch, expired>>

(* Mutant: update closes what is done without booking the fills.           *)
UpdateWithoutDrain ==
    /\ pc = "update" /\ todo = {}
    /\ pc' = "close" /\ caller' = "update" /\ UNCHANGED kind
    /\ UNCHANGED <<venueVars, ledgerVars, memoryVars, workerVars, loopVars,
                   kill_switch, expired>>

UpdateBook ==
    /\ pc = "update" /\ todo = {}
    /\ StartDrain("update")
    /\ UNCHANGED <<venueVars, ledgerVars, open_orders, booked_quantity,
                   portfolio_booked, holding, workerVars, loopVars,
                   kill_switch, expired>>
-----------------------------------------------------------------------------
(* settle(deadline).                                                       *)

SettleStart ==
    /\ pc = "burst"
    /\ wpc' = "idle"
    /\ Goto("settle")
    /\ UNCHANGED <<venueVars, ledgerVars, memoryVars, tasks, wtask, wreport,
                   loopVars, kill_switch, expired>>

(* Mutant: the loop condition forgets the deadline.                        *)
SettleRoundForever ==
    /\ pc = "settle" /\ open_orders # {}
    /\ ~kill_switch
    /\ tasks' = open_orders
    /\ done' = {}
    /\ Goto("barrier")
    /\ UNCHANGED <<venueVars, ledgerVars, memoryVars, wpc, wtask, wreport, todo,
                   cur, kill_switch, expired>>

(* A round: one poll task per open order.                                  *)
SettleRound ==
    /\ pc = "settle" /\ open_orders # {}
    /\ ~expired /\ ~kill_switch
    /\ tasks' = open_orders
    /\ done' = {}
    /\ Goto("barrier")
    /\ UNCHANGED <<venueVars, ledgerVars, memoryVars, wpc, wtask, wreport, todo,
                   cur, kill_switch, expired>>

(* The drain barrier, never abandoned, then the booking.                   *)
SettleBook ==
    /\ pc = "barrier" /\ Drained
    /\ StartDrain("settle")
    /\ UNCHANGED <<venueVars, ledgerVars, open_orders, booked_quantity,
                   portfolio_booked, holding, workerVars, loopVars,
                   kill_switch, expired>>

(* The loop's three ways out.                                              *)
SettleOutcome ==
    CASE open_orders = {} -> "finished"
      [] open_orders # {} /\ expired -> "expired"
      [] OTHER -> "killed"

(* worker.stop(timeout): a worker that does not end in time is left        *)
(* running.  Then the last drain.                                          *)
StopWorker == wpc' = IF Drained THEN "off" ELSE wpc

SettleEnds ==
    /\ pc = "settle"
    /\ open_orders = {} \/ expired \/ kill_switch
    /\ StopWorker
    /\ StartDrain(SettleOutcome)
    /\ UNCHANGED <<venueVars, ledgerVars, open_orders, booked_quantity,
                   portfolio_booked, holding, tasks, wtask, wreport, loopVars,
                   kill_switch, expired>>

(* An exception in the main thread while it waits: the 'finally' stops the *)
(* worker, drains once more and lets the exception out; no order is closed.*)
Interrupt ==
    /\ pc = "barrier"
    /\ Goto("unwind")
    /\ UNCHANGED <<venueVars, ledgerVars, memoryVars, workerVars, loopVars,
                   kill_switch, expired>>

Unwind ==
    /\ pc = "unwind"
    /\ StopWorker
    /\ StartDrain("interrupted")
    /\ UNCHANGED <<venueVars, ledgerVars, open_orders, booked_quantity,
                   portfolio_booked, holding, tasks, wtask, wreport, loopVars,
                   kill_switch, expired>>

(* The clock reaches the deadline; '_now' never goes back.                 *)
DeadlinePasses ==
    /\ pc \in {"settle", "barrier", "drain", "close"} /\ wpc # "off"
    /\ ~expired
    /\ expired' = TRUE
    /\ UNCHANGED <<venueVars, ledgerVars, memoryVars, workerVars, loopVars,
                   pc, kind, caller, kill_switch>>
=============================================================================
