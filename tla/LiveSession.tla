----------------------------- MODULE LiveSession -----------------------------
(***************************************************************************)
(* The launches of a deployment, vmtrader/trading/live.py, on top of the   *)
(* broker: each is a process that recovers what the previous one left open *)
(* (vmtrader/broker/live/reconcile.py), seeds its portfolio from the       *)
(* venue, and either rebalances or values the day.  A launch may die at    *)
(* any point; only the ledger and the venue outlive it.  Launches never    *)
(* overlap: cron starts them under one lock file.                          *)
(***************************************************************************)
EXTENDS LiveBroker

CONSTANT MaxLaunches    \* bound on the number of launches

ASSUME MaxLaunchesAssumption == MaxLaunches \in Nat

VARIABLE launches       \* launches so far
VARIABLE orphans        \* this launch found an intent without an order number

vars == <<brokerVars, launches, orphans>>

TypeOK ==
    /\ VenueTypeOK
    /\ LedgerTypeOK
    /\ BrokerTypeOK
    /\ launches \in Nat
    /\ orphans \in BOOLEAN

Init ==
    /\ VenueInit
    /\ LedgerInit
    /\ BrokerInit
    /\ launches = 0
    /\ orphans = FALSE

(* A process starts with no memory and the open rows to recover.           *)
Launch(k) ==
    /\ pc = "down" /\ launches < MaxLaunches
    /\ FreshMemory
    /\ kind' = k
    /\ pc' = "recover"
    /\ todo' = get_open_orders
    /\ launches' = launches + 1
    /\ orphans' = FALSE
    /\ UNCHANGED <<venueVars, ledgerVars, caller, kill_switch>>

(* Process exit, once a worker that is still running has ended.            *)
Exit ==
    /\ pc = "exiting" /\ Drained
    /\ FreshMemory
    /\ Goto("down")
    /\ todo' = {}
    /\ UNCHANGED <<venueVars, ledgerVars, kill_switch, launches, orphans>>

(* The process dies, or an exception nobody catches ends it.               *)
Crash ==
    /\ pc # "down"
    /\ FreshMemory
    /\ Goto("down")
    /\ todo' = {}
    /\ UNCHANGED <<venueVars, ledgerVars, kill_switch, launches, orphans>>
-----------------------------------------------------------------------------
(* reconcile: _recover_open_orders, then seed_from_venue.                  *)

RecoverOrphan(o) ==
    /\ pc = "recover"
    /\ Oldest(todo, o)
    /\ order_state[o] = "INTENT"
    /\ record_state(o, "REJECTED", TRUE)
    /\ orphans' = TRUE
    /\ todo' = todo \ {o}
    /\ UNCHANGED <<venueVars, fill_keys, fill_sum, curve, memoryVars, workerVars,
                   done, cur, pc, kind, caller, kill_switch, expired, launches>>

(* Mutant: the portfolio's watermark is not seeded from the ledger.        *)
RecoverUnseeded(o, r) ==
    /\ pc = "recover"
    /\ Oldest(todo, o)
    /\ order_state[o] # "INTENT"
    /\ open_orders' = open_orders \cup {o}
    /\ poll_once(o, r, already_booked(o))
    /\ todo' = todo \ {o}
    /\ UNCHANGED <<venueVars, order_state, orphan_note, curve, portfolio_booked,
                   pending, holding, workerVars, cur, pc, kind, caller,
                   kill_switch, expired, launches, orphans>>

(* Both watermarks start from what the ledger has; then one poll.          *)
RecoverOrder(o, r) ==
    /\ pc = "recover"
    /\ Oldest(todo, o)
    /\ order_state[o] # "INTENT"
    /\ open_orders' = open_orders \cup {o}
    /\ portfolio_booked' = [portfolio_booked EXCEPT ![o] = already_booked(o)]
    /\ poll_once(o, r, already_booked(o))
    /\ todo' = todo \ {o}
    /\ UNCHANGED <<venueVars, order_state, orphan_note, curve, pending, holding,
                   workerVars, cur, pc, kind, caller, kill_switch, expired,
                   launches, orphans>>

RecoverBook ==
    /\ pc = "recover" /\ todo = {}
    /\ StartDrain("recover")
    /\ UNCHANGED <<venueVars, ledgerVars, open_orders, booked_quantity,
                   portfolio_booked, holding, workerVars, loopVars, kill_switch,
                   expired, launches, orphans>>

(* The rest of reconcile, and what the launch makes of its result: an      *)
(* orphan stops a rebalance launch; the end-of-day launch reports it and   *)
(* goes on.                                                                *)
Seed ==
    /\ pc = "seed"
    /\ seed_from_venue
    /\ IF kind = "eod"
       THEN Goto("update") /\ todo' = open_orders
       ELSE Goto(IF orphans THEN "exiting" ELSE "gate") /\ todo' = {}
    /\ UNCHANGED <<venueVars, ledgerVars, open_orders, booked_quantity,
                   portfolio_booked, fill_buffer, pending, workerVars, done, cur,
                   kill_switch, expired, launches, orphans>>
-----------------------------------------------------------------------------
(* run_rebalance between reconciling and the burst.                        *)

GateOpen ==
    /\ pc = "gate" /\ ~kill_switch
    /\ Goto("update")
    /\ todo' = open_orders
    /\ UNCHANGED <<venueVars, ledgerVars, memoryVars, workerVars, done, cur,
                   kill_switch, expired, launches, orphans>>

(* The kill switch, a day without rebalancing, a closed market or, later,  *)
(* a signal without history: the launch is over, without settling.         *)
NotTrading ==
    /\ pc \in {"gate", "warm_up"}
    /\ Goto("exiting")
    /\ UNCHANGED <<venueVars, ledgerVars, memoryVars, workerVars, loopVars,
                   kill_switch, expired, launches, orphans>>

WarmedUp ==
    /\ pc = "warm_up"
    /\ Goto("burst")
    /\ UNCHANGED <<venueVars, ledgerVars, memoryVars, workerVars, loopVars,
                   kill_switch, expired, launches, orphans>>

(* run_end_of_day's last act.                                              *)
RecordEquity ==
    /\ pc = "equity"
    /\ record_equity
    /\ Goto("exiting")
    /\ UNCHANGED <<venueVars, order_state, orphan_note, fill_keys, fill_sum,
                   memoryVars, workerVars, loopVars, kill_switch, expired,
                   launches, orphans>>
-----------------------------------------------------------------------------
(* The world outside the process.                                          *)

Recovering ==
    \/ pc \in {"recover", "seed"}
    \/ pc \in {"drain", "close"} /\ caller = "recover"

VenueMoves ==
    /\ ~(CleanRecovery /\ Recovering)
    /\ \E o \in Orders : Fill(o) \/ DropRemainder(o)
    /\ UNCHANGED <<ledgerVars, memoryVars, workerVars, loopVars, pc, kind, caller,
                   kill_switch, expired, launches, orphans>>

DayTurns ==
    /\ pc = "down"
    /\ NewDay
    /\ UNCHANGED <<ledgerVars, memoryVars, workerVars, loopVars, pc, kind, caller,
                   kill_switch, expired, launches, orphans>>

(* The operator creates, or removes, the kill switch file.                 *)
OperatorSwitch ==
    /\ kill_switch' = ~kill_switch
    /\ UNCHANGED <<venueVars, ledgerVars, memoryVars, workerVars, loopVars, pc,
                   kind, caller, expired, launches, orphans>>
-----------------------------------------------------------------------------
RecoveryReports(o) == IF CleanRecovery THEN {TrueReport(o)} ELSE Reports(o)

Recovery ==
    \/ \E o \in Orders : \/ RecoverOrphan(o)
                         \/ \E r \in RecoveryReports(o) : RecoverOrder(o, r)
    \/ RecoverBook
    \/ Seed

(* Broker steps, which leave the session's own state alone.                *)
BrokerStep ==
    /\ \/ \E o \in Orders : SubmitIntent(o) \/ SubmitRefused(o)
       \/ PlaceAccepted \/ PlaceRaises(TRUE) \/ PlaceRaises(FALSE)
       \/ RecordSubmitted \/ RecordRejected
       \/ BookFill \/ DrainEnds
       \/ \E o \in Orders : CloseFilled(o) \/ CloseStale(o)
       \/ StaleEnds \/ CloseEnds
       \/ \E o \in Orders : \E r \in Reports(o) : UpdatePoll(o, r)
       \/ UpdateBook
       \/ SettleStart \/ SettleRound \/ SettleBook \/ SettleEnds
       \/ Unwind
    /\ UNCHANGED <<launches, orphans>>

(* What the main thread does by itself once a launch has started.          *)
Main == Recovery \/ GateOpen \/ WarmedUp \/ NotTrading \/ RecordEquity
          \/ BrokerStep \/ Exit

WorkerThread == Worker /\ UNCHANGED <<launches, orphans>>
Clock == DeadlinePasses /\ UNCHANGED <<launches, orphans>>
Interruption == Interrupt /\ UNCHANGED <<launches, orphans>>

Next ==
    \/ \E k \in {"rebalance", "eod"} : Launch(k)
    \/ Main
    \/ WorkerThread
    \/ Clock
    \/ Interruption
    \/ Crash
    \/ VenueMoves
    \/ DayTurns
    \/ OperatorSwitch

Spec == Init /\ [][Next]_vars

(* Each thread keeps running and time passes; nothing is assumed of the    *)
(* venue, the operator, or of launches being made.                         *)
FairSpec == Spec /\ WF_vars(Main) /\ WF_vars(WorkerThread) /\ WF_vars(Clock)
-----------------------------------------------------------------------------
(* Properties.                                                             *)

(* Per order, the fill rows add up to the largest cumulative quantity they *)
(* are keyed by.  '_already_booked' is that sum, so this is what lets a    *)
(* later launch resume from the ledger exactly where the venue was last    *)
(* seen, after any crash or failed task.                                   *)
LedgerTelescopes ==
    \A o \in Orders :
        /\ fill_sum[o] \in fill_keys[o] \cup {0}
        /\ \A k \in fill_keys[o] : k <= fill_sum[o]

(* Neither what the portfolio has booked of an open order nor what the     *)
(* poller has seen of it exceeds what is on record, and what is on record  *)
(* never exceeds what the venue filled: memory is never ahead of the       *)
(* evidence, whichever thread is where.  Between the two in memory nothing *)
(* is claimed: the portfolio may book a buffered fill before the worker    *)
(* moves its own watermark ('_poll_once', '_drain_fill_buffer').           *)
WatermarksInOrder ==
    /\ \A o \in open_orders : /\ portfolio_booked[o] <= fill_sum[o]
                              /\ booked_quantity[o] <= fill_sum[o]
    /\ \A o \in Orders : fill_sum[o] <= filled[o]

(* Every SUBMITTED row is being tracked by the running process, or is      *)
(* still in line to be recovered by it, and nothing else is tracked: no    *)
(* order is dropped from memory while its row says it is working, whether  *)
(* the launch was stopped, interrupted or out of time.                     *)
EveryOpenOrderTracked ==
    LET submitted == {o \in Orders : order_state[o] = "SUBMITTED"} IN
    pc # "down" =>
        /\ open_orders \subseteq submitted
        /\ submitted \subseteq open_orders \cup
                               (IF pc = "recover" THEN todo ELSE {})

(* An order that reached the venue has a row, whatever happened to the     *)
(* process that sent it: "a process that dies mid-call leaves evidence of  *)
(* an order that may exist" (submit_order).                                *)
EvidenceOfEveryOrder ==
    \A o \in accepted : order_state[o] # "none"

(* The main thread books, closes and decides how settlement ends only when *)
(* no poll is queued or running: the drain barrier gives the books a       *)
(* single writer.  Only the interrupted path books past a running poll.    *)
SingleWriter ==
    (pc \in {"drain", "close", "settle", "stale"} /\ caller # "interrupted")
        => tasks = {} /\ wpc \in {"off", "idle"}

(* An order is closed, FILLED or STALE, only when the portfolio has all    *)
(* that is on record for it and nothing of it is waiting in the buffer.    *)
ClosedWithEverythingBooked ==
    [][\A o \in open_orders \ open_orders' :
          pc' # "down" => /\ portfolio_booked[o] = fill_sum[o]
                          /\ fill_buffer = <<>> /\ pending = <<>>]_vars

(* The day is valued on a portfolio that has every fill on record:         *)
(* run_end_of_day absorbs late fills before it records the equity.         *)
EquityCountsEveryFill ==
    [][curve' # curve => /\ fill_buffer = <<>> /\ pending = <<>>
                         /\ \A o \in Orders : holding[o] >= fill_sum[o]]_vars

(* A launch always ends: settlement is bounded by its deadline even when   *)
(* every poll fails and no order ever finishes.                            *)
LaunchEnds == pc # "down" ~> pc = "down"

(* The portfolio never holds more than the venue filled.  "Believing we    *)
(* hold more than we do leads to selling shares that are not there"        *)
(* (reconcile.py).                                                         *)
NeverOverstated ==
    \A o \in Orders : holding[o] <= filled[o]

-----------------------------------------------------------------------------
(* What a comment says and the code does not do.                           *)

(* "Late fills of orders abandoned by an earlier deadline arrive here,     *)
(* which is why leaving them stale is safe" (live_broker.py, update): when *)
(* update has its list of orders to poll, every abandoned order with fills *)
(* not on record is in it.  _close_order took it out of the open set and   *)
(* recovery leaves terminal rows alone, so it never is.                    *)
LateFillsArePolled ==
    pc = "update" =>
        {o \in Orders : order_state[o] = "STALE" /\ filled[o] > fill_sum[o]}
            \subseteq open_orders

-----------------------------------------------------------------------------
(* The ledger implements the audit promise: whatever the threads, crashes  *)
(* and launches do, a row moves only along its life, and what is on record *)
(* for it only grows, only while it is SUBMITTED, and only up to its       *)
(* quantity.                                                               *)
Lifecycle == INSTANCE OrderLifecycle
                 WITH row <- order_state, recorded <- fill_sum

ImplementsLifecycle == Lifecycle!Spec
-----------------------------------------------------------------------------
(* The inductive invariant behind the safety properties.                   *)

Submitting == {"placing", "placed", "failed", "refused", "stopping"}
Polling == {"record", "append", "advance"}
BeforeSettling == {"recover", "seed", "gate", "update", "warm_up", "burst", "equity"}
                     \cup Submitting

(* An order that is not ended has quantity left to fill.                   *)
VenueInv ==
    \A o \in Orders : /\ filled[o] <= Quantity[o]
                      /\ filled[o] = Quantity[o] => o \in ended

(* The ledger knows of nothing the venue did not fill, and of no fill for  *)
(* an order whose submission is not on record.                             *)
LedgerInv ==
    \A o \in Orders :
        /\ fill_sum[o] \in fill_keys[o] \cup {0}
        /\ \A k \in fill_keys[o] : k <= fill_sum[o]
        /\ fill_sum[o] <= filled[o]
        /\ order_state[o] \in {"none", "INTENT"} => fill_sum[o] = 0
        /\ o \in accepted => order_state[o] # "none"

(* Which rows the process has in hand.                                     *)
TrackingInv ==
    /\ \A o \in open_orders : order_state[o] = "SUBMITTED"
    /\ pc = "down" => open_orders = {}
    /\ pc = "recover" =>
          \A o \in Orders : o \in todo <=> /\ order_state[o] \in {"INTENT", "SUBMITTED"}
                                           /\ o \notin open_orders
    /\ pc \notin {"down", "recover"} =>
          \A o \in Orders : order_state[o] = "SUBMITTED" => o \in open_orders
    /\ pc = "update" => todo \subseteq open_orders
    /\ done \subseteq open_orders
    /\ pc \in Submitting => cur \in Orders /\ order_state[cur] = "INTENT"

(* When the worker exists, and when it may be in the middle of something.  *)
WorkerInv ==
    /\ tasks \subseteq open_orders
    /\ pc \in BeforeSettling \cup {"down"} => wpc = "off"
    /\ pc \in {"drain", "close"} /\ caller \in {"recover", "update"} => wpc = "off"
    /\ wpc = "off" => tasks = {}
    /\ wpc \in Polling \/ tasks # {} =>
          \/ pc \in {"barrier", "unwind"}
          \/ pc \in {"drain", "exiting"} /\ caller = "interrupted"
    /\ pc = "close" => caller \in {"recover", "update", "settle"}
    /\ pc = "stale" => caller = "expired"
    /\ pc \in {"settle", "barrier"} => wpc # "off"
    /\ pc \in {"drain", "close"} /\ caller = "settle" => wpc # "off"
    /\ wpc \in Polling => /\ wtask \in open_orders
                          /\ wreport.filled <= filled[wtask]
                          /\ booked_quantity[wtask] < wreport.filled

(* The poller's watermark is the ledger's total, except between the        *)
(* worker's commit and its own update of the watermark.                    *)
WatermarkInv ==
    \A o \in open_orders :
        IF wpc \in {"append", "advance"} /\ o = wtask
        THEN fill_sum[o] = wreport.filled
        ELSE booked_quantity[o] = fill_sum[o]

(* The fills in flight to the portfolio, and that they are all on record.  *)
FillsOf(buffer) == {buffer[i] : i \in 1..Len(buffer)}
InFlight == FillsOf(fill_buffer) \cup FillsOf(pending)

RecordedFirstInv ==
    /\ \A f \in InFlight : f.cumulative_filled <= fill_sum[f.order_no]
    /\ \A o \in Orders : portfolio_booked[o] <= fill_sum[o]

(* What the portfolio lacks of an open order is in the buffer, in the      *)
(* drain's hands or in the worker's.                                       *)
NothingLostInv ==
    \A o \in open_orders :
        \/ portfolio_booked[o] = fill_sum[o]
        \/ \E f \in InFlight : f.order_no = o /\ f.cumulative_filled = fill_sum[o]
        \/ wpc = "append" /\ wtask = o

(* When there can be fills in the buffer, or in the drain's hands.         *)
BufferInv ==
    /\ pc \notin {"recover", "update", "barrier", "unwind", "drain", "exiting"} =>
          fill_buffer = <<>>
    /\ pc = "drain" /\ caller # "interrupted" => fill_buffer = <<>>
    /\ pc # "drain" => pending = <<>>

IInv ==
    /\ TypeOK
    /\ VenueInv
    /\ LedgerInv
    /\ TrackingInv
    /\ WorkerInv
    /\ WatermarkInv
    /\ RecordedFirstInv
    /\ NothingLostInv
    /\ BufferInv
=============================================================================
