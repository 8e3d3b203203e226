------------------------ MODULE LiveSession_proofs ------------------------
(***************************************************************************)
(* Proofs that the safety properties of LiveSession hold for every set of  *)
(* orders, every quantity and every number of launches.                    *)
(*                                                                         *)
(* The argument is one inductive invariant, IInv, to which the last part   *)
(* adds what the portfolio holds (HoldingInv, CleanInv).  The step lemmas  *)
(* come in two kinds: a lemma about which steps touch a part of the state  *)
(* (VenueSteps, RowSteps, FillSteps, FlightSteps, SeedSteps, OpenSteps),   *)
(* and a lemma per conjunct, which follows from the former or goes through *)
(* the actions.  The theorems read the properties off the invariants.      *)
(***************************************************************************)
EXTENDS LiveSession, TLAPS

(* The only steps that move the venue are a submission that reaches it, a  *)
(* fill, a dropped remainder and the turn of the day.                      *)
LEMMA VenueSteps ==
    ASSUME [Next]_vars
    PROVE  \/ UNCHANGED venueVars
           \/ pc = "placing" /\ Accept(cur)
           \/ \E o \in Orders : Fill(o) \/ DropRemainder(o)
           \/ NewDay
<1>1. CASE Recovery
  BY <1>1 DEF Recovery, RecoverOrphan, RecoverOrder, RecoverBook, Seed
<1>2. CASE BrokerStep
  <2>1. CASE PlaceAccepted \/ PlaceRaises(TRUE) \/ PlaceRaises(FALSE)
    BY <2>1 DEF PlaceAccepted, PlaceRaises
  <2>2. QED
    BY <1>2, <2>1 DEF BrokerStep, SubmitIntent, SubmitRefused, RecordSubmitted,
       RecordRejected, BookFill, DrainEnds, CloseFilled, CloseStale, CloseOrder,
       StaleEnds, CloseEnds, UpdatePoll, UpdateBook, SettleStart, SettleRound,
       SettleBook, SettleEnds, Unwind
<1>3. CASE WorkerThread
  BY <1>3 DEF WorkerThread, Worker, WorkerPoll, WorkerFails, WorkerRecord,
     WorkerAppend, WorkerAdvance
<1>4. CASE VenueMoves \/ DayTurns
  BY <1>4 DEF VenueMoves, DayTurns
<1>5. CASE UNCHANGED vars
  BY <1>5 DEF vars, brokerVars
<1>6. QED
  BY <1>1, <1>2, <1>3, <1>4, <1>5 DEF Next, Main, Launch, GateOpen, WarmedUp, NotTrading,
     RecordEquity, Exit, Clock, DeadlinePasses, Interruption, Interrupt, Crash,
     OperatorSwitch

(* An enquiry never reports more than the venue filled (get_order_report), *)
(* during recovery included.                                               *)
LEMMA ReportsTyped ==
    ASSUME TypeOK, NEW o \in Orders
    PROVE  /\ \A r \in Reports(o) : r \in ReportType /\ r.filled <= filled[o]
           /\ RecoveryReports(o) \subseteq Reports(o)
<1>1. EmptyReport \in ReportType /\ EmptyReport.filled = 0
  BY DEF EmptyReport, ReportType
<1>2. filled[o] \in Nat
  BY DEF TypeOK, VenueTypeOK
<1>3. CASE o \in today
  BY <1>1, <1>2, <1>3 DEF TrueReport, ReportType, Reports, RecoveryReports
<1>4. CASE o \notin today
  BY <1>1, <1>2, <1>4 DEF TrueReport, Reports, RecoveryReports
<1>5. QED
  BY <1>3, <1>4

(* Every step keeps the venue's state well typed.                          *)
LEMMA VenueTypeStep ==
    ASSUME TypeOK, TrackingInv, [Next]_vars
    PROVE  VenueTypeOK'
<1> USE DEF TypeOK, VenueTypeOK
<1>1. CASE UNCHANGED venueVars
  BY <1>1 DEF venueVars
<1>2. CASE pc = "placing" /\ Accept(cur)
  BY <1>2 DEF Accept, TrackingInv, Submitting
<1>3. ASSUME NEW o \in Orders, Fill(o)
      PROVE  VenueTypeOK'
  BY <1>3 DEF Fill
<1>4. ASSUME NEW o \in Orders, DropRemainder(o)
      PROVE  VenueTypeOK'
  BY <1>4 DEF DropRemainder
<1>5. CASE NewDay
  BY <1>5 DEF NewDay
<1>6. QED
  BY <1>1, <1>2, <1>3, <1>4, <1>5, VenueSteps

(* The venue never takes a fill back.                                      *)
LEMMA FilledGrows ==
    ASSUME TypeOK, [Next]_vars
    PROVE  \A o \in Orders : /\ filled[o] \in Nat /\ filled'[o] \in Nat
                             /\ filled[o] <= filled'[o]
  BY VenueSteps DEF TypeOK, VenueTypeOK, venueVars, Accept, Fill, DropRemainder, NewDay

(* Every step keeps filled quantities within the order's, and ends an      *)
(* order that is completely filled.                                        *)
LEMMA VenueStep ==
    ASSUME TypeOK, VenueInv, TrackingInv, [Next]_vars
    PROVE  VenueInv'
<1> USE OrdersAssumption DEF TypeOK, VenueTypeOK, VenueInv
<1>1. CASE UNCHANGED venueVars
  BY <1>1 DEF venueVars
<1>2. CASE pc = "placing" /\ Accept(cur)
  BY <1>2 DEF Accept
<1>3. ASSUME NEW o \in Orders, Fill(o)
      PROVE  VenueInv'
  BY <1>3 DEF Fill
<1>4. ASSUME NEW o \in Orders, DropRemainder(o)
      PROVE  VenueInv'
  BY <1>4 DEF DropRemainder
<1>5. CASE NewDay
  BY <1>5 DEF NewDay
<1>6. QED
  BY <1>1, <1>2, <1>3, <1>4, <1>5, VenueSteps

(* A step changes at most one order row, along the life of an order, and   *)
(* then records no fill: record_intent, record_submitted, record_state and *)
(* their callers in submit_order, _close_order and recovery.               *)
LEMMA RowSteps ==
    ASSUME TypeOK, TrackingInv, [Next]_vars
    PROVE  \/ UNCHANGED order_state
           \/ /\ UNCHANGED <<fill_keys, fill_sum>>
              /\ \E o \in Orders, s \in States :
                   /\ order_state' = [order_state EXCEPT ![o] = s]
                   /\ \/ order_state[o] = "none" /\ s = "INTENT"
                      \/ order_state[o] = "INTENT" /\ s \in {"SUBMITTED", "REJECTED"}
                      \/ order_state[o] = "SUBMITTED" /\ s \in {"FILLED", "STALE"}
<1> DEFINE Row(o, s) ==
       /\ UNCHANGED <<fill_keys, fill_sum>>
       /\ order_state' = [order_state EXCEPT ![o] = s]
<1> USE DEF States, TERMINAL_STATES
<1>1. CASE Recovery
  BY <1>1 DEF Recovery, RecoverOrphan, RecoverOrder, RecoverBook, Seed, record_state,
     ledgerVars
<1>2. CASE BrokerStep
  <2>1. ASSUME NEW o \in Orders, SubmitIntent(o) \/ SubmitRefused(o)
        PROVE  order_state[o] = "none" /\ Row(o, "INTENT")
    BY <2>1 DEF SubmitIntent, SubmitRefused, record_intent, Oldest, TypeOK, LedgerTypeOK
  <2>2. CASE RecordSubmitted \/ RecordRejected
    BY <2>2 DEF RecordSubmitted, record_submitted, RecordRejected, record_state,
       TrackingInv, Submitting
  <2>3. ASSUME NEW o \in Orders, CloseFilled(o) \/ CloseStale(o)
        PROVE  order_state[o] = "SUBMITTED" /\ (Row(o, "FILLED") \/ Row(o, "STALE"))
    BY <2>3 DEF CloseFilled, CloseStale, CloseOrder, record_state, Oldest, TrackingInv
  <2>4. QED
    BY <1>2, <2>1, <2>2, <2>3 DEF BrokerStep, PlaceAccepted, PlaceRaises,
       BookFill, DrainEnds, StaleEnds, CloseEnds, UpdatePoll, UpdateBook, SettleStart,
       SettleRound, SettleBook, SettleEnds, Unwind, ledgerVars
<1>3. CASE WorkerThread
  BY <1>3 DEF WorkerThread, Worker, WorkerPoll, WorkerFails, WorkerRecord,
     WorkerAppend, WorkerAdvance, ledgerVars
<1>4. CASE UNCHANGED vars
  BY <1>4 DEF vars, brokerVars, ledgerVars
<1>5. QED
  BY <1>1, <1>2, <1>3, <1>4 DEF Next, Main, Launch, GateOpen, WarmedUp, NotTrading,
     RecordEquity, Exit, Clock, DeadlinePasses, Interruption, Interrupt, Crash,
     OperatorSwitch, VenueMoves, DayTurns, ledgerVars

(* record_fill with a cumulative quantity above what is on record finds no *)
(* row under its key and adds exactly the missing increment.               *)
LEMMA RecordFill ==
    ASSUME TypeOK, LedgerInv, NEW o \in Orders, NEW n \in Nat,
           fill_sum[o] < n, record_fill(o, n, n - fill_sum[o])
    PROVE  /\ fill_keys' = [fill_keys EXCEPT ![o] = @ \cup {n}]
           /\ fill_sum' = [fill_sum EXCEPT ![o] = n]
<1>1. fill_sum[o] \in Nat /\ fill_keys[o] \subseteq Nat
  BY DEF TypeOK, LedgerTypeOK
<1>2. n \notin fill_keys[o]
  BY <1>1 DEF LedgerInv
<1>3. fill_sum[o] + (n - fill_sum[o]) = n
  BY <1>1
<1>4. QED
  BY <1>2, <1>3 DEF record_fill

(* What one _poll_once on the main thread does when it starts from the     *)
(* ledger's total: nothing, or the ledger, the buffer and the watermark    *)
(* all move to the reported quantity.                                      *)
LEMMA PollOnce ==
    ASSUME TypeOK, LedgerInv, NEW o \in Orders, NEW r \in Reports(o),
           poll_once(o, r, fill_sum[o])
    PROVE  \/ /\ UNCHANGED <<fill_keys, fill_sum, fill_buffer>>
              /\ booked_quantity' = [booked_quantity EXCEPT ![o] = fill_sum[o]]
           \/ /\ r.filled \in Nat /\ fill_sum[o] < r.filled /\ r.filled <= filled[o]
              /\ fill_keys' = [fill_keys EXCEPT ![o] = @ \cup {r.filled}]
              /\ fill_sum' = [fill_sum EXCEPT ![o] = r.filled]
              /\ fill_buffer' = Append(fill_buffer, [order_no |-> o,
                                                     cumulative_filled |-> r.filled])
              /\ booked_quantity' = [booked_quantity EXCEPT ![o] = r.filled]
<1>1. CASE r.filled > fill_sum[o]
  <2>1. r.filled \in Nat /\ r.filled <= filled[o]
    BY ReportsTyped DEF ReportType
  <2>2. fill_sum[o] < r.filled
    BY <1>1, <2>1 DEF TypeOK, LedgerTypeOK
  <2>3. record_fill(o, r.filled, r.filled - fill_sum[o])
    BY <1>1 DEF poll_once
  <2>4. QED
    BY <1>1, <2>1, <2>2, <2>3, RecordFill DEF poll_once
<1>2. CASE ~(r.filled > fill_sum[o])
  BY <1>2 DEF poll_once
<1>3. QED
  BY <1>1, <1>2

(* A fill is put on record: the total of a SUBMITTED row moves up to n.    *)
Recorded(o, n) ==
    /\ order_state[o] = "SUBMITTED"
    /\ fill_sum[o] < n
    /\ n <= filled[o]
    /\ fill_keys' = [fill_keys EXCEPT ![o] = @ \cup {n}]
    /\ fill_sum' = [fill_sum EXCEPT ![o] = n]
    /\ UNCHANGED <<order_state, venueVars>>

(* Whoever polls (recovery, update or the fill worker), a fill is recorded *)
(* only for a SUBMITTED row, and moves its total up to a quantity the      *)
(* venue has really filled.                                                *)
LEMMA FillSteps ==
    ASSUME TypeOK, LedgerInv, TrackingInv, WorkerInv, WatermarkInv, [Next]_vars
    PROVE  \/ UNCHANGED <<fill_keys, fill_sum>>
           \/ \E o \in Orders, n \in Nat : Recorded(o, n)
<1>1. CASE Recovery
  <2>1. ASSUME NEW o \in Orders, NEW r \in RecoveryReports(o), RecoverOrder(o, r)
        PROVE  UNCHANGED <<fill_keys, fill_sum>> \/ \E n \in Nat : Recorded(o, n)
    <3>1. r \in Reports(o)
      BY ReportsTyped
    <3>2. order_state[o] = "SUBMITTED"
      BY <2>1 DEF RecoverOrder, Oldest, TrackingInv
    <3>3. poll_once(o, r, fill_sum[o]) /\ UNCHANGED <<order_state, venueVars>>
      BY <2>1 DEF RecoverOrder, already_booked
    <3>4. QED
      BY <3>1, <3>2, <3>3, PollOnce DEF Recorded
  <2>2. QED
    BY <1>1, <2>1 DEF Recovery, RecoverOrphan, RecoverBook, Seed, ledgerVars
<1>2. CASE BrokerStep
  <2>1. ASSUME NEW o \in Orders, NEW r \in Reports(o), UpdatePoll(o, r)
        PROVE  UNCHANGED <<fill_keys, fill_sum>> \/ \E n \in Nat : Recorded(o, n)
    <3>1. booked_quantity[o] = fill_sum[o] /\ order_state[o] = "SUBMITTED"
      BY <2>1 DEF UpdatePoll, Oldest, TrackingInv, WatermarkInv, WorkerInv, BeforeSettling
    <3>2. poll_once(o, r, fill_sum[o]) /\ UNCHANGED <<order_state, venueVars>>
      BY <2>1, <3>1 DEF UpdatePoll
    <3>3. QED
      BY <3>1, <3>2, PollOnce DEF Recorded
  <2>2. QED
    BY <1>2, <2>1 DEF BrokerStep, SubmitIntent, SubmitRefused, PlaceAccepted,
       PlaceRaises, RecordSubmitted, RecordRejected, BookFill, DrainEnds, CloseFilled,
       CloseStale, CloseOrder, StaleEnds, CloseEnds, UpdateBook, SettleStart,
       SettleRound, SettleBook, SettleEnds, Unwind, ledgerVars
<1>3. CASE WorkerThread
  <2>1. ASSUME WorkerRecord
        PROVE  Recorded(wtask, wreport.filled) /\ wtask \in Orders /\ wreport.filled \in Nat
    <3>1. wtask \in open_orders /\ booked_quantity[wtask] < wreport.filled
             /\ wreport.filled <= filled[wtask]
      BY <2>1 DEF WorkerRecord, WorkerInv, Polling
    <3>2. wtask \in Orders /\ wreport.filled \in Nat
      BY <3>1 DEF TypeOK, BrokerTypeOK, ReportType
    <3>3. booked_quantity[wtask] = fill_sum[wtask]
      BY <2>1, <3>1 DEF WorkerRecord, WatermarkInv
    <3>4. record_fill(wtask, wreport.filled, wreport.filled - fill_sum[wtask])
      BY <2>1, <3>3 DEF WorkerRecord
    <3>5. QED
      BY <2>1, <3>1, <3>2, <3>3, <3>4, RecordFill DEF Recorded, WorkerRecord, TrackingInv
  <2>2. QED
    BY <1>3, <2>1 DEF WorkerThread, Worker, WorkerPoll, WorkerFails, WorkerAppend,
       WorkerAdvance, ledgerVars
<1>4. CASE UNCHANGED vars
  BY <1>4 DEF vars, brokerVars, ledgerVars
<1>5. QED
  BY <1>1, <1>2, <1>3, <1>4 DEF Next, Main, Launch, GateOpen, WarmedUp, NotTrading,
     RecordEquity, Exit, Clock, DeadlinePasses, Interruption, Interrupt, Crash,
     OperatorSwitch, VenueMoves, DayTurns, ledgerVars

(* Every step keeps the fill rows telescoping, behind the venue, and       *)
(* absent for an order that was not submitted.                             *)
LEMMA LedgerStep ==
    ASSUME TypeOK, LedgerInv, TrackingInv, WorkerInv, WatermarkInv, [Next]_vars
    PROVE  LedgerInv'
<1>1. \A o \in Orders : filled[o] \in Nat /\ filled'[o] \in Nat /\ filled[o] <= filled'[o]
  BY FilledGrows
<1>2. \A o \in accepted' : o \in accepted \/ order_state[o] = "INTENT"
  BY VenueSteps DEF venueVars, Accept, Fill, DropRemainder, NewDay, TrackingInv, Submitting
<1>3. \A o \in Orders :
         /\ order_state'[o] \in {"none", "INTENT"} => order_state[o] \in {"none", "INTENT"}
         /\ order_state[o] # "none" => order_state'[o] # "none"
  BY RowSteps DEF TypeOK, LedgerTypeOK
<1>4. \A o \in Orders : fill_sum[o] \in Nat /\ fill_keys[o] \subseteq Nat
  BY DEF TypeOK, LedgerTypeOK
<1>5. CASE UNCHANGED <<fill_keys, fill_sum>>
  BY <1>1, <1>2, <1>3, <1>4, <1>5 DEF LedgerInv
<1>6. ASSUME NEW o \in Orders, NEW n \in Nat, Recorded(o, n)
      PROVE  LedgerInv'
  <2>1. SUFFICES ASSUME NEW p \in Orders
                 PROVE  /\ fill_sum'[p] \in fill_keys'[p] \cup {0}
                        /\ \A k \in fill_keys'[p] : k <= fill_sum'[p]
                        /\ fill_sum'[p] <= filled'[p]
                        /\ order_state'[p] \in {"none", "INTENT"} => fill_sum'[p] = 0
                        /\ p \in accepted' => order_state'[p] # "none"
    BY DEF LedgerInv
  <2>2. CASE p = o
    <3>1. fill_sum'[p] = n /\ fill_keys'[p] = fill_keys[p] \cup {n}
      BY <1>6, <2>2 DEF Recorded, TypeOK, LedgerTypeOK
    <3>2. order_state'[p] = "SUBMITTED" /\ fill_sum[p] < n /\ n <= filled'[p]
      BY <1>6, <2>2 DEF Recorded, venueVars
    <3>3. QED
      BY <1>4, <3>1, <3>2 DEF LedgerInv
  <2>3. CASE p # o
    <3>1. fill_sum'[p] = fill_sum[p] /\ fill_keys'[p] = fill_keys[p]
      BY <1>6, <2>3 DEF Recorded, TypeOK, LedgerTypeOK
    <3>2. order_state'[p] = order_state[p] /\ filled'[p] = filled[p] /\ accepted' = accepted
      BY <1>6 DEF Recorded, venueVars
    <3>3. QED
      BY <3>1, <3>2 DEF LedgerInv
  <2>4. QED
    BY <2>2, <2>3
<1>7. QED
  BY <1>5, <1>6, FillSteps

(* Every step keeps the recovery notes and the equity curve well typed.    *)
LEMMA NoteSteps ==
    ASSUME TypeOK, TrackingInv, [Next]_vars
    PROVE  orphan_note' \subseteq Orders /\ curve' \in Nat
<1> DEFINE Kept == UNCHANGED orphan_note /\ UNCHANGED curve
<1>1. orphan_note \subseteq Orders /\ curve \in Nat
  BY DEF TypeOK, LedgerTypeOK
<1>2. CASE RecordEquity
  BY <1>1, <1>2 DEF RecordEquity, record_equity
<1>3. CASE RecordRejected
  BY <1>1, <1>3 DEF RecordRejected, record_state
<1>4. ASSUME NEW o \in Orders,
             RecoverOrphan(o) \/ CloseFilled(o) \/ CloseStale(o)
      PROVE  orphan_note' \subseteq Orders /\ curve' \in Nat
  BY <1>1, <1>4 DEF RecoverOrphan, CloseFilled, CloseStale, CloseOrder, record_state
<1>5. CASE Recovery
  BY <1>1, <1>4, <1>5 DEF Recovery, RecoverOrder, RecoverBook, Seed, ledgerVars
<1>6. CASE BrokerStep
  <2>1. Kept \/ RecordRejected \/ \E o \in Orders : CloseFilled(o) \/ CloseStale(o)
    BY <1>6 DEF BrokerStep, SubmitIntent, SubmitRefused, PlaceAccepted, PlaceRaises,
       RecordSubmitted, BookFill, DrainEnds, StaleEnds, CloseEnds, UpdatePoll,
       UpdateBook, SettleStart, SettleRound, SettleBook, SettleEnds, Unwind, ledgerVars
  <2>2. QED
    BY <1>1, <1>3, <1>4, <2>1
<1>7. CASE WorkerThread
  BY <1>1, <1>7 DEF WorkerThread, Worker, WorkerPoll, WorkerFails, WorkerRecord,
     WorkerAppend, WorkerAdvance, ledgerVars
<1>8. CASE UNCHANGED vars
  BY <1>1, <1>8 DEF vars, brokerVars, ledgerVars
<1>9. QED
  BY <1>1, <1>2, <1>5, <1>6, <1>7, <1>8 DEF Next, Main, Launch, GateOpen, WarmedUp,
     NotTrading, Exit, Clock, DeadlinePasses, Interruption, Interrupt, Crash,
     OperatorSwitch, VenueMoves, DayTurns, ledgerVars

(* Every step keeps the ledger well typed; for the fill rows this needs    *)
(* the invariant, since a total is moved by a difference.                  *)
LEMMA LedgerTypeStep ==
    ASSUME TypeOK, LedgerInv, TrackingInv, WorkerInv, WatermarkInv, [Next]_vars
    PROVE  LedgerTypeOK'
<1>1. order_state' \in [Orders -> States]
  BY RowSteps DEF TypeOK, LedgerTypeOK
<1>2. fill_keys' \in [Orders -> SUBSET Nat] /\ fill_sum' \in [Orders -> Nat]
  BY FillSteps DEF Recorded, TypeOK, LedgerTypeOK
<1>3. QED
  BY <1>1, <1>2, NoteSteps DEF LedgerTypeOK

(* Every step keeps the broker's memory and both threads' control state    *)
(* well typed.                                                             *)
LEMMA BrokerTypeStep ==
    ASSUME TypeOK, TrackingInv, WorkerInv, [Next]_vars
    PROVE  BrokerTypeOK'
<1> USE DEF TypeOK, BrokerTypeOK
<1>r. EmptyReport \in ReportType /\ Zero \in [Orders -> Nat] /\ <<>> \in Seq(FillType)
  BY DEF EmptyReport, ReportType, Zero
<1>1. ASSUME NEW k \in {"rebalance", "eod"}, Launch(k)
      PROVE  BrokerTypeOK'
  BY <1>1, <1>r DEF Launch, FreshMemory, get_open_orders, Steps, WorkerSteps, NoOrder
<1>2. CASE Exit \/ Crash
  BY <1>2, <1>r DEF Exit, Crash, FreshMemory, Goto, Steps, WorkerSteps, NoOrder
<1>3. CASE Recovery
  <2>1. ASSUME NEW o \in Orders, RecoverOrphan(o)
        PROVE  BrokerTypeOK'
    BY <2>1 DEF RecoverOrphan, memoryVars, workerVars
  <2>2. ASSUME NEW o \in Orders, NEW r \in RecoveryReports(o), RecoverOrder(o, r)
        PROVE  BrokerTypeOK'
    <3>1. r.filled \in Nat /\ fill_sum[o] \in Nat
      BY ReportsTyped DEF ReportType, LedgerTypeOK
    <3>2. [order_no |-> o, cumulative_filled |-> r.filled] \in FillType
      BY <3>1 DEF FillType
    <3>3. fill_buffer' \in Seq(FillType)
      BY <2>2, <3>2 DEF RecoverOrder, poll_once
    <3>4. QED
      BY <2>2, <3>1, <3>3 DEF RecoverOrder, poll_once, already_booked, workerVars
  <2>3. CASE RecoverBook
    BY <2>3, <1>r DEF RecoverBook, StartDrain, Steps, Callers, workerVars, loopVars
  <2>4. CASE Seed
    BY <2>4 DEF Seed, seed_from_venue, Goto, Steps, workerVars, VenueTypeOK
  <2>5. QED
    BY <1>3, <2>1, <2>2, <2>3, <2>4 DEF Recovery
<1>4. CASE GateOpen \/ NotTrading \/ WarmedUp \/ RecordEquity
  BY <1>4 DEF GateOpen, NotTrading, WarmedUp, RecordEquity, Goto, Steps,
     memoryVars, workerVars, loopVars
<1>5. CASE BrokerStep
  <2>1. ASSUME NEW o \in Orders, SubmitIntent(o) \/ SubmitRefused(o)
        PROVE  BrokerTypeOK'
    BY <2>1 DEF SubmitIntent, SubmitRefused, Goto, Steps, memoryVars, workerVars
  <2>2. CASE PlaceAccepted \/ PlaceRaises(TRUE) \/ PlaceRaises(FALSE)
    BY <2>2 DEF PlaceAccepted, PlaceRaises, Goto, Steps, memoryVars, workerVars, loopVars
  <2>3. CASE RecordSubmitted \/ RecordRejected
    <3>1. CASE RecordSubmitted
      <4>1. cur \in Orders
        BY <3>1 DEF RecordSubmitted, TrackingInv, Submitting
      <4>2. QED
        BY <3>1, <4>1 DEF RecordSubmitted, Goto, Steps, workerVars
    <3>2. CASE RecordRejected
      BY <3>2 DEF RecordRejected, Goto, Steps, memoryVars, workerVars
    <3>3. QED
      BY <2>3, <3>1, <3>2
  <2>4. CASE BookFill
    <3> DEFINE f == Head(pending)
    <3>1. f \in FillType /\ Tail(pending) \in Seq(FillType)
      BY <2>4 DEF BookFill
    <3>2. /\ f.order_no \in Orders /\ f.cumulative_filled \in Nat
          /\ portfolio_booked[f.order_no] \in Nat /\ holding[f.order_no] \in Nat
      BY <3>1 DEF FillType
    <3>3. f.cumulative_filled > portfolio_booked[f.order_no] =>
             holding[f.order_no] + (f.cumulative_filled - portfolio_booked[f.order_no]) \in Nat
      BY <3>2
    <3>4. holding' \in [Orders -> Nat] /\ portfolio_booked' \in [Orders -> Nat]
      BY <2>4, <3>2, <3>3 DEF BookFill
    <3>5. QED
      BY <2>4, <3>1, <3>4 DEF BookFill, workerVars, loopVars
  <2>5. CASE DrainEnds \/ StaleEnds \/ CloseEnds
    BY <2>5 DEF DrainEnds, AfterDrain, StaleEnds, CloseEnds, AfterClose, Goto, Steps,
       memoryVars, workerVars, loopVars
  <2>6. ASSUME NEW o \in Orders, CloseFilled(o) \/ CloseStale(o)
        PROVE  BrokerTypeOK'
    BY <2>6 DEF CloseFilled, CloseStale, CloseOrder, workerVars
  <2>7. ASSUME NEW o \in Orders, NEW r \in Reports(o), UpdatePoll(o, r)
        PROVE  BrokerTypeOK'
    <3>1. r.filled \in Nat /\ booked_quantity[o] \in Nat
      BY ReportsTyped DEF ReportType
    <3>2. [order_no |-> o, cumulative_filled |-> r.filled] \in FillType
      BY <3>1 DEF FillType
    <3>3. fill_buffer' \in Seq(FillType)
      BY <2>7, <3>2 DEF UpdatePoll, poll_once
    <3>4. QED
      BY <2>7, <3>1, <3>3 DEF UpdatePoll, poll_once, workerVars
  <2>8. CASE UpdateBook \/ SettleBook
    BY <2>8, <1>r DEF UpdateBook, SettleBook, StartDrain, Steps, Callers, workerVars, loopVars
  <2>9. CASE SettleStart \/ SettleRound
    BY <2>9 DEF SettleStart, SettleRound, Goto, Steps, WorkerSteps, memoryVars, loopVars
  <2>10. CASE SettleEnds \/ Unwind
    BY <2>10, <1>r DEF SettleEnds, Unwind, StopWorker, SettleOutcome, StartDrain, Steps,
       Callers, WorkerSteps, loopVars
  <2>11. QED
    BY <1>5, <2>1, <2>2, <2>3, <2>4, <2>5, <2>6, <2>7, <2>8, <2>9, <2>10 DEF BrokerStep
<1>6. CASE WorkerThread
  <2>1. ASSUME NEW o \in Orders, NEW r \in Reports(o), WorkerPoll(o, r)
        PROVE  BrokerTypeOK'
    BY <2>1, <1>r, ReportsTyped DEF WorkerPoll, WorkerSteps, NoOrder, memoryVars
  <2>2. ASSUME NEW o \in Orders, WorkerFails(o)
        PROVE  BrokerTypeOK'
    BY <2>2, <1>r DEF WorkerFails, WorkerSteps, NoOrder, memoryVars, loopVars
  <2>3. CASE WorkerRecord
    BY <2>3 DEF WorkerRecord, WorkerSteps, memoryVars, loopVars
  <2>4. CASE WorkerAppend \/ WorkerAdvance
    <3>1. wtask \in Orders /\ wreport.filled \in Nat
      BY <2>4 DEF WorkerAppend, WorkerAdvance, WorkerInv, Polling, ReportType
    <3>2. [order_no |-> wtask, cumulative_filled |-> wreport.filled] \in FillType
      BY <3>1 DEF FillType
    <3>3. CASE WorkerAppend
      BY <3>2, <3>3 DEF WorkerAppend, WorkerSteps, loopVars
    <3>4. CASE WorkerAdvance
      BY <3>1, <3>4, <1>r DEF WorkerAdvance, WorkerSteps, NoOrder
    <3>5. QED
      BY <2>4, <3>3, <3>4
  <2>5. QED
    BY <1>6, <2>1, <2>2, <2>3, <2>4 DEF WorkerThread, Worker
<1>7. CASE Clock \/ Interruption \/ VenueMoves \/ DayTurns \/ OperatorSwitch
  BY <1>7 DEF Clock, DeadlinePasses, Interruption, Interrupt, VenueMoves, DayTurns,
     OperatorSwitch, Goto, Steps, memoryVars, workerVars, loopVars
<1>8. CASE UNCHANGED vars
  BY <1>8 DEF vars, brokerVars, memoryVars, workerVars, loopVars
<1>9. QED
  BY <1>1, <1>2, <1>3, <1>4, <1>5, <1>6, <1>7, <1>8 DEF Next, Main

(* Every step keeps the open set equal to the SUBMITTED rows outside       *)
(* recovery, and complementary to the rows still to recover during it.     *)
LEMMA TrackingStep ==
    ASSUME TypeOK, LedgerInv, TrackingInv, WorkerInv, [Next]_vars
    PROVE  TrackingInv'
<1> USE DEF TrackingInv, Submitting
<1>t. /\ order_state \in [Orders -> States] /\ open_orders \subseteq Orders
      /\ todo \subseteq Orders /\ done \subseteq Orders
  BY DEF TypeOK, LedgerTypeOK, BrokerTypeOK
<1>1. ASSUME NEW k \in {"rebalance", "eod"}, Launch(k)
      PROVE  TrackingInv'
  BY <1>1, <1>t DEF Launch, FreshMemory, get_open_orders, ledgerVars, States, TERMINAL_STATES
<1>2. CASE Exit \/ Crash
  BY <1>2 DEF Exit, Crash, FreshMemory, Goto, ledgerVars
<1>3. CASE Recovery
  <2>1. ASSUME NEW o \in Orders, RecoverOrphan(o)
        PROVE  TrackingInv'
    BY <2>1, <1>t DEF RecoverOrphan, record_state, Oldest, memoryVars
  <2>2. ASSUME NEW o \in Orders, NEW r \in RecoveryReports(o), RecoverOrder(o, r)
        PROVE  TrackingInv'
    <3>1. done' \subseteq open_orders'
      BY <2>2 DEF RecoverOrder, poll_once
    <3>2. QED
      BY <2>2, <3>1, <1>t DEF RecoverOrder, Oldest
  <2>3. CASE RecoverBook
    BY <2>3 DEF RecoverBook, StartDrain, ledgerVars, loopVars
  <2>4. CASE Seed
    BY <2>4 DEF Seed, Goto, ledgerVars
  <2>5. QED
    BY <1>3, <2>1, <2>2, <2>3, <2>4 DEF Recovery
<1>4. CASE GateOpen \/ NotTrading \/ WarmedUp \/ RecordEquity
  BY <1>4 DEF GateOpen, NotTrading, WarmedUp, RecordEquity, Goto, ledgerVars, memoryVars,
     loopVars
<1>5. CASE BrokerStep
  <2>1. ASSUME NEW o \in Orders, SubmitIntent(o) \/ SubmitRefused(o)
        PROVE  TrackingInv'
    <3>1. order_state[o] = "none" /\ order_state' = [order_state EXCEPT ![o] = "INTENT"]
      BY <2>1, <1>t DEF SubmitIntent, SubmitRefused, record_intent, Oldest
    <3>2. /\ pc = "burst" /\ cur' = o /\ pc' \in {"placing", "stopping", "refused"}
          /\ open_orders' = open_orders /\ done' = done
      BY <2>1 DEF SubmitIntent, SubmitRefused, Goto, memoryVars
    <3>3. QED
      BY <3>1, <3>2, <1>t
  <2>2. CASE PlaceAccepted \/ PlaceRaises(TRUE) \/ PlaceRaises(FALSE)
    BY <2>2 DEF PlaceAccepted, PlaceRaises, Goto, ledgerVars, memoryVars, loopVars
  <2>3. CASE RecordSubmitted
    BY <2>3, <1>t DEF RecordSubmitted, record_submitted, Goto
  <2>4. CASE RecordRejected
    BY <2>4, <1>t DEF RecordRejected, record_state, Goto, memoryVars
  <2>5. CASE BookFill
    BY <2>5 DEF BookFill, ledgerVars, loopVars
  <2>6. CASE DrainEnds \/ StaleEnds \/ CloseEnds
    BY <2>6 DEF DrainEnds, AfterDrain, StaleEnds, CloseEnds, AfterClose, Goto, ledgerVars,
       memoryVars, loopVars
  <2>7. ASSUME NEW o \in Orders, CloseFilled(o) \/ CloseStale(o)
        PROVE  TrackingInv'
    BY <2>7, <1>t DEF CloseFilled, CloseStale, CloseOrder, record_state
  <2>8. ASSUME NEW o \in Orders, NEW r \in Reports(o), UpdatePoll(o, r)
        PROVE  TrackingInv'
    <3>1. done' \subseteq open_orders'
      BY <2>8 DEF UpdatePoll, poll_once, Oldest
    <3>2. QED
      BY <2>8, <3>1 DEF UpdatePoll
  <2>9. CASE UpdateBook \/ SettleBook \/ SettleEnds \/ Unwind
    BY <2>9 DEF UpdateBook, SettleBook, SettleEnds, Unwind, StartDrain, ledgerVars, loopVars
  <2>10. CASE SettleStart \/ SettleRound
    BY <2>10 DEF SettleStart, SettleRound, Goto, ledgerVars, memoryVars, loopVars
  <2>11. QED
    BY <1>5, <2>1, <2>2, <2>3, <2>4, <2>5, <2>6, <2>7, <2>8, <2>9, <2>10 DEF BrokerStep
<1>6. CASE WorkerThread
  <2>1. ASSUME NEW o \in Orders, NEW r \in Reports(o), WorkerPoll(o, r)
        PROVE  TrackingInv'
    BY <2>1 DEF WorkerPoll, Oldest, WorkerInv, ledgerVars, memoryVars
  <2>2. ASSUME NEW o \in Orders, WorkerFails(o)
        PROVE  TrackingInv'
    BY <2>2 DEF WorkerFails, ledgerVars, memoryVars, loopVars
  <2>3. CASE WorkerRecord \/ WorkerAppend
    BY <2>3 DEF WorkerRecord, WorkerAppend, ledgerVars, memoryVars, loopVars
  <2>4. CASE WorkerAdvance
    BY <2>4 DEF WorkerAdvance, WorkerInv, Polling, ledgerVars
  <2>5. QED
    BY <1>6, <2>1, <2>2, <2>3, <2>4 DEF WorkerThread, Worker
<1>7. CASE Clock \/ Interruption \/ VenueMoves \/ DayTurns \/ OperatorSwitch
  BY <1>7 DEF Clock, DeadlinePasses, Interruption, Interrupt, VenueMoves, DayTurns,
     OperatorSwitch, Goto, ledgerVars, memoryVars, loopVars
<1>8. CASE UNCHANGED vars
  BY <1>8 DEF vars, brokerVars, ledgerVars, memoryVars, loopVars
<1>9. QED
  BY <1>1, <1>2, <1>3, <1>4, <1>5, <1>6, <1>7, <1>8 DEF Next, Main

(* Every step keeps the fill worker inside settlement, and in the middle   *)
(* of a poll only while the main thread is at the drain barrier or past an *)
(* interruption.                                                           *)
LEMMA WorkerStep ==
    ASSUME TypeOK, TrackingInv, WorkerInv, [Next]_vars
    PROVE  WorkerInv'
<1> USE DEF WorkerInv, Polling, BeforeSettling, Submitting
<1>t. wpc \in WorkerSteps /\ wtask \in Orders \cup {NoOrder} /\ open_orders \subseteq Orders
  BY DEF TypeOK, BrokerTypeOK
<1>1. ASSUME NEW k \in {"rebalance", "eod"}, Launch(k)
      PROVE  WorkerInv'
  BY <1>1 DEF Launch, FreshMemory
<1>2. CASE Exit \/ Crash
  BY <1>2 DEF Exit, Crash, FreshMemory, Goto
<1>3. CASE Recovery
  <2>1. ASSUME NEW o \in Orders,
               RecoverOrphan(o) \/ \E r \in RecoveryReports(o) : RecoverOrder(o, r)
        PROVE  wpc' = "off" /\ tasks' = {} /\ pc' = "recover"
    BY <2>1 DEF RecoverOrphan, RecoverOrder, workerVars
  <2>2. CASE RecoverBook \/ Seed
    BY <2>2 DEF RecoverBook, StartDrain, Seed, Goto, workerVars
  <2>3. QED
    BY <1>3, <2>1, <2>2 DEF Recovery
<1>4. CASE GateOpen \/ NotTrading \/ WarmedUp \/ RecordEquity
  BY <1>4 DEF GateOpen, NotTrading, WarmedUp, RecordEquity, Goto, workerVars
<1>5. CASE BrokerStep
  <2>1. ASSUME NEW o \in Orders, SubmitIntent(o) \/ SubmitRefused(o)
        PROVE  WorkerInv'
    BY <2>1 DEF SubmitIntent, SubmitRefused, Goto, workerVars
  <2>2. CASE PlaceAccepted \/ PlaceRaises(TRUE) \/ PlaceRaises(FALSE)
    BY <2>2 DEF PlaceAccepted, PlaceRaises, Goto, workerVars
  <2>3. CASE RecordSubmitted \/ RecordRejected
    BY <2>3 DEF RecordSubmitted, RecordRejected, Goto, workerVars
  <2>4. CASE BookFill
    BY <2>4 DEF BookFill, workerVars, venueVars
  <2>5. CASE DrainEnds
    BY <2>5, <1>t DEF DrainEnds, AfterDrain, Goto, workerVars, memoryVars, venueVars,
       TypeOK, BrokerTypeOK, Callers
  <2>6. CASE StaleEnds \/ CloseEnds
    BY <2>6 DEF StaleEnds, CloseEnds, AfterClose, Goto, workerVars, TypeOK, BrokerTypeOK,
       Callers
  <2>7. ASSUME NEW o \in Orders, CloseFilled(o) \/ CloseStale(o)
        PROVE  WorkerInv'
    BY <2>7 DEF CloseFilled, CloseStale, CloseOrder, workerVars
  <2>8. ASSUME NEW o \in Orders, NEW r \in Reports(o), UpdatePoll(o, r)
        PROVE  WorkerInv'
    BY <2>8 DEF UpdatePoll, workerVars
  <2>9. CASE UpdateBook \/ SettleBook
    BY <2>9 DEF UpdateBook, SettleBook, Drained, StartDrain, workerVars
  <2>10. CASE SettleStart \/ SettleRound
    BY <2>10 DEF SettleStart, SettleRound, Goto, memoryVars
  <2>11. CASE SettleEnds \/ Unwind
    BY <2>11 DEF SettleEnds, SettleOutcome, Unwind, StopWorker, Drained, StartDrain, venueVars
  <2>12. QED
    BY <1>5, <2>1, <2>2, <2>3, <2>4, <2>5, <2>6, <2>7, <2>8, <2>9, <2>10, <2>11 DEF BrokerStep
<1>6. CASE WorkerThread
  <2>1. ASSUME NEW o \in Orders, NEW r \in Reports(o), WorkerPoll(o, r)
        PROVE  WorkerInv'
    <3>1. /\ r.filled \in Nat /\ r.filled <= filled[o] /\ booked_quantity[o] \in Nat
          /\ o \in open_orders
      BY <2>1, ReportsTyped DEF WorkerPoll, Oldest, ReportType, TypeOK, BrokerTypeOK
    <3>2. QED
      BY <2>1, <3>1 DEF WorkerPoll, Oldest, memoryVars, venueVars
  <2>2. ASSUME NEW o \in Orders, WorkerFails(o)
        PROVE  WorkerInv'
    BY <2>2 DEF WorkerFails, memoryVars
  <2>3. CASE WorkerRecord \/ WorkerAppend
    BY <2>3 DEF WorkerRecord, WorkerAppend, memoryVars, venueVars
  <2>4. CASE WorkerAdvance
    BY <2>4 DEF WorkerAdvance
  <2>5. QED
    BY <1>6, <2>1, <2>2, <2>3, <2>4 DEF WorkerThread, Worker
<1>7. CASE Clock \/ Interruption \/ OperatorSwitch
  BY <1>7 DEF Clock, DeadlinePasses, Interruption, Interrupt, OperatorSwitch, Goto,
     memoryVars, workerVars, venueVars
<1>8. CASE VenueMoves \/ DayTurns
  <2>1. wpc \in Polling => wreport.filled <= filled'[wtask]
    BY <1>t, FilledGrows DEF TypeOK, BrokerTypeOK, ReportType
  <2>2. QED
    BY <1>8, <2>1 DEF VenueMoves, DayTurns, memoryVars, workerVars
<1>9. CASE UNCHANGED vars
  BY <1>9 DEF vars, brokerVars, memoryVars, workerVars, venueVars
<1>10. QED
  BY <1>1, <1>2, <1>3, <1>4, <1>5, <1>6, <1>7, <1>8, <1>9 DEF Next, Main

(* Every step keeps the poller's watermark equal to the ledger's total,    *)
(* but for the worker between its commit and its own update.               *)
LEMMA WatermarkStep ==
    ASSUME TypeOK, LedgerInv, TrackingInv, WorkerInv, WatermarkInv, [Next]_vars
    PROVE  WatermarkInv'
<1> USE DEF WatermarkInv
<1>t. /\ open_orders \subseteq Orders /\ todo \subseteq Orders
      /\ booked_quantity \in [Orders -> Nat] /\ fill_sum \in [Orders -> Nat]
  BY DEF TypeOK, BrokerTypeOK, LedgerTypeOK
<1>1. ASSUME NEW k \in {"rebalance", "eod"}, Launch(k)
      PROVE  WatermarkInv'
  BY <1>1 DEF Launch, FreshMemory
<1>2. CASE Exit \/ Crash
  BY <1>2 DEF Exit, Crash, FreshMemory
<1>3. CASE Recovery
  <2>1. ASSUME NEW o \in Orders, NEW r \in RecoveryReports(o), RecoverOrder(o, r)
        PROVE  WatermarkInv'
    <3>1. r \in Reports(o)
      BY ReportsTyped
    <3>2. /\ poll_once(o, r, fill_sum[o]) /\ open_orders' = open_orders \cup {o}
          /\ wpc = "off" /\ wpc' = "off"
      BY <2>1 DEF RecoverOrder, already_booked, WorkerInv, BeforeSettling, workerVars
    <3>3. \A p \in open_orders : booked_quantity[p] = fill_sum[p]
      BY <3>2
    <3>4. \A p \in open_orders \cup {o} : booked_quantity'[p] = fill_sum'[p]
      <4>1. poll_once(o, r, fill_sum[o])
        BY <3>2
      <4>2. \E n \in Nat : /\ fill_sum' = [fill_sum EXCEPT ![o] = n]
                           /\ booked_quantity' = [booked_quantity EXCEPT ![o] = n]
        <5>1. fill_sum = [fill_sum EXCEPT ![o] = fill_sum[o]] /\ fill_sum[o] \in Nat
          BY <1>t
        <5>2. QED
          BY <3>1, <4>1, <5>1, PollOnce
      <4>3. QED
        BY <1>t, <3>3, <4>2
    <3>5. QED
      BY <3>2, <3>4
  <2>2. ASSUME NEW o \in Orders, RecoverOrphan(o)
        PROVE  WatermarkInv'
    BY <2>2 DEF RecoverOrphan, memoryVars, workerVars
  <2>3. CASE RecoverBook \/ Seed
    BY <2>3 DEF RecoverBook, Seed, ledgerVars, workerVars
  <2>4. QED
    BY <1>3, <2>1, <2>2, <2>3 DEF Recovery
<1>4. CASE GateOpen \/ NotTrading \/ WarmedUp \/ RecordEquity
  BY <1>4 DEF GateOpen, NotTrading, WarmedUp, RecordEquity, ledgerVars, memoryVars, workerVars
<1>5. CASE BrokerStep
  <2>1. ASSUME NEW o \in Orders, SubmitIntent(o) \/ SubmitRefused(o)
        PROVE  WatermarkInv'
    BY <2>1 DEF SubmitIntent, SubmitRefused, memoryVars, workerVars
  <2>2. CASE PlaceAccepted \/ PlaceRaises(TRUE) \/ PlaceRaises(FALSE)
    BY <2>2 DEF PlaceAccepted, PlaceRaises, ledgerVars, memoryVars, workerVars
  <2>3. CASE RecordSubmitted
    <3>1. cur \in Orders /\ fill_sum[cur] = 0
      BY <2>3 DEF RecordSubmitted, TrackingInv, Submitting, LedgerInv
    <3>2. wpc = "off"
      BY <2>3 DEF RecordSubmitted, WorkerInv, BeforeSettling, Submitting
    <3>3. QED
      BY <2>3, <3>1, <3>2, <1>t DEF RecordSubmitted, workerVars
  <2>4. CASE RecordRejected \/ BookFill \/ DrainEnds \/ StaleEnds \/ CloseEnds
    BY <2>4 DEF RecordRejected, BookFill, DrainEnds, StaleEnds, CloseEnds, ledgerVars,
       memoryVars, workerVars
  <2>5. ASSUME NEW o \in Orders, CloseFilled(o) \/ CloseStale(o)
        PROVE  WatermarkInv'
    BY <2>5 DEF CloseFilled, CloseStale, CloseOrder, workerVars
  <2>6. ASSUME NEW o \in Orders, NEW r \in Reports(o), UpdatePoll(o, r)
        PROVE  WatermarkInv'
    <3>1. wpc = "off" /\ o \in open_orders
      BY <2>6 DEF UpdatePoll, Oldest, TrackingInv, WorkerInv, BeforeSettling
    <3>2. poll_once(o, r, fill_sum[o]) /\ UNCHANGED <<open_orders, wpc>>
      BY <2>6, <3>1 DEF UpdatePoll, workerVars
    <3>3. QED
      BY <1>t, <3>1, <3>2, PollOnce
  <2>7. CASE UpdateBook \/ SettleBook
    BY <2>7 DEF UpdateBook, SettleBook, ledgerVars, workerVars
  <2>8. CASE SettleStart \/ SettleRound
    BY <2>8 DEF SettleStart, SettleRound, ledgerVars, memoryVars, WorkerInv, BeforeSettling
  <2>9. CASE SettleEnds \/ Unwind
    BY <2>9 DEF SettleEnds, Unwind, StopWorker, Drained, ledgerVars
  <2>10. QED
    BY <1>5, <2>1, <2>2, <2>3, <2>4, <2>5, <2>6, <2>7, <2>8, <2>9 DEF BrokerStep
<1>6. CASE WorkerThread
  <2>1. ASSUME NEW o \in Orders, (\E r \in Reports(o) : WorkerPoll(o, r)) \/ WorkerFails(o)
        PROVE  WatermarkInv'
    BY <2>1 DEF WorkerPoll, WorkerFails, ledgerVars, memoryVars
  <2>2. CASE WorkerRecord
    <3>1. /\ wtask \in Orders /\ wreport.filled \in Nat /\ wtask \in open_orders
          /\ booked_quantity[wtask] < wreport.filled
      BY <2>2 DEF WorkerRecord, WorkerInv, Polling, TypeOK, BrokerTypeOK, ReportType
    <3>2. booked_quantity[wtask] = fill_sum[wtask]
      BY <2>2, <3>1 DEF WorkerRecord
    <3>3. fill_sum' = [fill_sum EXCEPT ![wtask] = wreport.filled]
      BY <2>2, <3>1, <3>2, RecordFill DEF WorkerRecord
    <3>4. QED
      BY <2>2, <3>1, <3>3, <1>t DEF WorkerRecord, memoryVars
  <2>3. CASE WorkerAppend
    BY <2>3 DEF WorkerAppend, ledgerVars
  <2>4. CASE WorkerAdvance
    BY <2>4, <1>t DEF WorkerAdvance, ledgerVars
  <2>5. QED
    BY <1>6, <2>1, <2>2, <2>3, <2>4 DEF WorkerThread, Worker
<1>7. CASE Clock \/ Interruption \/ VenueMoves \/ DayTurns \/ OperatorSwitch
  BY <1>7 DEF Clock, DeadlinePasses, Interruption, Interrupt, VenueMoves, DayTurns,
     OperatorSwitch, ledgerVars, memoryVars, workerVars
<1>8. CASE UNCHANGED vars
  BY <1>8 DEF vars, brokerVars, ledgerVars, memoryVars, workerVars
<1>9. QED
  BY <1>1, <1>2, <1>3, <1>4, <1>5, <1>6, <1>7, <1>8 DEF Next, Main

(* What is on record for an order never shrinks.                           *)
LEMMA FillSumGrows ==
    ASSUME TypeOK, LedgerInv, TrackingInv, WorkerInv, WatermarkInv, [Next]_vars
    PROVE  \A o \in Orders : /\ fill_sum[o] \in Nat /\ fill_sum'[o] \in Nat
                             /\ fill_sum[o] <= fill_sum'[o]
  BY FillSteps DEF Recorded, TypeOK, LedgerTypeOK

(* An empty buffer holds no fill.                                          *)
LEMMA FillsOfEmpty == FillsOf(<<>>) = {}
  BY DEF FillsOf

(* Appending to the buffer adds one fill.                                  *)
LEMMA FillsOfAppend ==
    ASSUME NEW S, NEW s \in Seq(S), NEW e \in S
    PROVE  FillsOf(Append(s, e)) = FillsOf(s) \cup {e}
<1>1. /\ Len(Append(s, e)) = Len(s) + 1 /\ Len(s) \in Nat
      /\ \A i \in 1..Len(s) : Append(s, e)[i] = s[i]
      /\ Append(s, e)[Len(s) + 1] = e
  OBVIOUS
<1>2. 1..(Len(s) + 1) = 1..Len(s) \cup {Len(s) + 1}
  BY <1>1
<1>3. QED
  BY <1>1, <1>2 DEF FillsOf

(* Taking the head off the buffer takes away one fill, and no other.       *)
LEMMA FillsOfTail ==
    ASSUME NEW S, NEW s \in Seq(S), s # <<>>
    PROVE  FillsOf(s) = {Head(s)} \cup FillsOf(Tail(s))
<1>1. /\ Len(s) \in Nat \ {0} /\ Head(s) = s[1] /\ Len(Tail(s)) = Len(s) - 1
      /\ \A i \in 1..(Len(s) - 1) : Tail(s)[i] = s[i + 1]
  OBVIOUS
<1>2. FillsOf(Tail(s)) \subseteq FillsOf(s)
  BY <1>1 DEF FillsOf
<1>3. ASSUME NEW i \in 1..Len(s)
      PROVE  s[i] = s[1] \/ s[i] \in FillsOf(Tail(s))
  <2>1. CASE i = 1
    BY <2>1
  <2>2. CASE i # 1
    <3>1. i - 1 \in 1..(Len(s) - 1) /\ s[i] = Tail(s)[i - 1]
      BY <1>1, <2>2
    <3>2. QED
      BY <1>1, <3>1 DEF FillsOf
  <2>3. QED
    BY <2>1, <2>2
<1>4. s[1] \in FillsOf(s)
  BY <1>1 DEF FillsOf
<1>5. FillsOf(s) \subseteq {s[1]} \cup FillsOf(Tail(s))
  BY <1>3 DEF FillsOf
<1>6. QED
  BY <1>1, <1>2, <1>4, <1>5

(* Every step keeps the buffer empty where the main thread relies on it:   *)
(* outside polling, the drain and the interrupted exit.                    *)
LEMMA BufferStep ==
    ASSUME TypeOK, TrackingInv, WorkerInv, BufferInv, [Next]_vars
    PROVE  BufferInv'
<1> USE DEF BufferInv
<1>1. CASE Recovery
  <2>1. ASSUME NEW o \in Orders, RecoverOrphan(o)
        PROVE  BufferInv'
    BY <2>1 DEF RecoverOrphan, memoryVars
  <2>2. ASSUME NEW o \in Orders, NEW r \in RecoveryReports(o), RecoverOrder(o, r)
        PROVE  BufferInv'
    BY <2>2 DEF RecoverOrder
  <2>3. CASE RecoverBook \/ Seed
    BY <2>3 DEF RecoverBook, StartDrain, Seed, Goto
  <2>4. QED
    BY <1>1, <2>1, <2>2, <2>3 DEF Recovery
<1>2. CASE BrokerStep
  <2>1. CASE BookFill
    BY <2>1 DEF BookFill
  <2>2. CASE DrainEnds
    BY <2>2 DEF DrainEnds, AfterDrain, Goto, memoryVars, TypeOK, BrokerTypeOK, Callers
  <2>3. ASSUME NEW o \in Orders, NEW r \in Reports(o), UpdatePoll(o, r)
        PROVE  BufferInv'
    BY <2>3 DEF UpdatePoll
  <2>4. CASE UpdateBook \/ SettleBook \/ SettleEnds \/ Unwind
    BY <2>4 DEF UpdateBook, SettleBook, SettleEnds, Unwind, StartDrain
  <2>5. CASE StaleEnds \/ CloseEnds \/ SettleStart \/ SettleRound
    BY <2>5 DEF StaleEnds, CloseEnds, AfterClose, SettleStart, SettleRound, Goto, memoryVars
  <2>6. CASE PlaceAccepted \/ PlaceRaises(TRUE) \/ PlaceRaises(FALSE)
    BY <2>6 DEF PlaceAccepted, PlaceRaises, Goto, memoryVars
  <2>7. CASE RecordSubmitted \/ RecordRejected
    BY <2>7 DEF RecordSubmitted, RecordRejected, Goto, memoryVars
  <2>8. ASSUME NEW o \in Orders,
               SubmitIntent(o) \/ SubmitRefused(o) \/ CloseFilled(o) \/ CloseStale(o)
        PROVE  BufferInv'
    BY <2>8 DEF SubmitIntent, SubmitRefused, CloseFilled, CloseStale, CloseOrder, Goto,
       memoryVars
  <2>9. QED
    BY <1>2, <2>1, <2>2, <2>3, <2>4, <2>5, <2>6, <2>7, <2>8 DEF BrokerStep
<1>3. CASE WorkerThread
  <2>1. CASE WorkerAppend
    BY <2>1 DEF WorkerAppend, WorkerInv, Polling
  <2>2. QED
    BY <1>3, <2>1 DEF WorkerThread, Worker, WorkerPoll, WorkerFails, WorkerRecord,
       WorkerAdvance, memoryVars
<1>4. CASE GateOpen \/ NotTrading \/ WarmedUp \/ RecordEquity \/ Interruption
  BY <1>4 DEF GateOpen, NotTrading, WarmedUp, RecordEquity, Interruption, Interrupt, Goto,
     memoryVars
<1>5. CASE Exit \/ Crash \/ \E k \in {"rebalance", "eod"} : Launch(k)
  BY <1>5 DEF Exit, Crash, Launch, FreshMemory, Goto
<1>6. CASE UNCHANGED vars
  BY <1>6 DEF vars, brokerVars, memoryVars
<1>7. QED
  BY <1>1, <1>2, <1>3, <1>4, <1>5, <1>6 DEF Next, Main, Clock, DeadlinePasses,
     VenueMoves, DayTurns, OperatorSwitch, memoryVars

(* The message a poll puts into the buffer.                                *)
FillOf(o, n) == [order_no |-> o, cumulative_filled |-> n]

(* Every fill in flight is well typed.                                     *)
LEMMA InFlightTyped ==
    ASSUME TypeOK
    PROVE  \A f \in InFlight : f.order_no \in Orders /\ f.cumulative_filled \in Nat
<1>1. fill_buffer \in Seq(FillType) /\ pending \in Seq(FillType)
  BY DEF TypeOK, BrokerTypeOK
<1>2. \A f \in InFlight : f \in FillType
  BY <1>1 DEF InFlight, FillsOf
<1>3. QED
  BY <1>2 DEF FillType

(* A poll on the main thread either changes neither the total nor the      *)
(* fills in flight, or raises the total and puts that very total in        *)
(* flight.                                                                 *)
LEMMA MainPoll ==
    ASSUME TypeOK, LedgerInv, NEW o \in Orders, NEW r \in Reports(o),
           poll_once(o, r, fill_sum[o]), UNCHANGED pending
    PROVE  \/ UNCHANGED fill_sum /\ InFlight' = InFlight
           \/ \E n \in Nat : /\ fill_sum[o] < n
                             /\ fill_sum' = [fill_sum EXCEPT ![o] = n]
                             /\ InFlight' = InFlight \cup {FillOf(o, n)}
<1>1. CASE UNCHANGED <<fill_keys, fill_sum, fill_buffer>>
  BY <1>1 DEF InFlight
<1>2. CASE /\ r.filled \in Nat /\ fill_sum[o] < r.filled
           /\ fill_sum' = [fill_sum EXCEPT ![o] = r.filled]
           /\ fill_buffer' = Append(fill_buffer, FillOf(o, r.filled))
  <2>1. FillOf(o, r.filled) \in FillType /\ fill_buffer \in Seq(FillType)
    BY <1>2 DEF FillOf, FillType, TypeOK, BrokerTypeOK
  <2>2. FillsOf(fill_buffer') = FillsOf(fill_buffer) \cup {FillOf(o, r.filled)}
    BY <1>2, <2>1, FillsOfAppend
  <2>3. InFlight' = InFlight \cup {FillOf(o, r.filled)}
    BY <2>2 DEF InFlight
  <2>4. QED
    BY <1>2, <2>3
<1>3. QED
  BY <1>1, <1>2, PollOnce DEF FillOf

(* One iteration of _drain_fill_buffer takes a fill out of flight and      *)
(* raises the portfolio's watermark to it, never lowering it.              *)
LEMMA BookFillStep ==
    ASSUME TypeOK, RecordedFirstInv, BookFill
    PROVE  \E f \in InFlight :
             /\ InFlight = {f} \cup InFlight'
             /\ portfolio_booked' = [portfolio_booked EXCEPT ![f.order_no] =
                   IF f.cumulative_filled > @ THEN f.cumulative_filled ELSE @]
<1> DEFINE f == Head(pending)
<1>1. FillsOf(pending) = {f} \cup FillsOf(pending')
  BY FillsOfTail DEF BookFill, TypeOK, BrokerTypeOK
<1>2. f \in InFlight /\ InFlight = {f} \cup InFlight'
  BY <1>1 DEF InFlight, BookFill
<1>3. f.order_no \in Orders
  BY <1>2, InFlightTyped
<1>4. portfolio_booked' = [portfolio_booked EXCEPT ![f.order_no] =
         IF f.cumulative_filled > @ THEN f.cumulative_filled ELSE @]
  BY <1>3 DEF BookFill, TypeOK, BrokerTypeOK
<1>5. QED
  BY <1>2, <1>4

(* Swapping the buffer out loses no fill, because the previous drain was   *)
(* finished.                                                               *)
LEMMA DrainKeepsFills ==
    ASSUME BufferInv, NEW who, pc # "drain", StartDrain(who)
    PROVE  InFlight' = InFlight
<1>1. pending = <<>> /\ pending' = fill_buffer /\ fill_buffer' = <<>>
  BY DEF BufferInv, StartDrain
<1>2. QED
  BY <1>1, FillsOfEmpty DEF InFlight

(* The steps that change what is in flight or the portfolio's watermark: a *)
(* new process, a poll, the worker's hand-over and the booking.            *)
LEMMA FlightSteps ==
    ASSUME TypeOK, LedgerInv, TrackingInv, WorkerInv, WatermarkInv,
           RecordedFirstInv, BufferInv, [Next]_vars
    PROVE  \/ InFlight' = InFlight /\ UNCHANGED portfolio_booked
           \/ InFlight' = {} /\ portfolio_booked' = Zero /\ open_orders' = {}
           \/ \E o \in Orders : \E r \in Reports(o) :
                 RecoverOrder(o, r) \/ UpdatePoll(o, r)
           \/ WorkerAppend
           \/ BookFill
<1>1. CASE UNCHANGED memoryVars
  BY <1>1 DEF memoryVars, InFlight
<1>2. CASE Recovery
  <2>1. CASE RecoverBook
    BY <2>1, DrainKeepsFills DEF RecoverBook
  <2>2. CASE Seed
    BY <2>2 DEF Seed, InFlight
  <2>3. QED
    BY <1>1, <1>2, <2>1, <2>2, ReportsTyped DEF Recovery, RecoverOrphan
<1>3. CASE BrokerStep
  <2>1. CASE UpdateBook \/ SettleBook \/ SettleEnds \/ Unwind
    BY <2>1, DrainKeepsFills DEF UpdateBook, SettleBook, SettleEnds, Unwind
  <2>2. ASSUME NEW o \in Orders, CloseFilled(o) \/ CloseStale(o)
        PROVE  InFlight' = InFlight /\ UNCHANGED portfolio_booked
    BY <2>2 DEF CloseFilled, CloseStale, CloseOrder, InFlight
  <2>3. CASE RecordSubmitted
    BY <2>3 DEF RecordSubmitted, InFlight
  <2>4. QED
    BY <1>1, <1>3, <2>1, <2>2, <2>3 DEF BrokerStep, SubmitIntent, SubmitRefused,
       PlaceAccepted, PlaceRaises, RecordRejected, DrainEnds, StaleEnds, CloseEnds,
       SettleStart, SettleRound
<1>4. CASE WorkerThread
  <2>1. CASE WorkerAdvance
    BY <2>1 DEF WorkerAdvance, InFlight
  <2>2. QED
    BY <1>1, <1>4, <2>1 DEF WorkerThread, Worker, WorkerPoll, WorkerFails, WorkerRecord
<1>5. CASE Exit \/ Crash \/ \E k \in {"rebalance", "eod"} : Launch(k)
  BY <1>5, FillsOfEmpty DEF Exit, Crash, Launch, FreshMemory, InFlight
<1>6. QED
  BY <1>1, <1>2, <1>3, <1>4, <1>5 DEF Next, Main, GateOpen, NotTrading, WarmedUp,
     RecordEquity, Clock, DeadlinePasses, Interruption, Interrupt, VenueMoves, DayTurns,
     OperatorSwitch, vars, brokerVars

(* Recovery and update both poll from the ledger's total, while there is   *)
(* no worker.                                                              *)
LEMMA RecoverPolls ==
    ASSUME TypeOK, TrackingInv, WorkerInv, WatermarkInv, NEW o \in Orders, NEW r,
           RecoverOrder(o, r) \/ UpdatePoll(o, r)
    PROVE  /\ poll_once(o, r, fill_sum[o]) /\ UNCHANGED pending
           /\ \/ UNCHANGED portfolio_booked /\ UNCHANGED open_orders
              \/ /\ portfolio_booked' = [portfolio_booked EXCEPT ![o] = fill_sum[o]]
                 /\ open_orders' = open_orders \cup {o}
           /\ wpc = "off" /\ wpc' = "off"
<1>1. CASE RecoverOrder(o, r)
  BY <1>1 DEF RecoverOrder, already_booked, WorkerInv, BeforeSettling, workerVars
<1>2. CASE UpdatePoll(o, r)
  <2>1. wpc = "off" /\ o \in open_orders
    BY <1>2 DEF UpdatePoll, Oldest, TrackingInv, WorkerInv, BeforeSettling
  <2>2. booked_quantity[o] = fill_sum[o]
    BY <2>1 DEF WatermarkInv
  <2>3. QED
    BY <1>2, <2>1, <2>2 DEF UpdatePoll, workerVars
<1>3. QED
  BY <1>1, <1>2

(* What the worker hands over is the total it has just committed.          *)
LEMMA WorkerAppendStep ==
    ASSUME TypeOK, WorkerInv, WatermarkInv, WorkerAppend
    PROVE  /\ wtask \in Orders /\ wreport.filled = fill_sum[wtask]
           /\ InFlight' = InFlight \cup {FillOf(wtask, fill_sum[wtask])}
           /\ UNCHANGED <<portfolio_booked, fill_sum, open_orders>>
<1>1. wtask \in open_orders /\ wtask \in Orders /\ wreport.filled \in Nat
  BY DEF WorkerAppend, WorkerInv, Polling, TypeOK, BrokerTypeOK, ReportType
<1>2. wreport.filled = fill_sum[wtask]
  BY <1>1 DEF WorkerAppend, WatermarkInv
<1>3. FillOf(wtask, wreport.filled) \in FillType /\ fill_buffer \in Seq(FillType)
  BY <1>1 DEF FillOf, FillType, TypeOK, BrokerTypeOK
<1>4. FillsOf(fill_buffer') = FillsOf(fill_buffer) \cup {FillOf(wtask, wreport.filled)}
  BY <1>3, FillsOfAppend DEF WorkerAppend, FillOf
<1>5. QED
  BY <1>1, <1>2, <1>4 DEF InFlight, WorkerAppend, ledgerVars

(* Every step keeps fills in flight, and the portfolio's watermark, at or  *)
(* below what is on record: nothing is booked before it is recorded.       *)
LEMMA RecordedFirstStep ==
    ASSUME TypeOK, LedgerInv, TrackingInv, WorkerInv, WatermarkInv,
           RecordedFirstInv, BufferInv, [Next]_vars
    PROVE  RecordedFirstInv'
<1> USE DEF RecordedFirstInv
<1>t. portfolio_booked \in [Orders -> Nat] /\ fill_sum \in [Orders -> Nat]
  BY DEF TypeOK, BrokerTypeOK, LedgerTypeOK
<1>g. \A o \in Orders : /\ fill_sum[o] \in Nat /\ fill_sum'[o] \in Nat
                        /\ fill_sum[o] <= fill_sum'[o]
  BY FillSumGrows
<1>1. CASE InFlight' = InFlight /\ UNCHANGED portfolio_booked
  BY <1>1, <1>t, <1>g, InFlightTyped
<1>2. CASE InFlight' = {} /\ portfolio_booked' = Zero /\ open_orders' = {}
  BY <1>2, <1>g DEF Zero
<1>3. ASSUME NEW o \in Orders, NEW r \in Reports(o),
             RecoverOrder(o, r) \/ UpdatePoll(o, r)
      PROVE  RecordedFirstInv'
  <2>1. /\ poll_once(o, r, fill_sum[o]) /\ UNCHANGED pending
        /\ \/ UNCHANGED portfolio_booked
           \/ portfolio_booked' = [portfolio_booked EXCEPT ![o] = fill_sum[o]]
    BY <1>3, RecoverPolls
  <2>2. \A p \in Orders : portfolio_booked'[p] <= fill_sum'[p]
    BY <2>1, <1>t, <1>g
  <2>3. CASE UNCHANGED fill_sum /\ InFlight' = InFlight
    BY <2>2, <2>3
  <2>4. ASSUME NEW n \in Nat, fill_sum' = [fill_sum EXCEPT ![o] = n],
               InFlight' = InFlight \cup {FillOf(o, n)}
        PROVE  RecordedFirstInv'
    <3>1. \A f \in InFlight : f.cumulative_filled <= fill_sum'[f.order_no]
      BY <1>g, InFlightTyped
    <3>2. /\ FillOf(o, n).order_no = o /\ FillOf(o, n).cumulative_filled = n
          /\ fill_sum'[o] = n
      BY <2>4, <1>t DEF FillOf
    <3>3. QED
      BY <2>2, <2>4, <3>1, <3>2
  <2>5. QED
    BY <2>1, <2>3, <2>4, MainPoll
<1>4. CASE WorkerAppend
  <2>1. /\ FillOf(wtask, fill_sum[wtask]).order_no = wtask
        /\ FillOf(wtask, fill_sum[wtask]).cumulative_filled = fill_sum[wtask]
    BY DEF FillOf
  <2>2. QED
    BY <1>4, <1>g, <2>1, WorkerAppendStep
<1>5. CASE BookFill
  <2>1. PICK f \in InFlight :
             /\ InFlight = {f} \cup InFlight'
             /\ portfolio_booked' = [portfolio_booked EXCEPT ![f.order_no] =
                   IF f.cumulative_filled > @ THEN f.cumulative_filled ELSE @]
    BY <1>5, BookFillStep
  <2>2. UNCHANGED fill_sum
    BY <1>5 DEF BookFill, ledgerVars
  <2>3. QED
    BY <2>1, <2>2, <1>t, InFlightTyped
<1>6. QED
  BY <1>1, <1>2, <1>3, <1>4, <1>5, FlightSteps

(* Every step keeps the latest total of an open order booked, in flight or *)
(* in the worker's hands: no fill is lost between the two threads.         *)
LEMMA NothingLostStep ==
    ASSUME TypeOK, LedgerInv, TrackingInv, WorkerInv, WatermarkInv,
           RecordedFirstInv, NothingLostInv, BufferInv, [Next]_vars
    PROVE  NothingLostInv'
<1> USE DEF NothingLostInv
<1>t. /\ portfolio_booked \in [Orders -> Nat] /\ fill_sum \in [Orders -> Nat]
      /\ open_orders \subseteq Orders
  BY DEF TypeOK, BrokerTypeOK, LedgerTypeOK
<1>1. CASE InFlight' = {} /\ portfolio_booked' = Zero /\ open_orders' = {}
  BY <1>1
<1>2. ASSUME NEW o \in Orders, NEW r \in Reports(o),
             RecoverOrder(o, r) \/ UpdatePoll(o, r)
      PROVE  NothingLostInv'
  <2>1. /\ poll_once(o, r, fill_sum[o]) /\ UNCHANGED pending
        /\ \/ UNCHANGED portfolio_booked /\ UNCHANGED open_orders
           \/ /\ portfolio_booked' = [portfolio_booked EXCEPT ![o] = fill_sum[o]]
              /\ open_orders' = open_orders \cup {o}
        /\ wpc = "off" /\ wpc' = "off"
    BY <1>2, RecoverPolls
  <2>2. CASE UNCHANGED fill_sum /\ InFlight' = InFlight
    BY <2>1, <2>2, <1>t
  <2>3. ASSUME NEW n \in Nat, fill_sum' = [fill_sum EXCEPT ![o] = n],
               InFlight' = InFlight \cup {FillOf(o, n)}
        PROVE  NothingLostInv'
    <3>1. /\ FillOf(o, n).order_no = o /\ FillOf(o, n).cumulative_filled = n
          /\ fill_sum'[o] = n
      BY <2>3, <1>t DEF FillOf
    <3>2. ASSUME NEW p \in open_orders', p # o
          PROVE  /\ p \in open_orders /\ fill_sum'[p] = fill_sum[p]
                 /\ portfolio_booked'[p] = portfolio_booked[p]
      BY <2>1, <2>3, <3>2, <1>t
    <3>3. QED
      BY <2>1, <2>3, <3>1, <3>2
  <2>4. QED
    BY <2>1, <2>2, <2>3, MainPoll
<1>3. CASE WorkerAppend
  <2>1. /\ FillOf(wtask, fill_sum[wtask]).order_no = wtask
        /\ FillOf(wtask, fill_sum[wtask]).cumulative_filled = fill_sum[wtask]
    BY DEF FillOf
  <2>2. QED
    BY <1>3, <2>1, WorkerAppendStep
<1>4. CASE BookFill
  <2>1. PICK f \in InFlight :
             /\ InFlight = {f} \cup InFlight'
             /\ portfolio_booked' = [portfolio_booked EXCEPT ![f.order_no] =
                   IF f.cumulative_filled > @ THEN f.cumulative_filled ELSE @]
    BY <1>4, BookFillStep
  <2>2. UNCHANGED <<fill_sum, open_orders, wpc, wtask>>
    BY <1>4 DEF BookFill, ledgerVars, workerVars
  <2>3. f.cumulative_filled <= fill_sum[f.order_no]
           /\ f.order_no \in Orders /\ f.cumulative_filled \in Nat
           /\ portfolio_booked[f.order_no] <= fill_sum[f.order_no]
    BY <2>1, InFlightTyped DEF RecordedFirstInv
  <2>4. SUFFICES ASSUME NEW o \in open_orders
                 PROVE  \/ portfolio_booked'[o] = fill_sum[o]
                        \/ \E g \in InFlight' : /\ g.order_no = o
                                                /\ g.cumulative_filled = fill_sum[o]
                        \/ wpc = "append" /\ wtask = o
    BY <2>2
  <2>5. CASE f.order_no = o
    <3>1. portfolio_booked[o] = fill_sum[o] => portfolio_booked'[o] = fill_sum[o]
      BY <2>1, <2>3, <2>5, <1>t
    <3>2. f.cumulative_filled = fill_sum[o] => portfolio_booked'[o] = fill_sum[o]
      BY <2>1, <2>3, <2>5, <1>t
    <3>3. QED
      BY <2>1, <3>1, <3>2
  <2>6. CASE f.order_no # o
    BY <2>1, <2>3, <2>6, <1>t
  <2>7. QED
    BY <2>5, <2>6
<1>5. ASSUME InFlight' = InFlight, UNCHANGED portfolio_booked, ~WorkerAppend,
             ~\E o \in Orders : \E r \in Reports(o) : RecoverOrder(o, r) \/ UpdatePoll(o, r)
      PROVE  NothingLostInv'
  <2>1. \/ WorkerRecord
        \/ RecordSubmitted
        \/ open_orders' = {}
        \/ /\ UNCHANGED fill_sum /\ open_orders' \subseteq open_orders
           /\ wpc = "append" => wpc' = "append" /\ wtask' = wtask
    <3>1. CASE Recovery
      BY <1>5, <3>1, ReportsTyped DEF Recovery, RecoverOrphan, RecoverBook, Seed, memoryVars,
         workerVars, ledgerVars
    <3>2. CASE BrokerStep
      <4>1. CASE SettleStart
        BY <4>1 DEF SettleStart, WorkerInv, BeforeSettling, memoryVars, ledgerVars
      <4>2. CASE SettleEnds \/ Unwind
        BY <4>2 DEF SettleEnds, Unwind, StopWorker, Drained, ledgerVars
      <4>3. ASSUME NEW o \in Orders, CloseFilled(o) \/ CloseStale(o)
            PROVE  /\ UNCHANGED fill_sum /\ open_orders' \subseteq open_orders
                   /\ wpc = "append" => wpc' = "append" /\ wtask' = wtask
        BY <4>3 DEF CloseFilled, CloseStale, CloseOrder, workerVars
      <4>4. QED
        BY <1>5, <3>2, <4>1, <4>2, <4>3 DEF BrokerStep, SubmitIntent, SubmitRefused,
           PlaceAccepted, PlaceRaises, RecordRejected, BookFill, DrainEnds, StaleEnds,
           CloseEnds, UpdateBook, SettleRound, SettleBook, memoryVars, workerVars, ledgerVars
    <3>3. CASE WorkerThread
      BY <1>5, <3>3 DEF WorkerThread, Worker, WorkerPoll, WorkerFails, WorkerAdvance,
         memoryVars, ledgerVars
    <3>4. CASE Exit \/ Crash \/ \E k \in {"rebalance", "eod"} : Launch(k)
      BY <3>4 DEF Exit, Crash, Launch, FreshMemory
    <3>5. QED
      BY <3>1, <3>2, <3>3, <3>4 DEF Next, Main, GateOpen, NotTrading, WarmedUp,
         RecordEquity, Clock, DeadlinePasses, Interruption, Interrupt, VenueMoves,
         DayTurns, OperatorSwitch, vars, brokerVars, memoryVars, workerVars, ledgerVars
  <2>2. CASE WorkerRecord
    <3>1. /\ wtask \in Orders /\ wreport.filled \in Nat /\ wtask \in open_orders
          /\ booked_quantity[wtask] < wreport.filled
      BY <2>2 DEF WorkerRecord, WorkerInv, Polling, TypeOK, BrokerTypeOK, ReportType
    <3>2. booked_quantity[wtask] = fill_sum[wtask]
      BY <2>2, <3>1 DEF WorkerRecord, WatermarkInv
    <3>3. fill_sum' = [fill_sum EXCEPT ![wtask] = wreport.filled]
      BY <2>2, <3>1, <3>2, RecordFill DEF WorkerRecord
    <3>4. QED
      BY <1>5, <2>2, <3>3, <1>t DEF WorkerRecord, memoryVars
  <2>3. CASE RecordSubmitted
    <3>1. cur \in Orders /\ fill_sum[cur] = 0
      BY <2>3 DEF RecordSubmitted, TrackingInv, Submitting, LedgerInv
    <3>2. portfolio_booked[cur] = fill_sum[cur]
      BY <3>1, <1>t DEF RecordedFirstInv
    <3>3. QED
      BY <1>5, <2>3, <3>2 DEF RecordSubmitted, workerVars
  <2>4. QED
    BY <1>5, <2>1, <2>2, <2>3
<1>6. QED
  BY <1>1, <1>2, <1>3, <1>4, <1>5, FlightSteps

(* Every step keeps the session's own two variables well typed.            *)
LEMMA SessionTypeStep ==
    ASSUME TypeOK, [Next]_vars
    PROVE  launches' \in Nat /\ orphans' \in BOOLEAN
<1>1. launches \in Nat /\ orphans \in BOOLEAN
  BY DEF TypeOK
<1>2. ASSUME NEW k \in {"rebalance", "eod"}, Launch(k)
      PROVE  launches' \in Nat /\ orphans' \in BOOLEAN
  <2>1. launches' = launches + 1 /\ orphans' = FALSE
    BY <1>2 DEF Launch
  <2>2. launches' \in Nat
    BY <1>1, <2>1
  <2>3. orphans' \in BOOLEAN
    BY <2>1
  <2>4. QED
    BY <2>2, <2>3
<1>3. ASSUME NEW o \in Orders, RecoverOrphan(o)
      PROVE  launches' \in Nat /\ orphans' \in BOOLEAN
  BY <1>1, <1>3 DEF RecoverOrphan
<1>4. \/ UNCHANGED <<launches, orphans>>
      \/ \E k \in {"rebalance", "eod"} : Launch(k)
      \/ \E o \in Orders : RecoverOrphan(o)
  BY DEF Next, Main, Recovery, RecoverOrder, RecoverBook, Seed, GateOpen, NotTrading,
     WarmedUp, RecordEquity, BrokerStep, Exit, WorkerThread, Clock, Interruption, Crash,
     VenueMoves, DayTurns, OperatorSwitch, vars
<1>5. QED
  BY <1>1, <1>2, <1>3, <1>4

(* The initial states satisfy the inductive invariant.                     *)
LEMMA InitInv == Init => IInv
<1> SUFFICES ASSUME Init PROVE IInv
  OBVIOUS
<1> USE DEF Init, VenueInit, LedgerInit, BrokerInit, Zero
<1>1. VenueTypeOK /\ VenueInv
  BY OrdersAssumption DEF VenueTypeOK, VenueInv
<1>2. LedgerTypeOK /\ LedgerInv
  BY DEF LedgerTypeOK, States, LedgerInv
<1>3. BrokerTypeOK
  <2>1. EmptyReport \in ReportType /\ <<>> \in Seq(FillType)
    BY DEF EmptyReport, ReportType
  <2>2. QED
    BY <2>1 DEF BrokerTypeOK, WorkerSteps, Steps, Callers
<1>4. TrackingInv /\ WorkerInv /\ WatermarkInv
  BY DEF TrackingInv, WorkerInv, WatermarkInv, Submitting, Polling, BeforeSettling
<1>5. RecordedFirstInv /\ NothingLostInv /\ BufferInv
  BY FillsOfEmpty DEF RecordedFirstInv, NothingLostInv, BufferInv, InFlight
<1>6. QED
  BY <1>1, <1>2, <1>3, <1>4, <1>5 DEF IInv, TypeOK

(* Every step of the session preserves the inductive invariant.            *)
LEMMA InductiveStep == IInv /\ [Next]_vars => IInv'
<1> SUFFICES ASSUME IInv, [Next]_vars PROVE IInv'
  OBVIOUS
<1> USE DEF IInv
<1>1. TypeOK'
  BY VenueTypeStep, LedgerTypeStep, BrokerTypeStep, SessionTypeStep DEF TypeOK
<1>2. VenueInv' /\ LedgerInv' /\ TrackingInv' /\ WorkerInv' /\ WatermarkInv'
  BY VenueStep, LedgerStep, TrackingStep, WorkerStep, WatermarkStep
<1>3. RecordedFirstInv' /\ NothingLostInv' /\ BufferInv'
  BY RecordedFirstStep, NothingLostStep, BufferStep
<1>4. QED
  BY <1>1, <1>2, <1>3

(* The inductive invariant holds in every reachable state, for any set of  *)
(* orders, any quantities and any number of launches.                      *)
THEOREM Invariance == Spec => []IInv
  BY InitInv, InductiveStep, PTL DEF Spec

(* Every state of a session is well typed; in particular no quantity on    *)
(* record or in the portfolio ever becomes negative.                       *)
THEOREM TypeCorrect == Spec => []TypeOK
<1>1. IInv => TypeOK
  BY DEF IInv
<1>2. QED
  BY <1>1, Invariance, PTL

(* The fill rows of every order add up to their largest key, at every      *)
(* instant a process may die at: _already_booked always resumes from the   *)
(* last quantity seen.                                                     *)
THEOREM LedgerIsResumable == Spec => []LedgerTelescopes
<1>1. IInv => LedgerTelescopes
  BY DEF IInv, LedgerInv, LedgerTelescopes
<1>2. QED
  BY <1>1, Invariance, PTL

(* Neither the portfolio nor the poller is ever ahead of the ledger, nor   *)
(* the ledger of the venue: a fill is never booked ahead of its record,    *)
(* whichever thread polls (_poll_once, _drain_fill_buffer).                *)
THEOREM WatermarksOrdered == Spec => []WatermarksInOrder
<1>1. ASSUME IInv
      PROVE  WatermarksInOrder
  <2>1. open_orders \subseteq Orders
    BY <1>1 DEF IInv, TypeOK, BrokerTypeOK
  <2>2. ASSUME NEW o \in open_orders
        PROVE  booked_quantity[o] <= fill_sum[o]
    <3>1. booked_quantity[o] \in Nat /\ fill_sum[o] \in Nat
      BY <1>1, <2>1 DEF IInv, TypeOK, BrokerTypeOK, LedgerTypeOK
    <3>2. CASE wpc \in {"append", "advance"} /\ o = wtask
      BY <1>1, <3>1, <3>2 DEF IInv, WorkerInv, WatermarkInv, Polling, TypeOK, BrokerTypeOK,
         ReportType
    <3>3. CASE ~(wpc \in {"append", "advance"} /\ o = wtask)
      BY <1>1, <3>1, <3>3 DEF IInv, WatermarkInv
    <3>4. QED
      BY <3>2, <3>3
  <2>3. QED
    BY <1>1, <2>1, <2>2 DEF IInv, LedgerInv, RecordedFirstInv, WatermarksInOrder
<1>2. QED
  BY <1>1, Invariance, PTL

(* No SUBMITTED order is ever dropped from the running process, and        *)
(* nothing else is tracked, whichever way a settlement ends.               *)
THEOREM OpenOrdersTracked == Spec => []EveryOpenOrderTracked
<1>1. IInv => EveryOpenOrderTracked
  BY DEF IInv, TypeOK, BrokerTypeOK, TrackingInv, EveryOpenOrderTracked
<1>2. QED
  BY <1>1, Invariance, PTL

(* An order that reached the venue always has a row (the intent is written *)
(* before place_market_order is called).                                   *)
THEOREM WriteAhead == Spec => []EvidenceOfEveryOrder
<1>1. IInv => EvidenceOfEveryOrder
  BY DEF IInv, TypeOK, VenueTypeOK, LedgerInv, EvidenceOfEveryOrder
<1>2. QED
  BY <1>1, Invariance, PTL

(* Behind the drain barrier of settle the books have one writer; only the  *)
(* interrupted exit books past a running poll.                             *)
THEOREM BarrierGivesSingleWriter == Spec => []SingleWriter
<1>1. IInv => SingleWriter
  BY DEF IInv, TypeOK, BrokerTypeOK, WorkerSteps, WorkerInv, Polling, SingleWriter
<1>2. QED
  BY <1>1, Invariance, PTL

(* An order leaves the open set, FILLED or STALE, only with all its        *)
(* recorded fills in the portfolio and nothing waiting in the buffer.      *)
THEOREM ClosedWhenBooked == Spec => ClosedWithEverythingBooked
<1> DEFINE Booked == \A o \in open_orders \ open_orders' :
                        pc' # "down" => /\ portfolio_booked[o] = fill_sum[o]
                                        /\ fill_buffer = <<>> /\ pending = <<>>
<1>1. ASSUME IInv, [Next]_vars
      PROVE  Booked
  <2>1. ASSUME NEW o \in Orders, CloseFilled(o) \/ CloseStale(o)
        PROVE  Booked
    <3>1. pc \in {"close", "stale"}
      BY <2>1 DEF CloseFilled, CloseStale
    <3>2. fill_buffer = <<>> /\ pending = <<>> /\ InFlight = {}
      BY <1>1, <3>1, FillsOfEmpty DEF IInv, BufferInv, InFlight
    <3>3. wpc # "append"
      BY <1>1, <3>1 DEF IInv, WorkerInv, Polling
    <3>4. QED
      BY <1>1, <3>2, <3>3 DEF IInv, NothingLostInv
  <2>2. ASSUME NEW k \in {"rebalance", "eod"}, Launch(k)
        PROVE  open_orders = {}
    BY <1>1, <2>2 DEF Launch, IInv, TrackingInv
  <2>3. CASE Recovery
    BY <2>3 DEF Recovery, RecoverOrphan, RecoverOrder, RecoverBook, Seed, memoryVars
  <2>4. CASE BrokerStep
    BY <2>1, <2>4 DEF BrokerStep, SubmitIntent, SubmitRefused, PlaceAccepted, PlaceRaises,
       RecordSubmitted, RecordRejected, BookFill, DrainEnds, StaleEnds, CloseEnds,
       UpdatePoll, UpdateBook, SettleStart, SettleRound, SettleBook, SettleEnds, Unwind,
       memoryVars
  <2>5. CASE WorkerThread
    BY <2>5 DEF WorkerThread, Worker, WorkerPoll, WorkerFails, WorkerRecord, WorkerAppend,
       WorkerAdvance, memoryVars
  <2>6. CASE Exit \/ Crash
    BY <2>6 DEF Exit, Crash, Goto
  <2>7. QED
    BY <1>1, <2>2, <2>3, <2>4, <2>5, <2>6 DEF Next, Main, GateOpen, NotTrading, WarmedUp,
       RecordEquity, Clock, DeadlinePasses, Interruption, Interrupt, VenueMoves, DayTurns,
       OperatorSwitch, vars, brokerVars, memoryVars
<1>2. QED
  BY <1>1, Invariance, PTL DEF Spec, ClosedWithEverythingBooked

(* The ledger written by threads, recoveries and crashes implements the    *)
(* audit promise of OrderLifecycle.                                        *)
THEOREM Refinement == Spec => ImplementsLifecycle
<1>1. Init => Lifecycle!Init
  BY DEF Init, LedgerInit, Lifecycle!Init
<1>2. ASSUME IInv, [Next]_vars
      PROVE  [Lifecycle!Next]_<<order_state, fill_sum>>
  <2> USE <1>2 DEF IInv
  <2>1. CASE UNCHANGED <<fill_keys, fill_sum>>
    BY <2>1, RowSteps DEF Lifecycle!Next, Lifecycle!Intend, Lifecycle!Submit,
       Lifecycle!Reject, Lifecycle!Close, Lifecycle!Move
  <2>2. ASSUME NEW o \in Orders, NEW n \in Nat, Recorded(o, n)
        PROVE  Lifecycle!Record(o)
    <3>1. n \in 1..Quantity[o] /\ fill_sum[o] < n
      <4>1. fill_sum[o] \in Nat /\ filled[o] \in Nat /\ Quantity[o] \in Nat
        BY OrdersAssumption DEF TypeOK, VenueTypeOK, LedgerTypeOK
      <4>2. fill_sum[o] < n /\ n <= filled[o] /\ filled[o] <= Quantity[o]
        BY <2>2 DEF Recorded, VenueInv
      <4>3. QED
        BY <4>1, <4>2
    <3>2. QED
      BY <2>2, <3>1 DEF Recorded, Lifecycle!Record
  <2>3. QED
    BY <2>1, <2>2, FillSteps DEF Lifecycle!Next
<1>3. QED
  BY <1>1, <1>2, Invariance, PTL DEF Spec, ImplementsLifecycle, Lifecycle!Spec
---------------------------------------------------------------------------
(* What the portfolio holds.  Until seed_from_venue it has what recovery   *)
(* booked; afterwards it starts from the venue's balance.                  *)
Unseeded == pc = "down" \/ Recovering

(* Only orders of today, still open, have fills in flight: an enquiry      *)
(* covers the current day.                                                 *)
FlightInv ==
    /\ \A f \in InFlight : f.order_no \in open_orders /\ f.order_no \in today
    /\ wpc \in Polling => wtask \in today

(* A seeded portfolio has at least what its watermarks say and, of an      *)
(* order that is not open any more, at least what is on record.            *)
HoldingInv ==
    /\ \A o \in Orders : o \notin accepted => filled[o] = 0
    /\ Unseeded => \A o \in Orders : holding[o] <= portfolio_booked[o]
    /\ pc = "recover" => \A o \in Orders : holding[o] = 0
    /\ ~Unseeded => \A o \in Orders :
          /\ portfolio_booked[o] <= holding[o]
          /\ o \notin open_orders => fill_sum[o] <= holding[o]
          /\ order_state[o] = "none" => holding[o] = 0
    /\ pc \in Submitting => holding[cur] = 0

Restart == Exit \/ Crash \/ \E k \in {"rebalance", "eod"} : Launch(k)

(* A new process has nothing in its memory.                                *)
LEMMA RestartIsFresh ==
    ASSUME Restart
    PROVE  /\ open_orders' = {} /\ portfolio_booked' = Zero /\ holding' = Zero
           /\ InFlight' = {} /\ wpc' = "off" /\ pc' \in {"down", "recover"}
           /\ UNCHANGED <<venueVars, ledgerVars>>
  BY FillsOfEmpty DEF Restart, Exit, Crash, Launch, FreshMemory, Goto, InFlight

(* Which steps touch the portfolio, and when it becomes seeded.            *)
LEMMA SeedSteps ==
    ASSUME TypeOK, [Next]_vars, ~Restart
    PROVE  /\ BookFill \/ Seed \/ UNCHANGED holding
           /\ BookFill \/ pc = "recover" \/ UNCHANGED portfolio_booked
           /\ Seed \/ (Unseeded' <=> Unseeded)
           /\ pc' = "recover" <=> (pc = "recover" /\ ~RecoverBook)
<1> DEFINE Goal == /\ BookFill \/ Seed \/ UNCHANGED holding
                   /\ BookFill \/ pc = "recover" \/ UNCHANGED portfolio_booked
                   /\ Seed \/ (Unseeded' <=> Unseeded)
                   /\ pc' = "recover" <=> (pc = "recover" /\ ~RecoverBook)
<1> USE DEF Unseeded, Recovering
<1>1. CASE Recovery
  <2>1. CASE RecoverBook
    BY <2>1 DEF RecoverBook, StartDrain
  <2>2. CASE Seed
    BY <2>2 DEF Seed, Goto, RecoverBook
  <2>3. ASSUME NEW o \in Orders, RecoverOrphan(o) \/ \E r \in RecoveryReports(o) : RecoverOrder(o, r)
        PROVE  Goal
    BY <2>3 DEF RecoverOrphan, RecoverOrder, RecoverBook, StartDrain, memoryVars
  <2>4. QED
    BY <1>1, <2>1, <2>2, <2>3 DEF Recovery
<1>2. CASE BrokerStep
  <2>1. CASE BookFill
    BY <2>1 DEF BookFill, RecoverBook
  <2>2. CASE DrainEnds
    BY <2>2 DEF DrainEnds, AfterDrain, Goto, memoryVars, TypeOK, BrokerTypeOK, Callers, RecoverBook
  <2>3. ASSUME NEW o \in Orders,
               \/ SubmitIntent(o) \/ SubmitRefused(o) \/ CloseFilled(o) \/ CloseStale(o)
               \/ \E r \in Reports(o) : UpdatePoll(o, r)
        PROVE  Goal
    <3>1. /\ UNCHANGED <<holding, portfolio_booked, caller>> /\ pc # "recover"
          /\ pc' = pc \/ {pc, pc'} \subseteq Submitting \cup {"burst"}
      BY <2>3 DEF SubmitIntent, SubmitRefused, CloseFilled, CloseStale, CloseOrder, UpdatePoll,
         Goto, memoryVars, Submitting
    <3>2. QED
      BY <3>1 DEF Submitting, RecoverBook
  <2>4. CASE UpdateBook \/ SettleBook \/ SettleEnds \/ Unwind
    <3>1. SettleOutcome \in {"finished", "expired", "killed"}
      BY DEF SettleOutcome
    <3>2. /\ UNCHANGED <<holding, portfolio_booked>> /\ pc \in {"update", "barrier", "settle", "unwind"}
          /\ pc' = "drain"
          /\ caller' \in {"update", "settle", SettleOutcome, "interrupted"}
      BY <2>4 DEF UpdateBook, SettleBook, SettleEnds, Unwind, StartDrain
    <3>3. caller' # "recover"
      BY <3>1, <3>2
    <3>4. ~Unseeded /\ ~Unseeded'
      BY <3>2, <3>3
    <3>5. QED
      BY <3>2, <3>4
  <2>5. CASE StaleEnds \/ CloseEnds \/ SettleStart \/ SettleRound
    BY <2>5 DEF StaleEnds, CloseEnds, AfterClose, SettleStart, SettleRound, Goto, memoryVars
  <2>6. CASE PlaceAccepted \/ PlaceRaises(TRUE) \/ PlaceRaises(FALSE)
    BY <2>6 DEF PlaceAccepted, PlaceRaises, Goto, memoryVars
  <2>7. CASE RecordSubmitted \/ RecordRejected
    BY <2>7 DEF RecordSubmitted, RecordRejected, Goto, memoryVars
  <2>8. QED
    BY <1>2, <2>1, <2>2, <2>3, <2>4, <2>5, <2>6, <2>7 DEF BrokerStep
<1>3. CASE WorkerThread
  <2>1. UNCHANGED <<holding, portfolio_booked, pc, caller>>
    BY <1>3 DEF WorkerThread, Worker, WorkerPoll, WorkerFails, WorkerRecord, WorkerAppend,
       WorkerAdvance, memoryVars
  <2>2. ~RecoverBook
    BY <2>1 DEF RecoverBook, StartDrain
  <2>3. QED
    BY <2>1, <2>2
<1>4. CASE GateOpen \/ NotTrading \/ WarmedUp \/ RecordEquity \/ Interruption
  BY <1>4 DEF GateOpen, NotTrading, WarmedUp, RecordEquity, Interruption, Interrupt, Goto,
     memoryVars
<1>5. CASE Clock \/ VenueMoves \/ DayTurns \/ OperatorSwitch \/ UNCHANGED vars
  <2>1. UNCHANGED <<holding, portfolio_booked, pc, caller>>
    BY <1>5 DEF Clock, DeadlinePasses, VenueMoves, DayTurns, OperatorSwitch, vars, brokerVars,
       memoryVars
  <2>2. ~RecoverBook
    BY <2>1 DEF RecoverBook, StartDrain
  <2>3. QED
    BY <2>1, <2>2
<1>6. QED
  BY <1>1, <1>2, <1>3, <1>4, <1>5 DEF Next, Main, Restart

(* How the open set changes within a launch: orders close only when all    *)
(* that is on record is booked, and join it by recovery or submission.     *)
LEMMA OpenSteps ==
    ASSUME IInv, [Next]_vars, ~Restart
    PROVE  \/ UNCHANGED open_orders
           \/ /\ open_orders' \subseteq open_orders /\ InFlight = {}
              /\ wpc \notin Polling
              /\ \A o \in open_orders : portfolio_booked[o] = fill_sum[o]
           \/ RecordSubmitted
           \/ \E o \in Orders : \E r \in RecoveryReports(o) : RecoverOrder(o, r)
<1>1. ASSUME NEW o \in Orders, CloseFilled(o) \/ CloseStale(o)
      PROVE  /\ open_orders' \subseteq open_orders /\ InFlight = {}
             /\ wpc \notin Polling
             /\ \A p \in open_orders : portfolio_booked[p] = fill_sum[p]
  <2>1. pc \in {"close", "stale"} /\ open_orders' \subseteq open_orders
    BY <1>1 DEF CloseFilled, CloseStale, CloseOrder
  <2>2. InFlight = {}
    BY <2>1, FillsOfEmpty DEF IInv, BufferInv, InFlight
  <2>3. wpc \notin Polling
    BY <2>1 DEF IInv, WorkerInv, Polling
  <2>4. QED
    BY <2>1, <2>2, <2>3 DEF IInv, NothingLostInv, Polling
<1>2. CASE Recovery
  BY <1>2 DEF Recovery, RecoverOrphan, RecoverBook, Seed, memoryVars
<1>3. CASE BrokerStep
  BY <1>1, <1>3 DEF BrokerStep, SubmitIntent, SubmitRefused, PlaceAccepted, PlaceRaises,
     RecordRejected, BookFill, DrainEnds, StaleEnds, CloseEnds, UpdatePoll, UpdateBook,
     SettleStart, SettleRound, SettleBook, SettleEnds, Unwind, memoryVars
<1>4. CASE WorkerThread
  BY <1>4 DEF WorkerThread, Worker, WorkerPoll, WorkerFails, WorkerRecord, WorkerAppend,
     WorkerAdvance, memoryVars
<1>5. QED
  BY <1>2, <1>3, <1>4 DEF Next, Main, GateOpen, NotTrading, WarmedUp, RecordEquity, Clock,
     DeadlinePasses, Interruption, Interrupt, VenueMoves, DayTurns, OperatorSwitch, vars,
     brokerVars, memoryVars, Restart

(* An enquiry with a quantity in it is about an order of today.            *)
LEMMA FreshIsToday ==
    ASSUME NEW o \in Orders, NEW r \in Reports(o), NEW n \in Nat, r.filled > n
    PROVE  o \in today
<1>1. CASE r = EmptyReport
  BY <1>1 DEF EmptyReport
<1>2. CASE r = TrueReport(o) /\ r # EmptyReport
  BY <1>2 DEF TrueReport
<1>3. QED
  BY <1>1, <1>2 DEF Reports

(* Within a launch the day does not turn.                                  *)
LEMMA TodayGrows ==
    ASSUME [Next]_vars
    PROVE  pc = "down" \/ today \subseteq today'
<1>1. CASE Recovery
  BY <1>1 DEF Recovery, RecoverOrphan, RecoverOrder, RecoverBook, Seed, venueVars
<1>2. CASE BrokerStep
  <2>1. CASE PlaceAccepted \/ PlaceRaises(TRUE) \/ PlaceRaises(FALSE)
    BY <2>1 DEF PlaceAccepted, PlaceRaises, Accept, venueVars
  <2>2. QED
    BY <1>2, <2>1 DEF BrokerStep, SubmitIntent, SubmitRefused, RecordSubmitted,
       RecordRejected, BookFill, DrainEnds, CloseFilled, CloseStale, CloseOrder,
       StaleEnds, CloseEnds, UpdatePoll, UpdateBook, SettleStart, SettleRound,
       SettleBook, SettleEnds, Unwind, venueVars
<1>3. CASE WorkerThread
  BY <1>3 DEF WorkerThread, Worker, WorkerPoll, WorkerFails, WorkerRecord,
     WorkerAppend, WorkerAdvance, venueVars
<1>4. CASE VenueMoves \/ DayTurns
  BY <1>4 DEF VenueMoves, DayTurns, Fill, DropRemainder
<1>5. CASE UNCHANGED vars
  BY <1>5 DEF vars, brokerVars, venueVars
<1>6. QED
  BY <1>1, <1>2, <1>3, <1>4, <1>5 DEF Next, Main, Launch, GateOpen, WarmedUp, NotTrading,
     RecordEquity, Exit, Clock, DeadlinePasses, Interruption, Interrupt, Crash,
     OperatorSwitch, venueVars

(* Every step keeps what is in flight about open orders of today.          *)
LEMMA FlightStep ==
    ASSUME IInv, FlightInv, [Next]_vars
    PROVE  FlightInv'
<1> USE DEF IInv
<1>1. CASE Restart
  BY <1>1, RestartIsFresh DEF FlightInv, Polling
<1>2. CASE ~Restart
  <2>0. pc = "down" => InFlight = {} /\ wpc = "off"
    BY FillsOfEmpty DEF BufferInv, InFlight, WorkerInv
  <2>t. \A o \in today : pc # "down" => o \in today'
    BY TodayGrows
  <2>1. \A f \in InFlight' : f.order_no \in today'
    <3>1. CASE InFlight' = InFlight
      BY <3>1, <2>0, <2>t DEF FlightInv
    <3>2. ASSUME NEW o \in Orders, NEW r \in Reports(o), RecoverOrder(o, r) \/ UpdatePoll(o, r)
          PROVE  \A f \in InFlight' : f.order_no \in today'
      <4>1. /\ poll_once(o, r, fill_sum[o]) /\ UNCHANGED pending /\ UNCHANGED today /\ pc # "down"
        BY <3>2, RecoverPolls DEF RecoverOrder, UpdatePoll, venueVars
      <4>2. CASE InFlight' = InFlight
        BY <4>1, <4>2 DEF FlightInv
      <4>3. ASSUME NEW n \in Nat, fill_sum[o] < n, fill_sum' = [fill_sum EXCEPT ![o] = n],
                   InFlight' = InFlight \cup {FillOf(o, n)}
            PROVE  \A f \in InFlight' : f.order_no \in today'
        <5>1. fill_sum[o] \in Nat /\ fill_sum'[o] # fill_sum[o]
          BY <4>3 DEF TypeOK, LedgerTypeOK
        <5>2. r.filled > fill_sum[o]
          BY <4>1, <5>1 DEF poll_once
        <5>3. o \in today
          BY <5>1, <5>2, FreshIsToday
        <5>4. QED
          BY <4>1, <4>3, <5>3 DEF FlightInv, FillOf
      <4>4. QED
        BY <4>1, <4>2, <4>3, MainPoll
    <3>3. CASE WorkerAppend
      <4>1. /\ InFlight' = InFlight \cup {FillOf(wtask, fill_sum[wtask])} /\ wtask \in today
            /\ UNCHANGED today
        BY <3>3, WorkerAppendStep DEF FlightInv, Polling, WorkerAppend, venueVars
      <4>2. QED
        BY <4>1 DEF FlightInv, FillOf
    <3>4. CASE BookFill
      <4>1. InFlight' \subseteq InFlight /\ UNCHANGED today
        BY <3>4, BookFillStep DEF BookFill, venueVars
      <4>2. QED
        BY <4>1 DEF FlightInv
    <3>5. QED
      BY <3>1, <3>2, <3>3, <3>4, FlightSteps
  <2>2. \A f \in InFlight' : f.order_no \in open_orders'
    <3>1. CASE InFlight' = InFlight
      <4>1. CASE RecordSubmitted
        BY <3>1, <4>1 DEF RecordSubmitted, FlightInv
      <4>2. ASSUME NEW o \in Orders, NEW r \in RecoveryReports(o), RecoverOrder(o, r)
            PROVE  \A f \in InFlight' : f.order_no \in open_orders'
        BY <3>1, <4>2 DEF RecoverOrder, FlightInv
      <4>3. QED
        BY <1>2, <3>1, <4>1, <4>2, OpenSteps DEF FlightInv
    <3>2. ASSUME NEW o \in Orders, NEW r \in Reports(o), RecoverOrder(o, r) \/ UpdatePoll(o, r)
          PROVE  \A f \in InFlight' : f.order_no \in open_orders'
      <4>1. /\ poll_once(o, r, fill_sum[o]) /\ UNCHANGED pending
            /\ open_orders \subseteq open_orders' /\ o \in open_orders'
        <5>1. CASE RecoverOrder(o, r)
          BY <5>1, RecoverPolls DEF RecoverOrder
        <5>2. CASE UpdatePoll(o, r)
          <6>1. o \in open_orders
            BY <5>2 DEF UpdatePoll, Oldest, TrackingInv
          <6>2. QED
            BY <5>2, <6>1, RecoverPolls DEF UpdatePoll
        <5>3. QED
          BY <3>2, <5>1, <5>2
      <4>2. QED
        BY <4>1, MainPoll DEF FlightInv, FillOf
    <3>3. CASE WorkerAppend
      <4>1. /\ InFlight' = InFlight \cup {FillOf(wtask, fill_sum[wtask])} /\ wtask \in open_orders
            /\ UNCHANGED open_orders
        BY <3>3, WorkerAppendStep DEF WorkerInv, Polling, WorkerAppend
      <4>2. QED
        BY <4>1 DEF FlightInv, FillOf
    <3>4. CASE BookFill
      <4>1. InFlight' \subseteq InFlight /\ UNCHANGED open_orders
        BY <3>4, BookFillStep DEF BookFill
      <4>2. QED
        BY <4>1 DEF FlightInv
    <3>5. QED
      BY <3>1, <3>2, <3>3, <3>4, FlightSteps
  <2>3. ASSUME wpc' \in Polling PROVE wtask' \in today'
    <3>1. \/ wpc \in Polling /\ UNCHANGED wtask
          \/ \E o \in Orders : \E r \in Reports(o) : WorkerPoll(o, r)
      <4>1. CASE WorkerThread
        BY <2>3, <4>1 DEF WorkerThread, Worker, WorkerPoll, WorkerFails, WorkerRecord,
           WorkerAppend, WorkerAdvance, Polling
      <4>2. CASE BrokerStep
        BY <2>3, <4>2 DEF BrokerStep, SubmitIntent, SubmitRefused, PlaceAccepted,
           PlaceRaises, RecordSubmitted, RecordRejected, BookFill, DrainEnds, CloseFilled,
           CloseStale, CloseOrder, StaleEnds, CloseEnds, UpdatePoll, UpdateBook, SettleStart,
           SettleRound, SettleBook, SettleEnds, Unwind, StopWorker, workerVars, Polling
      <4>3. QED
        BY <1>2, <2>3, <4>1, <4>2 DEF Next, Main, Recovery, RecoverOrphan, RecoverOrder,
           RecoverBook, Seed, GateOpen, NotTrading, WarmedUp, RecordEquity, Clock,
           DeadlinePasses, Interruption, Interrupt, VenueMoves, DayTurns, OperatorSwitch, vars,
           brokerVars, workerVars, Restart
    <3>2. ASSUME NEW o \in Orders, NEW r \in Reports(o), WorkerPoll(o, r)
          PROVE  wtask' \in today'
      <4>1. booked_quantity[o] \in Nat /\ UNCHANGED today
        BY <3>2 DEF TypeOK, BrokerTypeOK, WorkerPoll, venueVars
      <4>2. r.filled > booked_quantity[o] /\ wtask' = o
        BY <2>3, <3>2 DEF WorkerPoll, Polling
      <4>3. QED
        BY <4>1, <4>2, FreshIsToday
    <3>3. CASE wpc \in Polling /\ UNCHANGED wtask
      <4>1. pc # "down"
        BY <3>3, <2>0 DEF Polling
      <4>2. QED
        BY <3>3, <4>1, <2>t DEF FlightInv
    <3>4. QED
      BY <3>1, <3>2, <3>3
  <2>4. QED
    BY <2>1, <2>2, <2>3 DEF FlightInv
<1>3. QED
  BY <1>1, <1>2

(* One fill booked: the holding and the watermark move by the same amount. *)
LEMMA BookFillHolds ==
    ASSUME IInv, FlightInv, BookFill
    PROVE  \E p \in open_orders \cap today, n \in Nat :
             /\ p \in Orders /\ portfolio_booked[p] <= n /\ n <= fill_sum[p]
             /\ portfolio_booked' = [portfolio_booked EXCEPT ![p] = n]
             /\ holding' = [holding EXCEPT ![p] = @ + (n - portfolio_booked[p])]
             /\ UNCHANGED <<venueVars, ledgerVars, open_orders, pc, caller, cur>>
<1> DEFINE p == Head(pending).order_no
           total == Head(pending).cumulative_filled
<1>1. FillsOf(pending) = {Head(pending)} \cup FillsOf(pending')
  BY FillsOfTail DEF BookFill, IInv, TypeOK, BrokerTypeOK
<1>2. Head(pending) \in InFlight
  BY <1>1 DEF InFlight
<1>3. /\ p \in open_orders /\ p \in today /\ p \in Orders /\ total \in Nat
      /\ total <= fill_sum[p] /\ portfolio_booked[p] <= fill_sum[p]
  BY <1>2, InFlightTyped DEF FlightInv, IInv, RecordedFirstInv
<1>4. portfolio_booked \in [Orders -> Nat] /\ holding \in [Orders -> Nat]
  BY DEF IInv, TypeOK, BrokerTypeOK
<1>5. UNCHANGED <<venueVars, ledgerVars, open_orders, pc, caller, cur>>
  BY DEF BookFill, loopVars
<1> HIDE DEF p, total
<1>6. CASE total > portfolio_booked[p]
  <2>1. /\ portfolio_booked' = [portfolio_booked EXCEPT ![p] = total]
        /\ holding' = [holding EXCEPT ![p] = @ + (total - portfolio_booked[p])]
    BY <1>6 DEF BookFill, p, total
  <2>2. portfolio_booked[p] <= total
    BY <1>3, <1>4, <1>6
  <2>3. QED
    BY <1>3, <1>5, <2>1, <2>2
<1>7. CASE ~(total > portfolio_booked[p])
  <2>1. UNCHANGED <<portfolio_booked, holding>>
    BY <1>7 DEF BookFill, p, total
  <2>2. PICK n \in Nat : n = portfolio_booked[p]
    BY <1>3, <1>4
  <2>3. holding[p] \in Nat /\ holding[p] + (n - portfolio_booked[p]) = holding[p]
    BY <1>3, <1>4, <2>2
  <2>4. /\ portfolio_booked' = [portfolio_booked EXCEPT ![p] = n]
        /\ holding' = [holding EXCEPT ![p] = @ + (n - portfolio_booked[p])]
    BY <1>4, <2>1, <2>2, <2>3
  <2>5. portfolio_booked[p] <= n /\ n <= fill_sum[p]
    BY <1>3, <2>2
  <2>6. QED
    BY <1>3, <1>5, <2>4, <2>5
<1>8. QED
  BY <1>6, <1>7

(* An order in submission was not on record before, and stays the same.    *)
LEMMA SubmittingSteps ==
    ASSUME IInv, [Next]_vars, ~Restart, pc' \in Submitting
    PROVE  \/ pc \in Submitting /\ cur' = cur
           \/ pc = "burst" /\ cur' \in Orders /\ order_state[cur'] = "none"
<1> USE DEF Submitting
<1>1. CASE Recovery
  <2>1. ASSUME NEW o \in Orders, NEW r, RecoverOrder(o, r) PROVE FALSE
    BY <2>1 DEF RecoverOrder
  <2>2. QED
    BY <1>1, <2>1 DEF Recovery, RecoverOrphan, RecoverBook, Seed, StartDrain, Goto
<1>2. CASE BrokerStep
  <2>1. ASSUME NEW o \in Orders, SubmitIntent(o) \/ SubmitRefused(o)
        PROVE  pc = "burst" /\ cur' \in Orders /\ order_state[cur'] = "none"
    BY <2>1 DEF SubmitIntent, SubmitRefused, Oldest
  <2>2. CASE PlaceAccepted \/ PlaceRaises(TRUE) \/ PlaceRaises(FALSE)
    BY <2>2 DEF PlaceAccepted, PlaceRaises, loopVars
  <2>3. ASSUME NEW o \in Orders, NEW r \in Reports(o), UpdatePoll(o, r) PROVE FALSE
    BY <2>3 DEF UpdatePoll
  <2>4. ASSUME NEW o \in Orders, CloseFilled(o) \/ CloseStale(o) PROVE FALSE
    BY <2>4 DEF CloseFilled, CloseStale, CloseOrder
  <2>5. CASE RecordSubmitted \/ RecordRejected
    BY <2>5 DEF RecordSubmitted, RecordRejected, Goto
  <2>6. CASE DrainEnds \/ CloseEnds \/ StaleEnds
    BY <2>6 DEF DrainEnds, AfterDrain, CloseEnds, AfterClose, StaleEnds, Goto
  <2>7. QED
    BY <1>2, <2>1, <2>2, <2>3, <2>4, <2>5, <2>6 DEF BrokerStep, BookFill, UpdateBook,
       SettleStart, SettleRound, SettleBook, SettleEnds, Unwind, StartDrain, Goto
<1>3. CASE WorkerThread
  BY <1>3 DEF WorkerThread, Worker, WorkerPoll, WorkerFails, WorkerRecord, WorkerAppend,
     WorkerAdvance, loopVars
<1>4. QED
  BY <1>1, <1>2, <1>3 DEF Next, Main, GateOpen, NotTrading, WarmedUp, RecordEquity, Clock,
     DeadlinePasses, Interruption, Interrupt, VenueMoves, DayTurns, OperatorSwitch, vars,
     brokerVars, loopVars, Restart, Goto

(* Every step keeps the portfolio at least as large as it should be.       *)
LEMMA HoldingStep ==
    ASSUME IInv, IInv', FlightInv, HoldingInv, [Next]_vars
    PROVE  HoldingInv'
<1>t. /\ portfolio_booked \in [Orders -> Nat] /\ holding \in [Orders -> Nat]
      /\ fill_sum \in [Orders -> Nat] /\ filled \in [Orders -> Nat]
      /\ accepted \subseteq Orders /\ open_orders \subseteq Orders
  BY DEF IInv, TypeOK, BrokerTypeOK, LedgerTypeOK, VenueTypeOK
<1>v. \A o \in Orders : o \notin accepted' => filled'[o] = 0
  BY <1>t, VenueSteps DEF HoldingInv, venueVars, Accept, Fill, DropRemainder, NewDay
<1>1. CASE Restart
  <2>1. \A o \in Orders : holding'[o] = 0 /\ portfolio_booked'[o] = 0
    BY <1>1, RestartIsFresh DEF Zero
  <2>2. pc' \in {"down", "recover"}
    BY <1>1, RestartIsFresh
  <2>3. QED
    BY <1>v, <2>1, <2>2 DEF HoldingInv, Unseeded, Recovering, Submitting
<1>2. CASE Seed
  <2>1. /\ holding' = filled /\ UNCHANGED <<venueVars, ledgerVars, open_orders, portfolio_booked>>
        /\ pc' \in {"update", "exiting", "gate"}
    BY <1>2 DEF Seed, seed_from_venue, Goto
  <2>2. ASSUME NEW o \in Orders
        PROVE  /\ portfolio_booked[o] <= filled[o] /\ fill_sum[o] <= filled[o]
               /\ order_state[o] = "none" => filled[o] = 0
    <3>1. portfolio_booked[o] <= fill_sum[o] /\ fill_sum[o] <= filled[o]
      BY DEF IInv, RecordedFirstInv, LedgerInv
    <3>2. order_state[o] = "none" => o \notin accepted
      BY DEF IInv, LedgerInv
    <3>3. QED
      BY <1>t, <3>1, <3>2 DEF HoldingInv
  <2>3. QED
    BY <1>v, <2>1, <2>2 DEF HoldingInv, Unseeded, Recovering, Submitting, ledgerVars
<1>3. CASE BookFill
  <2>1. PICK p \in open_orders \cap today, n \in Nat :
             /\ p \in Orders /\ portfolio_booked[p] <= n /\ n <= fill_sum[p]
             /\ portfolio_booked' = [portfolio_booked EXCEPT ![p] = n]
             /\ holding' = [holding EXCEPT ![p] = @ + (n - portfolio_booked[p])]
             /\ UNCHANGED <<venueVars, ledgerVars, open_orders, pc, caller, cur>>
    BY <1>3, BookFillHolds
  <2>2. ASSUME NEW o \in Orders
        PROVE  /\ holding[o] <= portfolio_booked[o] => holding'[o] <= portfolio_booked'[o]
               /\ portfolio_booked[o] <= holding[o] => portfolio_booked'[o] <= holding'[o]
               /\ o # p => holding'[o] = holding[o]
    BY <1>t, <2>1
  <2>3. pc = "drain" /\ order_state[p] # "none"
    BY <1>3, <2>1 DEF BookFill, IInv, TrackingInv
  <2>4. (Unseeded' <=> Unseeded) /\ pc' = "drain"
    BY <2>1, <2>3 DEF Unseeded, Recovering
  <2>5. UNCHANGED <<fill_sum, order_state, open_orders>>
    BY <2>1 DEF ledgerVars
  <2>6. ~Unseeded' => \A o \in Orders :
          /\ portfolio_booked'[o] <= holding'[o]
          /\ o \notin open_orders' => fill_sum'[o] <= holding'[o]
          /\ order_state'[o] = "none" => holding'[o] = 0
    BY <2>1, <2>2, <2>3, <2>4, <2>5 DEF HoldingInv
  <2>7. Unseeded' => \A o \in Orders : holding'[o] <= portfolio_booked'[o]
    BY <2>2, <2>4 DEF HoldingInv
  <2>8. QED
    BY <1>v, <2>4, <2>6, <2>7 DEF HoldingInv, Submitting
<1>4. CASE ~Restart /\ ~Seed /\ ~BookFill
  <2>1. /\ UNCHANGED holding /\ (Unseeded' <=> Unseeded)
        /\ pc' = "recover" => pc = "recover"
        /\ pc = "recover" \/ UNCHANGED portfolio_booked
    BY <1>4, SeedSteps DEF IInv
  <2>2. pc' \in Submitting => holding'[cur'] = 0
    <3>1. pc = "burst" => ~Unseeded
      BY DEF Unseeded, Recovering
    <3>2. QED
      BY <1>4, <2>1, <3>1, SubmittingSteps DEF HoldingInv
  <2>3. CASE Unseeded
    <3>1. portfolio_booked' \in [Orders -> Nat]
      BY DEF IInv, TypeOK, BrokerTypeOK
    <3>2. \A o \in Orders : holding'[o] <= portfolio_booked'[o]
      BY <1>t, <2>1, <2>3, <3>1 DEF HoldingInv
    <3>3. pc' = "recover" => \A o \in Orders : holding'[o] = 0
      BY <2>1 DEF HoldingInv
    <3>4. QED
      BY <1>v, <2>1, <2>2, <2>3, <3>2, <3>3 DEF HoldingInv
  <2>4. CASE ~Unseeded
    <3>1. pc \notin {"down", "recover"} /\ pc' \notin {"down", "recover"}
      BY <2>1, <2>4 DEF Unseeded, Recovering
    <3>2. UNCHANGED portfolio_booked
      BY <2>1, <3>1
    <3>3. ASSUME NEW o \in Orders, o \notin open_orders'
          PROVE  fill_sum'[o] <= holding[o]
      <4>1. CASE order_state'[o] = "SUBMITTED"
        BY <3>1, <3>3, <4>1 DEF IInv, TrackingInv
      <4>2. CASE order_state'[o] # "SUBMITTED"
        <5>1. fill_sum'[o] = fill_sum[o]
          <6>1. ASSUME NEW q \in Orders, NEW n \in Nat, Recorded(q, n)
                PROVE  fill_sum'[o] = fill_sum[o]
            BY <1>t, <4>2, <6>1 DEF Recorded
          <6>2. QED
            BY <6>1, FillSteps DEF IInv
        <5>2. CASE o \notin open_orders
          BY <2>4, <5>1, <5>2 DEF HoldingInv
        <5>3. CASE o \in open_orders
          <6>1. portfolio_booked[o] = fill_sum[o]
            <7>1. ASSUME NEW p \in Orders, NEW r \in RecoveryReports(p), RecoverOrder(p, r)
                  PROVE  FALSE
              BY <3>1, <7>1 DEF RecoverOrder
            <7>2. RecordSubmitted => FALSE
              BY <3>3, <5>3 DEF RecordSubmitted
            <7>3. QED
              BY <1>4, <3>3, <5>3, <7>1, <7>2, OpenSteps
          <6>2. QED
            BY <2>4, <5>1, <6>1 DEF HoldingInv
        <5>4. QED
          BY <5>2, <5>3
      <4>3. QED
        BY <4>1, <4>2
    <3>4. ASSUME NEW o \in Orders, order_state'[o] = "none"
          PROVE  holding[o] = 0
      <4>1. order_state[o] = "none"
        <5>1. order_state \in [Orders -> States]
          BY DEF IInv, TypeOK, LedgerTypeOK
        <5>2. ASSUME NEW p \in Orders, NEW s \in States, s # "none",
                     order_state' = [order_state EXCEPT ![p] = s]
              PROVE  order_state[o] = "none"
          BY <3>4, <5>1, <5>2
        <5>3. QED
          BY <3>4, <5>2, RowSteps DEF IInv
      <4>2. QED
        BY <2>4, <4>1 DEF HoldingInv
    <3>5. QED
      BY <1>v, <2>1, <2>2, <2>4, <3>1, <3>2, <3>3, <3>4 DEF HoldingInv
  <2>5. QED
    BY <2>3, <2>4
<1>5. QED
  BY <1>1, <1>2, <1>3, <1>4

(* When recovery hears everything: a recovered order of today is on record *)
(* up to the venue's figure, so that the balance it is seeded with has     *)
(* nothing that would be booked a second time.                             *)
CleanInv ==
    /\ Recovering => \A o \in open_orders : o \in today => fill_sum[o] = filled[o]
    /\ ~Unseeded => \A o \in Orders :
          /\ holding[o] <= filled[o]
          /\ o \in open_orders /\ o \in today => holding[o] = portfolio_booked[o]

(* While a launch recovers, its venue stands still, and an order it takes  *)
(* up again is on record up to the venue's figure.                         *)
LEMMA CleanRecovers ==
    ASSUME CleanRecovery, IInv, CleanInv, [Next]_vars, ~Restart, Recovering
    PROVE  \A o \in open_orders' : o \in today' => fill_sum'[o] = filled'[o]
<1>t. /\ fill_sum \in [Orders -> Nat] /\ filled \in [Orders -> Nat] /\ open_orders \subseteq Orders
  BY DEF IInv, TypeOK, BrokerTypeOK, LedgerTypeOK, VenueTypeOK
<1>1. pc \in {"recover", "seed", "drain", "close"} /\ wpc = "off"
  BY DEF Recovering, IInv, WorkerInv, BeforeSettling
<1>2. UNCHANGED <<filled, today>>
  <2>1. CASE BrokerStep
    <3>1. CASE PlaceAccepted \/ PlaceRaises(TRUE) \/ PlaceRaises(FALSE)
      BY <1>1, <3>1 DEF PlaceAccepted, PlaceRaises
    <3>2. QED
      BY <2>1, <3>1 DEF BrokerStep, SubmitIntent, SubmitRefused, RecordSubmitted,
         RecordRejected, BookFill, DrainEnds, CloseFilled, CloseStale, CloseOrder,
         StaleEnds, CloseEnds, UpdatePoll, UpdateBook, SettleStart, SettleRound,
         SettleBook, SettleEnds, Unwind, venueVars
  <2>2. CASE WorkerThread
    BY <2>2 DEF WorkerThread, Worker, WorkerPoll, WorkerFails, WorkerRecord,
       WorkerAppend, WorkerAdvance, venueVars
  <2>3. CASE Recovery
    BY <2>3 DEF Recovery, RecoverOrphan, RecoverOrder, RecoverBook, Seed, venueVars
  <2>4. QED
    BY <1>1, <2>1, <2>2, <2>3 DEF Next, Main, GateOpen, WarmedUp, NotTrading, RecordEquity,
       Clock, DeadlinePasses, Interruption, Interrupt, OperatorSwitch, VenueMoves, DayTurns,
       vars, brokerVars, venueVars, Restart
<1>3. ASSUME NEW o \in Orders, NEW r \in RecoveryReports(o), RecoverOrder(o, r)
      PROVE  \A p \in open_orders' : p \in today' => fill_sum'[p] = filled'[p]
  <2>1. r = TrueReport(o) /\ r \in Reports(o)
    BY DEF RecoveryReports, Reports
  <2>2. poll_once(o, r, fill_sum[o]) /\ open_orders' = open_orders \cup {o}
    BY <1>3 DEF RecoverOrder, already_booked
  <2>3. \/ UNCHANGED fill_sum /\ ~(r.filled > fill_sum[o])
        \/ fill_sum' = [fill_sum EXCEPT ![o] = r.filled] /\ r.filled > fill_sum[o]
    <3>1. fill_sum[o] \in Nat
      BY <1>t
    <3>2. CASE r.filled > fill_sum[o]
      <4>1. r.filled \in Nat
        BY <2>1, ReportsTyped DEF IInv, ReportType
      <4>2. fill_sum[o] < r.filled /\ record_fill(o, r.filled, r.filled - fill_sum[o])
        BY <2>2, <3>1, <3>2, <4>1 DEF poll_once
      <4>3. QED
        BY <3>2, <4>1, <4>2, RecordFill DEF IInv
    <3>3. CASE ~(r.filled > fill_sum[o])
      BY <2>2, <3>3 DEF poll_once
    <3>4. QED
      BY <3>2, <3>3
  <2>4. ASSUME o \in today PROVE fill_sum'[o] = filled[o]
    <3>1. r.filled = filled[o]
      BY <2>1, <2>4 DEF TrueReport
    <3>2. fill_sum[o] <= filled[o]
      BY DEF IInv, LedgerInv
    <3>3. QED
      BY <1>t, <2>3, <3>1, <3>2
  <2>5. ASSUME NEW p \in open_orders, p # o, p \in today PROVE fill_sum'[p] = filled[p]
    BY <1>t, <2>3, <2>5 DEF CleanInv
  <2>6. QED
    BY <1>2, <2>2, <2>4, <2>5
<1>4. CASE ~\E o \in Orders : \E r \in RecoveryReports(o) : RecoverOrder(o, r)
  <2>1. UNCHANGED fill_sum
    <3>1. CASE Recovery
      BY <1>4, <3>1 DEF Recovery, RecoverOrphan, RecoverBook, Seed, ledgerVars
    <3>2. CASE BrokerStep
      <4>1. ASSUME NEW o \in Orders, NEW r \in Reports(o), UpdatePoll(o, r) PROVE FALSE
        BY <1>1, <4>1 DEF UpdatePoll
      <4>2. QED
        BY <3>2, <4>1 DEF BrokerStep, SubmitIntent, SubmitRefused, PlaceAccepted,
           PlaceRaises, RecordSubmitted, RecordRejected, BookFill, DrainEnds, CloseFilled,
           CloseStale, CloseOrder, StaleEnds, CloseEnds, UpdateBook, SettleStart,
           SettleRound, SettleBook, SettleEnds, Unwind, ledgerVars
    <3>3. CASE WorkerThread
      BY <1>1, <3>3 DEF WorkerThread, Worker, WorkerPoll, WorkerFails, WorkerRecord,
         WorkerAppend, WorkerAdvance, ledgerVars
    <3>4. QED
      BY <3>1, <3>2, <3>3 DEF Next, Main, GateOpen, WarmedUp, NotTrading, RecordEquity,
         Clock, DeadlinePasses, Interruption, Interrupt, OperatorSwitch, VenueMoves, DayTurns,
         vars, brokerVars, ledgerVars, Restart
  <2>2. open_orders' \subseteq open_orders
    <3>1. ~RecordSubmitted
      BY <1>1 DEF RecordSubmitted
    <3>2. QED
      BY <1>4, <3>1, OpenSteps
  <2>3. QED
    BY <1>2, <2>1, <2>2 DEF CleanInv
<1>5. QED
  BY <1>3, <1>4

(* Every step keeps a portfolio that was cleanly seeded within the venue's *)
(* figures.                                                                *)
LEMMA CleanStep ==
    ASSUME CleanRecovery, IInv, IInv', FlightInv, HoldingInv, CleanInv, [Next]_vars
    PROVE  CleanInv'
<1>t. /\ portfolio_booked \in [Orders -> Nat] /\ holding \in [Orders -> Nat]
      /\ fill_sum \in [Orders -> Nat] /\ filled \in [Orders -> Nat]
      /\ open_orders \subseteq Orders
  BY DEF IInv, TypeOK, BrokerTypeOK, LedgerTypeOK, VenueTypeOK
<1>g. \A o \in Orders : filled[o] <= filled'[o] /\ filled'[o] \in Nat
  BY <1>t, VenueSteps DEF venueVars, Accept, Fill, DropRemainder, NewDay
<1>1. CASE Restart
  BY <1>1, RestartIsFresh DEF CleanInv, Unseeded, Recovering
<1>2. CASE Seed
  <2>1. /\ holding' = filled /\ UNCHANGED <<filled, today, open_orders, portfolio_booked>>
        /\ pc' \in {"update", "exiting", "gate"} /\ pc = "seed"
    BY <1>2 DEF Seed, seed_from_venue, Goto, venueVars
  <2>2. InFlight = {} /\ wpc = "off" /\ Recovering
    BY <2>1, FillsOfEmpty DEF IInv, BufferInv, InFlight, WorkerInv, BeforeSettling, Recovering
  <2>3. ASSUME NEW o \in open_orders, o \in today PROVE filled[o] = portfolio_booked[o]
    <3>1. portfolio_booked[o] = fill_sum[o]
      BY <2>2 DEF IInv, NothingLostInv
    <3>2. fill_sum[o] = filled[o]
      BY <2>2, <2>3 DEF CleanInv
    <3>3. QED
      BY <3>1, <3>2
  <2>4. ~Recovering'
    BY <2>1 DEF Recovering
  <2>5. \A o \in Orders : filled[o] <= filled[o]
    BY <1>t
  <2>6. QED
    BY <2>1, <2>3, <2>4, <2>5 DEF CleanInv
<1>3. CASE BookFill
  <2>1. PICK p \in open_orders \cap today, n \in Nat :
             /\ p \in Orders /\ portfolio_booked[p] <= n /\ n <= fill_sum[p]
             /\ portfolio_booked' = [portfolio_booked EXCEPT ![p] = n]
             /\ holding' = [holding EXCEPT ![p] = @ + (n - portfolio_booked[p])]
             /\ UNCHANGED <<venueVars, ledgerVars, open_orders, pc, caller, cur>>
    BY <1>3, BookFillHolds
  <2>2. UNCHANGED <<filled, today, fill_sum, open_orders, pc, caller>>
    BY <2>1 DEF venueVars, ledgerVars
  <2>3. (Recovering' <=> Recovering) /\ (Unseeded' <=> Unseeded)
    BY <2>2 DEF Unseeded, Recovering
  <2>4. ASSUME ~Unseeded, NEW o \in Orders
        PROVE  /\ holding'[o] <= filled[o]
               /\ o \in open_orders /\ o \in today => holding'[o] = portfolio_booked'[o]
    <3>1. holding[p] = portfolio_booked[p] /\ fill_sum[p] <= filled[p]
      BY <2>1, <2>4 DEF CleanInv, IInv, LedgerInv
    <3>2. holding'[p] = n /\ portfolio_booked'[p] = n /\ n <= filled[p]
      BY <1>t, <2>1, <3>1
    <3>3. CASE o = p
      BY <3>2, <3>3
    <3>4. CASE o # p
      BY <1>t, <2>1, <2>4, <3>4 DEF CleanInv
    <3>5. QED
      BY <3>3, <3>4
  <2>5. QED
    BY <2>2, <2>3, <2>4 DEF CleanInv
<1>4. CASE ~Restart /\ ~Seed /\ ~BookFill
  <2>1. /\ UNCHANGED holding /\ (Unseeded' <=> Unseeded)
        /\ pc = "recover" \/ UNCHANGED portfolio_booked
    BY <1>4, SeedSteps DEF IInv
  <2>2. Recovering' => \A o \in open_orders' : o \in today' => fill_sum'[o] = filled'[o]
    <3>1. Recovering' => Recovering \/ pc = "down"
      BY <2>1 DEF Unseeded
    <3>2. CASE pc = "down"
      <4>1. open_orders = {} /\ ~RecordSubmitted
        BY <3>2 DEF IInv, TrackingInv, RecordSubmitted
      <4>2. ASSUME NEW o \in Orders, NEW r, RecoverOrder(o, r) PROVE FALSE
        BY <3>2, <4>2 DEF RecoverOrder
      <4>3. open_orders' = {}
        BY <1>4, <4>1, <4>2, OpenSteps
      <4>4. QED
        BY <4>3
    <3>3. QED
      BY <1>4, <3>1, <3>2, CleanRecovers
  <2>3. ASSUME ~Unseeded, NEW o \in Orders
        PROVE  /\ holding'[o] <= filled'[o]
               /\ o \in open_orders' /\ o \in today' => holding'[o] = portfolio_booked'[o]
    <3>1. pc \notin {"down", "recover"} /\ UNCHANGED portfolio_booked
      BY <2>1, <2>3 DEF Unseeded, Recovering
    <3>2. holding'[o] <= filled'[o]
      BY <1>t, <1>g, <2>1, <2>3 DEF CleanInv
    <3>3. ASSUME o \in open_orders', o \in today'
          PROVE  holding[o] = portfolio_booked[o]
      <4>1. CASE RecordSubmitted /\ o = cur
        <5>1. holding[o] = 0 /\ fill_sum[o] = 0
          BY <4>1 DEF RecordSubmitted, HoldingInv, Submitting, IInv, TrackingInv, LedgerInv
        <5>2. portfolio_booked[o] <= fill_sum[o]
          BY DEF IInv, RecordedFirstInv
        <5>3. QED
          BY <1>t, <5>1, <5>2
      <4>2. CASE ~(RecordSubmitted /\ o = cur)
        <5>1. o \in open_orders
          <6>1. ASSUME NEW p \in Orders, NEW r, RecoverOrder(p, r) PROVE FALSE
            BY <3>1, <6>1 DEF RecoverOrder
          <6>2. CASE RecordSubmitted
            BY <3>3, <4>2, <6>2 DEF RecordSubmitted
          <6>3. QED
            BY <1>4, <3>3, <6>1, <6>2, OpenSteps
        <5>2. o \in today
          <6>1. CASE pc = "placing" /\ Accept(cur)
            <7>1. order_state[cur] = "INTENT" /\ order_state[o] = "SUBMITTED"
              BY <5>1, <6>1 DEF IInv, TrackingInv, Submitting
            <7>2. QED
              BY <3>3, <6>1, <7>1 DEF Accept
          <6>2. QED
            BY <3>3, <6>1, VenueSteps DEF venueVars, Fill, DropRemainder, NewDay
        <5>3. QED
          BY <2>3, <5>1, <5>2 DEF CleanInv
      <4>3. QED
        BY <4>1, <4>2
    <3>4. QED
      BY <2>1, <3>1, <3>2, <3>3
  <2>4. QED
    BY <2>1, <2>2, <2>3 DEF CleanInv
<1>5. QED
  BY <1>1, <1>2, <1>3, <1>4

(* The portfolio's invariants hold for ever.                               *)
LEMMA HoldingInvariant == Spec => [](IInv /\ FlightInv /\ HoldingInv)
<1>1. Init => IInv /\ FlightInv /\ HoldingInv
  <2> SUFFICES ASSUME Init PROVE FlightInv /\ HoldingInv
    BY InitInv
  <2>1. InFlight = {} /\ wpc = "off" /\ pc = "down"
    BY FillsOfEmpty DEF Init, BrokerInit, InFlight
  <2>2. \A o \in Orders : filled[o] = 0 /\ holding[o] = 0 /\ portfolio_booked[o] = 0
    BY DEF Init, VenueInit, BrokerInit, Zero
  <2>3. QED
    BY <2>1, <2>2 DEF FlightInv, HoldingInv, Polling, Submitting, Unseeded
<1>2. IInv /\ FlightInv /\ HoldingInv /\ [Next]_vars => (IInv /\ FlightInv /\ HoldingInv)'
  BY InductiveStep, FlightStep, HoldingStep
<1>3. QED
  BY <1>1, <1>2, PTL DEF Spec

(* The equity curve gets a point only when every fill on record is in the  *)
(* portfolio, whatever earlier launches abandoned and however many fills   *)
(* arrived since (run_end_of_day: reconcile, update, record_equity).       *)
THEOREM EquityIsComplete == Spec => EquityCountsEveryFill
<1> DEFINE Complete == curve' # curve => /\ fill_buffer = <<>> /\ pending = <<>>
                                         /\ \A o \in Orders : holding[o] >= fill_sum[o]
<1>1. ASSUME IInv, HoldingInv, [Next]_vars
      PROVE  Complete
  <2>1. RecordEquity \/ UNCHANGED curve
    <3>1. CASE Recovery
      BY <3>1 DEF Recovery, RecoverOrphan, RecoverOrder, RecoverBook, Seed, ledgerVars
    <3>2. CASE BrokerStep
      BY <3>2 DEF BrokerStep, SubmitIntent, SubmitRefused, PlaceAccepted,
         PlaceRaises, RecordSubmitted, RecordRejected, BookFill, DrainEnds, CloseFilled,
         CloseStale, CloseOrder, StaleEnds, CloseEnds, UpdatePoll, UpdateBook, SettleStart,
         SettleRound, SettleBook, SettleEnds, Unwind, ledgerVars
    <3>3. CASE WorkerThread
      BY <3>3 DEF WorkerThread, Worker, WorkerPoll, WorkerFails, WorkerRecord,
         WorkerAppend, WorkerAdvance, ledgerVars
    <3>4. QED
      BY <1>1, <3>1, <3>2, <3>3 DEF Next, Main, Launch, Exit, Crash, GateOpen, WarmedUp,
         NotTrading, Clock, DeadlinePasses, Interruption, Interrupt, OperatorSwitch,
         VenueMoves, DayTurns, vars, brokerVars, ledgerVars
  <2>2. ASSUME RecordEquity PROVE Complete
    <3>1. pc = "equity"
      BY <2>2 DEF RecordEquity
    <3>2. /\ fill_buffer = <<>> /\ pending = <<>> /\ InFlight = {}
          /\ wpc # "append" /\ ~Unseeded
      BY <1>1, <3>1, FillsOfEmpty DEF IInv, BufferInv, InFlight, WorkerInv, BeforeSettling,
         Unseeded, Recovering
    <3>3. ASSUME NEW o \in Orders PROVE holding[o] >= fill_sum[o]
      <4>1. holding[o] \in Nat /\ fill_sum[o] \in Nat
        BY <1>1 DEF IInv, TypeOK, BrokerTypeOK, LedgerTypeOK
      <4>2. o \in open_orders => portfolio_booked[o] = fill_sum[o]
        BY <1>1, <3>2 DEF IInv, NothingLostInv
      <4>3. QED
        BY <1>1, <3>2, <4>1, <4>2 DEF HoldingInv
    <3>4. QED
      BY <3>2, <3>3
  <2>3. QED
    BY <2>1, <2>2
<1>2. QED
  BY <1>1, HoldingInvariant, PTL DEF Spec, EquityCountsEveryFill

(* When recovery hears from the venue about every open order and the venue *)
(* stands still meanwhile, the portfolio never holds more than the venue   *)
(* filled: the balance of seed_from_venue and the fills booked afterwards  *)
(* never count a share twice.  (Without the hypothesis they may: that is   *)
(* the finding of the run found_double_booking.)                           *)
THEOREM CleanIsNeverOverstated ==
    ASSUME CleanRecovery
    PROVE  Spec => []NeverOverstated
<1>1. Init => CleanInv
  BY DEF Init, BrokerInit, CleanInv, Unseeded, Recovering
<1>2. IInv /\ FlightInv /\ HoldingInv /\ CleanInv /\ [Next]_vars => CleanInv'
  BY InductiveStep, CleanStep
<1>3. IInv /\ HoldingInv /\ CleanInv => NeverOverstated
  <2> SUFFICES ASSUME IInv, HoldingInv, CleanInv, NEW o \in Orders
               PROVE  holding[o] <= filled[o]
    BY DEF NeverOverstated
  <2>1. /\ holding[o] \in Nat /\ portfolio_booked[o] \in Nat /\ fill_sum[o] \in Nat
        /\ filled[o] \in Nat /\ portfolio_booked[o] <= fill_sum[o] /\ fill_sum[o] <= filled[o]
    BY DEF IInv, TypeOK, BrokerTypeOK, LedgerTypeOK, VenueTypeOK, RecordedFirstInv, LedgerInv
  <2>2. CASE Unseeded
    BY <2>1, <2>2 DEF HoldingInv
  <2>3. CASE ~Unseeded
    BY <2>3 DEF CleanInv
  <2>4. QED
    BY <2>2, <2>3
<1>4. QED
  BY <1>1, <1>2, <1>3, HoldingInvariant, PTL DEF Spec
=============================================================================
