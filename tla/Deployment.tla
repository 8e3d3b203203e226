----------------------------- MODULE Deployment ------------------------------
(***************************************************************************)
(* A deployment over its whole life: launches, each a fresh process, that  *)
(* share one ledger file and one account at the venue, the orders they     *)
(* clamp, guard and send, the money and the fees, and the promotion check  *)
(* that reads the ledger in the end.                                       *)
(*                                                                         *)
(* LiveSession has the threads of one launch; here a launch is a few large *)
(* steps, between any two of which the process may die and the venue may   *)
(* fill, drop or lapse an order.  Orders are numbered by creation.  There  *)
(* is one price.  The venue is external; it refuses an order that the      *)
(* account does not cover, working orders counted.                         *)
(***************************************************************************)
EXTENDS Integers, Sequences, FiniteSets, FiniteSetsExt, SequencesExt

CONSTANTS
  Deployments,          \* [mode, account] of every launch that may open the ledger
  NoIdentity,
  Symbols,
  MaxQuantity,          \* of what a strategy asks for
  Price,
  FirstCash, FirstHeld, \* the account before the first launch
  Estimates,            \* the cumulative costs a report may estimate
  OldLedgers,           \* [rows, fills, curve, venue] of the ledgers, a new one among them,
                        \* that carry no identity when this engine first opens them
  MaxOrderValue,        \* max_order_value
  MaxOrdersPerSession,  \* max_orders_per_session
  MinDays,              \* min_trading_days
  MaxOrders, MaxCurve   \* bounds on the ledger

ASSUME DeploymentAssumption ==
  /\ Price \in Nat \ {0} /\ MaxQuantity \in Nat
  /\ FirstCash \in Nat /\ FirstHeld \in Nat
  /\ Estimates \subseteq Nat
  /\ NoIdentity \notin Deployments
  /\ \A d \in Deployments : d.mode \in {"paper", "real"}

States == {"INTENT", "SUBMITTED", "FILLED", "REJECTED", "STALE"}
Notes == {"", "orphan", "kill switch", "limit", "venue"}
Magnitude(quantity) == IF quantity < 0 THEN 0 - quantity ELSE quantity

OldRows == [symbol : Symbols, quantity : Int \ {0}, state : States, numbered : BOOLEAN,
            note : Notes, writer : {NoIdentity}]
FillRows == [quantity : Int, fees : Int, total : Int]

(* Adds up a column of the fill rows of an order.                          *)
summed(fill_rows, column) == SumFunction([i \in DOMAIN fill_rows |-> fill_rows[i][column]])

(* An order that an earlier release wrote, with its fill rows and what the *)
(* venue has of it: the release booked as this one does, and the order is  *)
(* of an earlier day.                                                      *)
OldOrder(r, f, v) ==
  /\ r \in OldRows /\ f \in Seq(FillRows)
  /\ v \in [filled : Nat, working : {FALSE}, today : {FALSE}]
  /\ r.numbered <=> r.state \in {"SUBMITTED", "FILLED", "STALE"}
  /\ ~r.numbered => f = <<>>
  /\ 0 <= summed(f, "quantity") /\ summed(f, "quantity") <= v.filled
  /\ v.filled <= Magnitude(r.quantity)
  /\ r.state = "FILLED" => summed(f, "quantity") = v.filled
  /\ f # <<>> => summed(f, "fees") = Last(f).total

ASSUME OldLedgersAssumption ==
  \A old \in OldLedgers :
    /\ old.curve \in Seq({"unknown"})
    /\ old.rows \in Seq(OldRows)
    /\ old.fills \in Seq(Seq(FillRows)) /\ Len(old.fills) = Len(old.rows)
    /\ old.venue \in Seq([filled : Nat, working : {FALSE}, today : {FALSE}])
    /\ Len(old.venue) = Len(old.rows)
    /\ \A o \in 1..Len(old.rows) : OldOrder(old.rows[o], old.fills[o], old.venue[o])

VARIABLES
  identity,  \* the meta table
  rows,      \* the orders table, oldest first
  fills,     \* the fill rows of each order
  curve,     \* the modes of the equity rows
  venue,     \* external: what the venue has of each order
  held,      \* external: the account's holdings
  cash,      \* external: the account's projected cash
  kill,      \* the kill switch file
  by_hand,   \* history: somebody traded the account by hand
  raced,     \* history: a balance was read with fills no report had shown, or with
             \* a sale still working
  session,   \* the process
  marks      \* its memory: what is booked of each order it has open

ledgerVars == <<identity, rows, fills, curve>>
accountVars == <<venue, held, cash>>
vars == <<ledgerVars, accountVars, kill, by_hand, raced, session, marks>>

Orders == 1..Len(rows)
TERMINAL_STATES == {"FILLED", "REJECTED", "STALE"}

(* A LiveBroker: its portfolio, its open orders, those of its burst, and   *)
(* the guard's count.                                                      *)
NewSession(who, aim) ==
  [phase |-> "recover", who |-> who, aim |-> aim, orphans |-> FALSE,
   held |-> [s \in Symbols |-> 0], cash |-> 0, tracked |-> {},
   sent |-> {}, submitted |-> 0, quiet |-> FALSE]
NoSession == [phase |-> "none"]
NoMarks == [o \in {} |-> 0]
Ended == session' = NoSession /\ marks' = NoMarks

(* While it settles, nothing but the open orders is read any more.         *)
Settling(tracked) == [phase |-> "settle", tracked |-> tracked]

(* A ledger nobody has stamped: a new one, or one older than identities,   *)
(* with its orders, fills and equity rows in place.                        *)
Init ==
  /\ identity = NoIdentity
  /\ \E old \in OldLedgers :
       rows = old.rows /\ fills = old.fills /\ venue = old.venue /\ curve = old.curve
  /\ held = [s \in Symbols |-> FirstHeld]
  /\ cash = FirstCash
  /\ kill = FALSE /\ by_hand = FALSE /\ raced = FALSE
  /\ session = NoSession /\ marks = NoMarks

---------------------------------------------------------------------------
(* The venue: external.                                                    *)

(* A promoted deployment is over.                                          *)
Alive == session.phase # "promoted"

Working(o) == venue[o].working
Rest(o) == Magnitude(rows[o].quantity) - venue[o].filled

Fill(o) ==
  /\ Alive /\ Working(o)
  /\ LET last == Rest(o) = 1
         side == IF rows[o].quantity > 0 THEN 1 ELSE -1
     IN /\ venue' = [venue EXCEPT ![o].filled = @ + 1, ![o].working = ~last]
        /\ held' = [held EXCEPT ![rows[o].symbol] = @ + side]
        /\ cash' = cash - side * Price
  /\ UNCHANGED <<ledgerVars, kill, by_hand, raced, session, marks>>

(* The venue refuses, or cancels, what is left.                            *)
Drop(o) ==
  /\ Alive /\ Working(o)
  /\ venue' = [venue EXCEPT ![o].working = FALSE]
  /\ UNCHANGED <<ledgerVars, held, cash, kill, by_hand, raced, session, marks>>

(* Day orders lapse and enquiries cover the new day only.                  *)
NewDay ==
  /\ Alive /\ \E o \in Orders : venue[o].today
  /\ venue' = [o \in Orders |-> [venue[o] EXCEPT !.today = FALSE, !.working = FALSE]]
  /\ UNCHANGED <<ledgerVars, held, cash, kill, by_hand, raced, session, marks>>

(* Whether the account covers an order, working orders counted.            *)
Covered(symbol, quantity) ==
  LET working == { o \in Orders : Working(o) }
      selling == { o \in working : rows[o].quantity < 0 /\ rows[o].symbol = symbol }
      buying  == { o \in working : rows[o].quantity > 0 }
      left(orders) == SumFunction([o \in orders |-> Rest(o)])
  IN IF quantity < 0 THEN left(selling) - quantity <= held[symbol]
                     ELSE Price * (left(buying) + quantity) <= cash

(* Somebody sells a share by hand.                                         *)
TradeByHand(s) ==
  /\ Alive /\ ~by_hand /\ Covered(s, -1)
  /\ by_hand' = TRUE
  /\ held' = [held EXCEPT ![s] = @ - 1]
  /\ cash' = cash + Price
  /\ UNCHANGED <<ledgerVars, venue, kill, raced, session, marks>>

(* The operator makes the kill switch file, or removes it.                 *)
ThrowSwitch ==
  /\ Alive
  /\ kill' = ~kill
  /\ UNCHANGED <<ledgerVars, accountVars, by_hand, raced, session, marks>>

(* parse_order_report: no row means nothing filled and not done; a row has *)
(* the cumulative quantity and an estimate of the cumulative costs.        *)
NoRow == [filled |-> 0, fees |-> 0, is_done |-> FALSE]
Reports(o) ==
  {NoRow} \cup
  (IF venue[o].today
   THEN { [filled |-> venue[o].filled, fees |-> f, is_done |-> ~venue[o].working] :
            f \in IF venue[o].filled > 0 THEN Estimates ELSE {0} }
   ELSE {})

---------------------------------------------------------------------------
(* The ledger.                                                             *)

(* Mutant: the last opener owns the ledger.                                *)
stamp_identity_over(who) == identity' = who

(* The first opener writes the identity, a later one must match it.        *)
stamp_identity(who) ==
  /\ identity \in {NoIdentity, who}
  /\ identity' = who

(* _already_booked and _already_booked_fees                                *)
booked(o) == summed(fills[o], "quantity")
charged(o) == summed(fills[o], "fees")

(* Mutant: recovery does not look at the fills on record.                  *)
recovered_marks_none(orders) == [o \in orders |-> [quantity |-> 0, fees |-> 0]]

(* Mutant: recovery seeds the quantity and forgets the costs.              *)
recovered_marks_free(orders) == [o \in orders |-> [quantity |-> booked(o), fees |-> 0]]

(* The watermarks of a recovered order, seeded from its fill rows, and     *)
(* those of an order just accepted.                                        *)
recovered_marks(orders) == [o \in orders |-> [quantity |-> booked(o), fees |-> charged(o)]]
FirstMark == [quantity |-> 0, fees |-> 0]

(* The row record_fill adds: what the report has beyond the watermarks in  *)
(* memory, of quantity and of costs.  'total' is history: what the report  *)
(* estimated.                                                              *)
fill_row(mark, report) ==
  [quantity |-> report.filled - mark.quantity, fees |-> report.fees - mark.fees,
   total |-> report.fees]

Position(o, quantity) == IF rows[o].quantity > 0 THEN quantity ELSE 0 - quantity

(* Polling a set of orders, one report each, from the watermarks 'mark',   *)
(* and booking what is new: the fill rows, the watermarks, the portfolio's *)
(* change and the rows that are done.                                      *)
booking(mark, report) == { o \in DOMAIN report : report[o].filled > mark[o].quantity }
polled_fills(mark, report) ==
  [o \in Orders |-> IF o \in booking(mark, report)
                    THEN Append(fills[o], fill_row(mark[o], report[o])) ELSE fills[o]]
polled_marks(mark, report, orders) ==
  [o \in orders |-> IF o \in booking(mark, report)
                    THEN [quantity |-> report[o].filled, fees |-> report[o].fees] ELSE mark[o]]
polled_change(mark, report) ==
  [s \in Symbols |->
     SumFunction([o \in { p \in booking(mark, report) : rows[p].symbol = s } |->
                    Position(o, report[o].filled - mark[o].quantity)])]
polled_cost(mark, report) ==
  SumFunction([o \in booking(mark, report) |->
                 Position(o, report[o].filled - mark[o].quantity) * Price
                   + fill_row(mark[o], report[o]).fees])

(* Mutant: an enquiry without a row ends the order.                        *)
polled_done_empty(report) == { o \in DOMAIN report : report[o].is_done \/ report[o] = NoRow }

polled_done(report) == { o \in DOMAIN report : report[o].is_done }

close_rows(closing, state, note) ==
  rows' = [o \in Orders |-> IF o \in closing
                            THEN [rows[o] EXCEPT !.state = state, !.note = note] ELSE rows[o]]

ReportsOf(orders) == { r \in [orders -> UNION { Reports(o) : o \in orders }] :
                         \A o \in orders : r[o] \in Reports(o) }

---------------------------------------------------------------------------
(* A launch.                                                               *)

(* LiveBroker.__init__: a ledger of another deployment is not opened.      *)
Launch(who, aim) ==
  /\ session.phase = "none"
  /\ aim = "rebalance" => Len(rows) < MaxOrders
  /\ aim = "end_of_day" => Len(curve) < MaxCurve
  /\ stamp_identity(who)
  /\ session' = NewSession(who, aim)
  /\ UNCHANGED <<rows, fills, curve, accountVars, kill, by_hand, raced, marks>>

get_open_orders == { o \in Orders : rows[o].state \notin TERMINAL_STATES }

(* _recover_open_orders: intents without a number are closed and reported, *)
(* the others tracked again, their watermarks seeded from the ledger, and  *)
(* polled.  The portfolio is still empty, so it ends up with what was      *)
(* recovered.                                                              *)
Recover ==
  /\ session.phase = "recover"
  /\ LET open    == get_open_orders
         orphans == { o \in open : ~rows[o].numbered }
     IN \E report \in ReportsOf(open \ orphans) :
          LET done  == polled_done(report)
              seeds == recovered_marks(open \ orphans)
              left  == (open \ orphans) \ done
          IN
          /\ rows' = [o \in Orders |->
                        IF o \in orphans THEN [rows[o] EXCEPT !.state = "REJECTED", !.note = "orphan"]
                        ELSE IF o \in done THEN [rows[o] EXCEPT !.state = "FILLED"] ELSE rows[o]]
          /\ fills' = polled_fills(seeds, report)
          /\ marks' = polled_marks(seeds, report, left)
          /\ session' = [session EXCEPT !.phase = "compare", !.orphans = orphans # {},
                           !.held = polled_change(seeds, report), !.tracked = left]
  /\ UNCHANGED <<identity, curve, accountVars, kill, by_hand, raced>>

(* The balance has a fill of the order that no report has shown.           *)
Unseen(o) == venue[o].filled > booked(o)

(* The rest of reconcile: what was recovered against the balance, which    *)
(* then becomes the portfolio (seed_from_venue).  A rebalance stops here   *)
(* when it halts, when the switch is thrown and on a day, or at an hour,   *)
(* the exchange is closed.                                                 *)
Overstated == \E s \in Symbols : session.held[s] > held[s]

Compare ==
  /\ session.phase = "compare"
  /\ \E is_open \in BOOLEAN :
       session' =
         IF /\ session.aim = "rebalance"
            /\ Overstated \/ session.orphans \/ kill \/ ~is_open
         THEN NoSession
         ELSE [session EXCEPT
                !.phase = "update", !.held = held, !.cash = cash, !.orphans = FALSE,
                !.quiet = \A o \in Orders : ~Working(o) /\ (o \in session.tracked => ~Unseen(o))]
  /\ marks' = IF session' = NoSession THEN NoMarks ELSE marks
  /\ raced' = (raced \/ \E o \in Orders : Unseen(o) \/ (Working(o) /\ rows[o].quantity < 0))
  /\ UNCHANGED <<ledgerVars, accountVars, kill, by_hand>>

(* One round over the tracked orders, as update and settle make it.        *)
Poll(report) ==
  /\ fills' = polled_fills(marks, report)
  /\ close_rows(polled_done(report), "FILLED", "")

(* update(force=True), booked into the portfolio; the after-close launch   *)
(* then records the equity and ends.                                       *)
Update ==
  /\ session.phase = "update"
  /\ \E report \in ReportsOf(session.tracked) :
       /\ Poll(report)
       /\ \/ /\ session.aim = "rebalance"
             /\ session' = [session EXCEPT
                  !.phase = "burst", !.tracked = @ \ polled_done(report),
                  !.held = [s \in Symbols |-> @[s] + polled_change(marks, report)[s]],
                  !.cash = @ - polled_cost(marks, report)]
             /\ marks' = polled_marks(marks, report, session.tracked \ polled_done(report))
             /\ UNCHANGED curve
          \/ /\ session.aim = "end_of_day"
             /\ Ended
             /\ curve' = Append(curve, session.who.mode)
  /\ UNCHANGED <<identity, accountVars, kill, by_hand, raced>>

(* Mutant: a sale is not capped at what is held.                           *)
clamp_quantity_short(symbol, quantity) ==
  IF quantity < 0 THEN quantity
  ELSE LET affordable == session.cash \div Price
       IN IF affordable < quantity THEN affordable ELSE quantity

(* _clamp_quantity: a sale to what is held, a purchase to the cash.  Cash  *)
(* that earlier orders of the burst will use is still there.               *)
clamp_quantity(symbol, quantity) ==
  IF quantity < 0
  THEN IF session.held[symbol] <= 0 THEN 0
       ELSE IF 0 - quantity > session.held[symbol] THEN 0 - session.held[symbol] ELSE quantity
  ELSE LET affordable == session.cash \div Price
       IN IF affordable <= 0 THEN 0 ELSE IF affordable < quantity THEN affordable ELSE quantity

NewRow(symbol, quantity, state, note) ==
  [symbol |-> symbol, quantity |-> quantity, state |-> state, numbered |-> FALSE,
   note |-> note, writer |-> session.who]

AddRow(symbol, quantity, state, note) ==
  /\ rows' = Append(rows, NewRow(symbol, quantity, state, note))
  /\ fills' = Append(fills, <<>>)
  /\ venue' = Append(venue, [filled |-> 0, working |-> FALSE, today |-> FALSE])

(* submit_order up to the venue call: clamped, checked, and recorded as an *)
(* intent, or as refused.  The kill switch raises through the burst and    *)
(* through run_rebalance, so that nothing is settled either.               *)
Submit(symbol, asked) ==
  /\ session.phase = "burst" /\ Len(rows) < MaxOrders
  /\ \A o \in session.sent : rows[o].symbol # symbol
  /\ LET quantity == clamp_quantity(symbol, asked)
         value == Magnitude(quantity) * Price
         limit == value > MaxOrderValue \/ session.submitted >= MaxOrdersPerSession
     IN /\ quantity # 0
        /\ \/ /\ kill
              /\ AddRow(symbol, quantity, "REJECTED", "kill switch")
              /\ Ended
           \/ /\ ~kill /\ limit
              /\ AddRow(symbol, quantity, "REJECTED", "limit")
              /\ session' = [session EXCEPT !.sent = @ \cup {Len(rows) + 1}]
              /\ UNCHANGED marks
           \/ /\ ~kill /\ ~limit
              /\ AddRow(symbol, quantity, "INTENT", "")
              /\ session' = [session EXCEPT !.phase = "calling", !.sent = @ \cup {Len(rows) + 1}]
              /\ UNCHANGED marks
  /\ UNCHANGED <<identity, curve, held, cash, kill, by_hand, raced>>

Called == Len(rows)
Taken == [filled |-> 0, working |-> TRUE, today |-> TRUE]
CalledIsCovered == Covered(rows[Called].symbol, rows[Called].quantity)

(* place_market_order answers with a number.                               *)
Accepted ==
  /\ session.phase = "calling" /\ CalledIsCovered
  /\ venue' = [venue EXCEPT ![Called] = Taken]
  /\ rows' = [rows EXCEPT ![Called].state = "SUBMITTED", ![Called].numbered = TRUE]
  /\ session' = [session EXCEPT !.phase = "burst", !.tracked = @ \cup {Called},
                                 !.submitted = @ + 1]
  /\ marks' = [o \in session.tracked \cup {Called} |->
                 IF o = Called THEN FirstMark ELSE marks[o]]
  /\ UNCHANGED <<identity, fills, curve, held, cash, kill, by_hand, raced>>

(* It raises: the venue refused the order, or took it and its answer was   *)
(* lost.  The row cannot tell.                                             *)
Raised ==
  /\ session.phase = "calling"
  /\ \/ CalledIsCovered /\ venue' = [venue EXCEPT ![Called] = Taken]
     \/ UNCHANGED venue
  /\ rows' = [rows EXCEPT ![Called].state = "REJECTED", ![Called].note = "venue"]
  /\ session' = [session EXCEPT !.phase = "burst"]
  /\ UNCHANGED <<identity, fills, curve, held, cash, kill, by_hand, raced, marks>>

EndBurst ==
  /\ session.phase = "burst"
  /\ session' = Settling(session.tracked)
  /\ UNCHANGED <<ledgerVars, accountVars, kill, by_hand, raced, marks>>

SettleRound ==
  /\ session.phase = "settle" /\ ~kill /\ session.tracked # {}
  /\ \E report \in ReportsOf(session.tracked) :
       /\ Poll(report)
       /\ session' = Settling(session.tracked \ polled_done(report))
       /\ marks' = polled_marks(marks, report, session.tracked \ polled_done(report))
  /\ UNCHANGED <<identity, curve, accountVars, kill, by_hand, raced>>

(* The deadline, or nothing left, closes what is still open as STALE; the  *)
(* kill switch, seen before the deadline, leaves it as it is.              *)
SettleEnd ==
  /\ session.phase = "settle"
  /\ \/ close_rows(session.tracked, "STALE", "")
     \/ kill /\ UNCHANGED rows
  /\ Ended
  /\ UNCHANGED <<identity, fills, curve, accountVars, kill, by_hand, raced>>

(* The process dies, with its order on the way to the venue or not.        *)
Crash ==
  /\ session.phase \notin {"none", "promoted"}
  /\ \/ UNCHANGED venue
     \/ /\ session.phase = "calling" /\ CalledIsCovered
        /\ venue' = [venue EXCEPT ![Called] = Taken]
  /\ Ended
  /\ UNCHANGED <<ledgerVars, held, cash, kill, by_hand, raced>>

---------------------------------------------------------------------------
(* promotion_check.py                                                      *)

(* Mutant: the identity alone decides.                                     *)
check_ledger_is_paper_identity == identity # NoIdentity /\ identity.mode = "paper"

check_ledger_is_paper ==
  /\ identity # NoIdentity /\ identity.mode = "paper"
  /\ \A i \in DOMAIN curve : curve[i] = "paper"

check_days_run == Len(curve) >= MinDays
check_orders_placed == \E o \in Orders : rows[o].numbered
check_fills_booked == \E o \in Orders : fills[o] # <<>>
check_no_orphan_intents == \A o \in Orders : rows[o].numbered \/ rows[o].state # "INTENT"
check_stale_ratio ==
  LET total == Cardinality({ o \in Orders : rows[o].numbered })
      stale == Cardinality({ o \in Orders : rows[o].state = "STALE" })
  IN total > 0 /\ 5 * stale <= total
check_no_duplicate_fills ==
  \A o \in Orders : \A i, j \in DOMAIN fills[o] :
    summed(SubSeq(fills[o], 1, i), "quantity")
      = summed(SubSeq(fills[o], 1, j), "quantity") => i = j
check_kill_switch_exercised ==
  \E o \in Orders : rows[o].state = "REJECTED" /\ rows[o].note = "kill switch"

check_ledger ==
  /\ check_ledger_is_paper /\ check_days_run /\ check_orders_placed
  /\ check_fills_booked /\ check_no_orphan_intents /\ check_stale_ratio
  /\ check_no_duplicate_fills /\ check_kill_switch_exercised

(* Every automatic criterion is met between launches, and the operator     *)
(* moves on to a real account.                                             *)
Promote ==
  /\ session.phase = "none"
  /\ check_ledger
  /\ session' = [phase |-> "promoted"]
  /\ UNCHANGED <<ledgerVars, accountVars, kill, by_hand, raced, marks>>

---------------------------------------------------------------------------
Asked == { q \in (0 - MaxQuantity)..MaxQuantity : q # 0 }

Next ==
  \/ \E who \in Deployments, aim \in {"rebalance", "end_of_day"} : Launch(who, aim)
  \/ Recover \/ Compare \/ Update
  \/ \E s \in Symbols, q \in Asked : Submit(s, q)
  \/ Accepted \/ Raised \/ EndBurst \/ SettleRound \/ SettleEnd
  \/ Crash
  \/ Promote
  \/ \E o \in Orders : Fill(o) \/ Drop(o)
  \/ NewDay
  \/ \E s \in Symbols : TradeByHand(s)
  \/ ThrowSwitch

Spec == Init /\ [][Next]_vars

---------------------------------------------------------------------------
(* Whichever deployments try to open the ledger, in whatever order, every  *)
(* order and every equity row in it is either older than identities, for   *)
(* an unstamped ledger is taken over with the rows it has, or was written  *)
(* by the deployment whose identity it carries (stamp_identity).           *)
OneDeploymentPerLedger ==
  /\ \A o \in Orders : rows[o].writer \in {NoIdentity, identity}
  /\ \A i \in DOMAIN curve : curve[i] = "unknown" \/ curve[i] = identity.mode

(* A promoted ledger has no equity row of a real-money launch or of an     *)
(* unknown kind, and no order that a real-money launch of this engine      *)
(* wrote.  Orders older than identities it may have: the check reads the   *)
(* modes of the equity rows only (_check_ledger_is_paper).                 *)
PromotedIsPaper ==
  session.phase = "promoted" =>
    /\ \A o \in Orders : rows[o].writer # NoIdentity => rows[o].writer.mode = "paper"
    /\ \A i \in DOMAIN curve : curve[i] = "paper"

(* The cost rows of an order add up to the estimate of the report that was *)
(* last booked, over launches, crashes and estimates revised downwards:    *)
(* nothing is charged twice, because the watermark in memory and its seed  *)
(* after a restart are what the rows add up to (_poll_once,                *)
(* _already_booked_fees).                                                  *)
FeesTelescope ==
  \A o \in Orders : fills[o] # <<>> => charged(o) = Last(fills[o]).total

(* An order recorded as FILLED has nothing left at the venue, and every    *)
(* share of it is on record, even when the venue dropped the rest          *)
(* (_poll_once's is_done, _close_order).                                   *)
FilledIsFinal ==
  \A o \in Orders : rows[o].state = "FILLED" => ~Working(o) /\ booked(o) = venue[o].filled

(* In a launch that finds nothing working at the venue, and no fill in the *)
(* balance that the reports of its open orders have not shown, the account *)
(* covers every sale, and every purchase until the venue has taken one of  *)
(* the same burst: sales, refused and failed orders in between change      *)
(* nothing.  A trade by hand is excepted (_clamp_quantity,                 *)
(* seed_from_venue).                                                       *)
ClampedIsCovered ==
  (session.phase = "calling" /\ session.quiet /\ ~by_hand /\ ~CalledIsCovered) =>
    /\ rows[Called].quantity > 0
    /\ \E o \in session.sent \ {Called} :
         rows[o].quantity > 0 /\ (Working(o) \/ venue[o].filled > 0)

(* Reconciliation finds the engine holding more than the venue only when   *)
(* somebody traded by hand, or a launch once read a balance that ran ahead *)
(* of the reports or that a working sale was still to change: a crash      *)
(* alone never stops a deployment (reconcile).                             *)
HaltIsExplained ==
  (session.phase = "compare" /\ Overstated) => by_hand \/ raced

(* "Require no order whose fate is unknown ... Promoting with one          *)
(* outstanding means promoting without knowing the position"               *)
(* (src/scripts/promotion_check.py:227).                                   *)
PromotedFateIsKnown ==
  session.phase = "promoted" =>
    \A o \in Orders : ~rows[o].numbered => venue[o].filled = 0 /\ ~Working(o)
==============================================================================
