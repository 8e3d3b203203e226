----------------------------- MODULE OrderLedger -----------------------------
(***************************************************************************)
(* The durable order ledger, vmtrader/broker/live/ledger.py: one row per   *)
(* order, the fill rows keyed by "order number : cumulative quantity", and *)
(* the equity curve.  Each write commits, so each is one atomic step.      *)
(*                                                                         *)
(* The fill rows of an order are kept as the set of cumulative quantities  *)
(* that key them and the sum of the increments they carry, which is what   *)
(* recovery reads back.  A row has an order number exactly when it has     *)
(* been SUBMITTED, so an open row without one is an INTENT.                *)
(***************************************************************************)
EXTENDS Venue

VARIABLES order_state,   \* state column; "none" while there is no row
          orphan_note,   \* rows closed with recovery's "no order number" note
          fill_keys,     \* cumulative quantities that key the fill rows
          fill_sum,      \* sum of the increments in the fill rows
          curve          \* points on the equity curve

ledgerVars == <<order_state, orphan_note, fill_keys, fill_sum, curve>>

TERMINAL_STATES == {"FILLED", "REJECTED", "STALE"}
States == {"none", "INTENT", "SUBMITTED"} \cup TERMINAL_STATES

LedgerTypeOK ==
    /\ order_state \in [Orders -> States]
    /\ orphan_note \subseteq Orders
    /\ fill_keys \in [Orders -> SUBSET Nat]
    /\ fill_sum \in [Orders -> Nat]
    /\ curve \in Nat

LedgerInit ==
    /\ order_state = [o \in Orders |-> "none"]
    /\ orphan_note = {}
    /\ fill_keys = [o \in Orders |-> {}]
    /\ fill_sum = [o \in Orders |-> 0]
    /\ curve = 0

(* INSERT OR IGNORE: an order id that already has a row is left alone.     *)
record_intent(o) ==
    order_state' = [order_state EXCEPT ![o] = IF @ = "none" THEN "INTENT" ELSE @]

record_submitted(o) ==
    order_state' = [order_state EXCEPT ![o] = "SUBMITTED"]

(* The note is kept only where a later reading of it matters.              *)
record_state(o, s, noted) ==
    /\ order_state' = [order_state EXCEPT ![o] = s]
    /\ orphan_note' = IF noted THEN orphan_note \cup {o} ELSE orphan_note

(* At most one row per cumulative quantity (INSERT OR IGNORE).             *)
record_fill(o, cumulative, quantity) ==
    IF cumulative \in fill_keys[o]
    THEN UNCHANGED <<fill_keys, fill_sum>>
    ELSE /\ fill_keys' = [fill_keys EXCEPT ![o] = @ \cup {cumulative}]
         /\ fill_sum' = [fill_sum EXCEPT ![o] = @ + quantity]

record_equity == curve' = curve + 1

(* Mutants of the two readings: abandoned rows come back, submitted rows   *)
(* are forgotten, and the fills already on record are not looked at.       *)
OpenOrdersWithStale ==
    {o \in Orders : order_state[o] \notin {"FILLED", "REJECTED", "none"}}
OpenOrdersOnlyIntents == {o \in Orders : order_state[o] = "INTENT"}
NothingBooked(o) == 0

(* What recovery must ask the venue about.                                 *)
get_open_orders ==
    {o \in Orders : order_state[o] \notin TERMINAL_STATES \cup {"none"}}

(* reconcile.py _already_booked: the sum over the order's fill rows.       *)
already_booked(o) == fill_sum[o]
=============================================================================
