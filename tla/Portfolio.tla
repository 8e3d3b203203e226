----------------------------- MODULE Portfolio -----------------------------
(***************************************************************************)
(* Portfolio, PositionHandler, Position and Transaction: the accounting    *)
(* both trading planes book their fills with.                              *)
(*                                                                         *)
(* Prices are integers, in ticks of 1/PriceUnit of the currency; cash,     *)
(* commissions and profits are integers in 1/FeeUnit of a tick.  An        *)
(* average price is kept as the total it is the average of (avg_bought *   *)
(* buy_quantity), which the code computes in floating point and this       *)
(* module exactly.  The event history and the log are left out.            *)
(* 'closed_pnl' is a history field: what the positions that *)
(* were deleted had realised, which the code forgets with the position.    *)
(***************************************************************************)
EXTENDS FeeModel, FiniteSets, FiniteSetsExt, Functions

CONSTANTS
  PriceUnit,  \* the ticks of the currency: prices have fractions
  NaN         \* the price of an asset before its first bar

ASSUME PriceAssumption == PriceUnit \in Nat \ {0}

Portfolio0 == [cash |-> 0, positions |-> <<>>, current_dt |-> 0, closed_pnl |-> 0]

---------------------------------------------------------------------------
(* Position *)

open_from_transaction(txn) ==
  IF txn.quantity > 0
  THEN [current_price |-> txn.price, current_dt |-> txn.dt,
        buy_quantity |-> txn.quantity, sell_quantity |-> 0,
        total_bought |-> txn.price * txn.quantity, total_sold |-> 0,
        buy_commission |-> txn.commission, sell_commission |-> 0]
  ELSE [current_price |-> txn.price, current_dt |-> txn.dt,
        buy_quantity |-> 0, sell_quantity |-> -txn.quantity,
        total_bought |-> 0, total_sold |-> -(txn.price * txn.quantity),
        buy_commission |-> 0, sell_commission |-> txn.commission]

net_quantity(pos) == pos.buy_quantity - pos.sell_quantity

market_value(pos) == pos.current_price * net_quantity(pos) * FeeUnit

net_incl_commission(pos) ==
  (pos.total_sold - pos.total_bought) * FeeUnit
    - (pos.buy_commission + pos.sell_commission)

(* The quantity the averages of the position's side are taken over.  The   *)
(* two profits below are counted in 1/side_quantity, which makes the       *)
(* divisions of the code exact.                                            *)
side_quantity(pos) ==
  IF net_quantity(pos) > 0 THEN pos.buy_quantity ELSE pos.sell_quantity

realised_pnl(pos) ==
  LET b == pos.buy_quantity
      s == pos.sell_quantity
      gap == pos.total_sold * b - pos.total_bought * s  \* (avg_sold - avg_bought) * b * s
  IN IF net_quantity(pos) > 0
     THEN IF s = 0 THEN 0
          ELSE gap * FeeUnit - s * pos.buy_commission - b * pos.sell_commission
     ELSE IF b = 0 THEN 0
          ELSE gap * FeeUnit - b * pos.sell_commission - s * pos.buy_commission

(* avg_price * side_quantity *)
avg_price_total(pos) ==
  IF net_quantity(pos) > 0
  THEN pos.total_bought * FeeUnit + pos.buy_commission
  ELSE pos.total_sold * FeeUnit - pos.sell_commission

unrealised_pnl(pos) ==
  (pos.current_price * side_quantity(pos) * FeeUnit - avg_price_total(pos))
    * net_quantity(pos)

total_pnl(pos) == (realised_pnl(pos) + unrealised_pnl(pos)) \div side_quantity(pos)

(* transact: the leg of the transaction's side grows, and the price and    *)
(* the time of the position become the transaction's.                      *)
transact(pos, txn) ==
  IF txn.quantity = 0 THEN pos
  ELSE IF txn.quantity > 0
  THEN [pos EXCEPT !.total_bought = @ + txn.quantity * txn.price,
                   !.buy_quantity = @ + txn.quantity,
                   !.buy_commission = @ + txn.commission,
                   !.current_price = txn.price, !.current_dt = txn.dt]
  ELSE [pos EXCEPT !.total_sold = @ - txn.quantity * txn.price,
                   !.sell_quantity = @ - txn.quantity,
                   !.sell_commission = @ + txn.commission,
                   !.current_price = txn.price, !.current_dt = txn.dt]

---------------------------------------------------------------------------
(* PositionHandler *)

held(positions, asset) ==
  IF asset \in DOMAIN positions THEN net_quantity(positions[asset]) ELSE 0

position_after(positions, txn) ==
  IF txn.asset \in DOMAIN positions
  THEN transact(positions[txn.asset], txn)
  ELSE open_from_transaction(txn)

(* A position whose quantity comes back to zero is deleted.                *)
transact_position(positions, txn) ==
  LET pos == position_after(positions, txn)
      keep == IF net_quantity(pos) = 0
              THEN DOMAIN positions \ {txn.asset}
              ELSE DOMAIN positions \cup {txn.asset}
  IN [a \in keep |-> IF a = txn.asset THEN pos ELSE positions[a]]

total_market_value(positions) ==
  SumFunction([a \in DOMAIN positions |-> market_value(positions[a])])

total_open_pnl(positions) ==
  SumFunction([a \in DOMAIN positions |-> total_pnl(positions[a])])

---------------------------------------------------------------------------
(* Portfolio *)

total_equity(p) == total_market_value(p.positions) + p.cash

cost_with_commission(txn) == txn.quantity * txn.price * FeeUnit + txn.commission

(* Every booking refuses a time before the portfolio's own, and marking     *)
(* also one before the position's.                                         *)
too_early(p, dt) == dt < p.current_dt

mark_too_early(p, asset, dt) ==
  too_early(p, dt) \/ dt < p.positions[asset].current_dt

subscribe_funds(p, dt, amount) ==
  [p EXCEPT !.cash = @ + amount, !.current_dt = dt]

(* withdraw_funds: the broker has checked the amount and the time.         *)
withdraw_funds(p, dt, amount) ==
  [p EXCEPT !.cash = @ - amount, !.current_dt = dt]

(* Mutant: the commission is booked in the position and not paid.          *)
transact_asset_free(p, txn) ==
  LET pos == position_after(p.positions, txn)
  IN [p EXCEPT !.positions = transact_position(@, txn),
               !.cash = @ - txn.quantity * txn.price * FeeUnit,
               !.current_dt = txn.dt,
               !.closed_pnl = IF net_quantity(pos) = 0
                              THEN @ + net_incl_commission(pos) ELSE @]

(* A cost above the cash is only warned about: the transaction proceeds    *)
(* with a negative balance.                                                *)
transact_asset(p, txn) ==
  LET pos == position_after(p.positions, txn)
  IN [p EXCEPT !.positions = transact_position(@, txn),
               !.cash = @ - cost_with_commission(txn),
               !.current_dt = txn.dt,
               !.closed_pnl = IF net_quantity(pos) = 0
                              THEN @ + net_incl_commission(pos) ELSE @]

(* update_market_value_of_asset: marks a held position to a price.         *)
update_market_value_of_asset(p, asset, price, dt) ==
  LET marked == [p.positions[asset] EXCEPT !.current_price = price, !.current_dt = dt]
  IN [p EXCEPT !.positions[asset] = marked]
=============================================================================
