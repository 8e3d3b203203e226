------------------------------- MODULE Sizing -------------------------------
(***************************************************************************)
(* From a decision to orders: PortfolioConstructionModel.build_orders and  *)
(* the two order sizers, DollarWeightedCashBufferedOrderSizer (long only)  *)
(* and LongShortLeveragedOrderSizer.                                       *)
(*                                                                         *)
(* The weights are integers; what the code computes with floating-point    *)
(* fractions of the equity is computed here over one common denominator,   *)
(* so floor, ceil and the truncation of int() act on the exact quotient.   *)
(***************************************************************************)
EXTENDS Portfolio, Sequences, SequencesExt

CONSTANTS
  BufferUnit,              \* the denominator of the cash buffer
  cash_buffer_percentage,  \* in 1/BufferUnit
  gross_leverage           \* a whole multiple of the equity

ASSUME SizingAssumption ==
  /\ BufferUnit \in Nat \ {0}
  /\ cash_buffer_percentage \in 0..BufferUnit
  /\ gross_leverage \in Nat \ {0}

(* The divisors of the two _normalise_weights.  When one is zero every     *)
(* weight is zero and stays as it is, which dividing by 1 does too.        *)
NonZero(n) == IF n = 0 THEN 1 ELSE n

weight_sum(weights) ==
  NonZero(SumFunction(weights))

gross_exposure(weights) ==
  NonZero(SumFunction([a \in DOMAIN weights |-> Abs(weights[a])]))

(* Mutant: no costs are reserved.                                          *)
estimate_no_costs(target_dollars, current_quantity, price, unit) == 0

(* _estimate_trade_costs: the fee on the trade that would reach the target *)
(* before costs, not on the whole position.                                *)
estimate_trade_costs(target_dollars, current_quantity, price, unit) ==
  LET trade_dollars == target_dollars - current_quantity * price * unit
      whole == Abs(trade_dollars) \div (price * unit)
      trade_quantity == IF trade_dollars >= 0 THEN whole ELSE -whole
  IN calc_total_cost(trade_quantity, trade_dollars)

(* int(): towards zero *)
Truncate(n, d) == IF n >= 0 THEN n \div d ELSE -((-n) \div d)

(* The target quantity of one asset.  Equity is in 1/FeeUnit of a tick,    *)
(* dollar weights in 1/unit of one.                                        *)

(* DollarWeightedCashBufferedOrderSizer floors the quotient.               *)
dollar_weighted(equity, weights, asset, current_quantity, price) ==
  LET unit == FeeUnit * BufferUnit * weight_sum(weights)
      pre == equity * (BufferUnit - cash_buffer_percentage) * weights[asset]
      after == pre * FeeUnit
                 - estimate_trade_costs(pre, current_quantity, price, unit)
  IN after \div (price * unit * FeeUnit)

(* LongShortLeveragedOrderSizer truncates to whole dollars, and then the   *)
(* quotient.                                                               *)
long_short(equity, weights, asset, current_quantity, price) ==
  LET unit == FeeUnit * gross_exposure(weights)
      pre == equity * gross_leverage * weights[asset]
      after == pre * FeeUnit
                 - estimate_trade_costs(pre, current_quantity, price, unit)
  IN Truncate(PriceUnit * Truncate(after, unit * FeeUnit * PriceUnit), price)

---------------------------------------------------------------------------
(* PortfolioConstructionModel *)

(* Zero for everything held or in the universe, overridden by the decision.*)
full_weights(positions, universe, weights) ==
  [a \in DOMAIN positions \cup universe \cup DOMAIN weights |->
     IF a \in DOMAIN weights THEN weights[a] ELSE 0]

(* The sizers raise before any order exists: on a negative weight in the   *)
(* long-only one, on an asset without a price in both.                     *)
sizing_raises(long_only, full, price) ==
  \/ long_only /\ \E a \in DOMAIN full : full[a] < 0
  \/ \E a \in DOMAIN full : price[a] = NaN

target_portfolio(long_only, p, full, price) ==
  LET size(a) ==
        IF long_only
        THEN dollar_weighted(total_equity(p), full, a, held(p.positions, a), price[a])
        ELSE long_short(total_equity(p), full, a, held(p.positions, a), price[a])
  IN [a \in DOMAIN full |-> size(a)]

(* sorted(): an asset comes after the ones whose symbols are smaller.      *)
by_symbol(assets) ==
  [i \in 1..Cardinality(assets) |->
     CHOOSE a \in assets : Cardinality({b \in assets : b < a}) = i - 1]

(* _generate_rebalance_orders: the difference to what is held, in order of *)
(* the asset symbol, without the assets that need no trade.                *)
generate_rebalance_orders(dt, target, positions) ==
  LET diff == [a \in DOMAIN target |-> target[a] - held(positions, a)]
      assets == by_symbol({a \in DOMAIN diff : diff[a] # 0})
  IN [i \in DOMAIN assets |->
        [asset |-> assets[i], quantity |-> diff[assets[i]], created_dt |-> dt]]
=============================================================================
