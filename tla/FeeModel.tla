------------------------------ MODULE FeeModel ------------------------------
(***************************************************************************)
(* The percentage fee models: PercentFeeModel, which charges commission    *)
(* and tax on both sides, KoreaStockFeeModel, which taxes sales only, and  *)
(* ZeroFeeModel (both rates zero).  Rates are integers in units of         *)
(* 1/FeeUnit, so a fee on a consideration counted in 1/k of a tick (see    *)
(* Portfolio) is an exact integer in 1/(k * FeeUnit) of one.               *)
(***************************************************************************)
EXTENDS Integers

CONSTANTS
  FeeUnit,         \* the denominator of the rates
  commission_pct,  \* commission_pct / FeeUnit of the consideration
  tax_pct,         \* tax_pct / FeeUnit of the consideration
  TaxOnSalesOnly   \* TRUE: KoreaStockFeeModel, FALSE: PercentFeeModel

ASSUME FeeAssumption ==
  /\ FeeUnit \in Nat \ {0}
  /\ commission_pct \in 0..FeeUnit
  /\ tax_pct \in 0..FeeUnit
  /\ TaxOnSalesOnly \in BOOLEAN

Abs(x) == IF x < 0 THEN -x ELSE x

(* _calc_commission: a share of the consideration, whatever its sign.      *)
calc_commission(consideration) == commission_pct * Abs(consideration)

(* _calc_tax: the sign of the quantity decides whether this is a sale.     *)
calc_tax(quantity, consideration) ==
  IF TaxOnSalesOnly /\ quantity >= 0 THEN 0 ELSE tax_pct * Abs(consideration)

calc_total_cost(quantity, consideration) ==
  calc_commission(consideration) + calc_tax(quantity, consideration)
=============================================================================
