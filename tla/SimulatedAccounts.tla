-------------------------- MODULE SimulatedAccounts --------------------------
(***************************************************************************)
(* The simulated broker's two kinds of caller: a backtest session, and     *)
(* calls by hand on its public methods in any order, with several          *)
(* portfolios, refused amounts, times that go backwards and assets that    *)
(* have no price yet.  A call that raises leaves the broker usable, so the *)
(* next one may follow.                                                    *)
(***************************************************************************)
EXTENDS Backtest

CONSTANTS
  HandIds,      \* portfolio IDs; empty: only sessions run
  HandAmounts,  \* amounts of the transfers, in 1/FeeUnit of a tick
  HandOrders,   \* <<asset, quantity>>
  HandPrices,   \* time -> asset -> price: the data a caller's updates see
  MaxCalls      \* bound on the number of calls

ASSUME HandAssumption ==
  /\ HandAmounts \subseteq Int
  /\ \A o \in HandOrders : o[1] \in Assets /\ o[2] \in Int \ {0}
  /\ \A t \in DOMAIN HandPrices :
       /\ t \in Nat /\ HandPrices[t] \in [Assets -> Prices \cup {NaN}]
       \* padded bars: a price once known stays known
       /\ \A u \in DOMAIN HandPrices, a \in Assets :
            t <= u /\ HandPrices[t][a] # NaN => HandPrices[u][a] # NaN
  /\ MaxCalls \in Nat

VARIABLES
  calls,    \* calls made by hand
  funded    \* history: net funds brought into the broker from outside

handVars == <<calls, funded>>

allVars == <<vars, handVars>>

(* A broker without funds and without portfolios.                          *)
HandInit ==
  /\ HandIds # {}
  /\ session = CHOOSE s \in Sessions : TRUE
  /\ phase = "by_hand"
  /\ now = 0
  /\ price = [a \in Assets |-> NaN]
  /\ broker = Broker0(0, 0)
  /\ allocations = {}
  /\ equity_curve = [dt |-> 0, equity |-> 0]
  /\ command = <<>>
  /\ target = [a \in Assets |-> 0]
  /\ calls = 0
  /\ funded = 0

SessionInit == Init /\ calls = 0 /\ funded = InitialCash * FeeUnit

(* A call whose outcome is b; an earlier exception has been handled.       *)
Call(b) ==
  /\ phase = "by_hand"
  /\ calls < MaxCalls
  /\ calls' = calls + 1
  /\ broker' = b
  /\ UNCHANGED <<session, phase, allocations, equity_curve, command, target>>

Handled == [broker EXCEPT !.raised = FALSE]

CreatePortfolio(id) ==
  /\ Call(create_portfolio(Handled, id))
  /\ UNCHANGED <<now, price, funded>>

SubscribeToAccount(amount) ==
  /\ Call(subscribe_funds_to_account(Handled, amount))
  /\ funded' = IF broker'.raised THEN funded ELSE funded + amount
  /\ UNCHANGED <<now, price>>

WithdrawFromAccount(amount) ==
  /\ Call(withdraw_funds_from_account(Handled, amount))
  /\ funded' = IF broker'.raised THEN funded ELSE funded - amount
  /\ UNCHANGED <<now, price>>

SubscribeToPortfolio(id, amount) ==
  /\ Call(subscribe_funds_to_portfolio(Handled, id, amount))
  /\ UNCHANGED <<now, price, funded>>

WithdrawFromPortfolio(id, amount) ==
  /\ Call(withdraw_funds_from_portfolio(Handled, id, amount))
  /\ UNCHANGED <<now, price, funded>>

Submit(id, o) ==
  /\ Call(submit_order(Handled, id, [asset |-> o[1], quantity |-> o[2], created_dt |-> now]))
  /\ UNCHANGED <<now, price, funded>>

Update(t) ==
  /\ Call(update(Handled, t, HandPrices[t], is_open_at_datetime(t)))
  /\ now' = t
  /\ price' = HandPrices[t]
  /\ UNCHANGED funded

HandNext ==
  \/ \E id \in HandIds : CreatePortfolio(id)
  \/ \E amount \in HandAmounts : SubscribeToAccount(amount)
  \/ \E amount \in HandAmounts : WithdrawFromAccount(amount)
  \/ \E id \in HandIds, amount \in HandAmounts : SubscribeToPortfolio(id, amount)
  \/ \E id \in HandIds, amount \in HandAmounts : WithdrawFromPortfolio(id, amount)
  \/ \E id \in HandIds, o \in HandOrders : Submit(id, o)
  \/ \E t \in DOMAIN HandPrices : Update(t)

UseInit == SessionInit \/ HandInit
UseNext == (Next /\ UNCHANGED handVars) \/ HandNext
UseSpec == UseInit /\ [][UseNext]_allVars

---------------------------------------------------------------------------
(* What everything in the broker is worth is what was paid in from outside *)
(* plus the profit of the open positions, as Position reports it, plus     *)
(* what the deleted positions had realised: through transfers between the  *)
(* master account and the portfolios, refused calls, partial sales,        *)
(* reversals from long to short and executions that raise in the middle of *)
(* a drain, no money appears or disappears.                                *)
EquityIsProfit ==
  broker.cash_balance + get_account_total_equity(broker) =
    funded
      + SumFunction([id \in DOMAIN broker.portfolios |->
                       total_open_pnl(broker.portfolios[id].positions)
                         + broker.portfolios[id].closed_pnl])

Expected(b, id, a) ==
  IF id \notin DOMAIN b.portfolios THEN 0
  ELSE held(b.portfolios[id].positions, a)
       + queued(b.open_orders[id], a)

(* An update that does not raise executes every queued order exactly once, *)
(* in the portfolio it was submitted to, or leaves it queued; orders are   *)
(* lost only by an update that raises, and only then because the queues    *)
(* were drained before the first execution.                                *)
OrdersLostOnlyByExceptions ==
  [][\A t \in DOMAIN HandPrices :
       (Update(t) /\ ~broker'.raised) =>
         \A id \in HandIds, a \in Assets : Expected(broker', id, a) = Expected(broker, id, a)]_allVars
=============================================================================
