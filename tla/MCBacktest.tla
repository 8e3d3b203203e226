----------------------------- MODULE MCBacktest -----------------------------
(* Two assets, the second joining the universe on the second day.  The     *)
(* sessions start on a Thursday, a Friday or a Saturday and cross a        *)
(* weekend; Friday (day 4) is the last business day of its month.  By hand *)
(* the second asset has no price on the first day.                         *)
EXTENDS SimulatedAccounts

MCAssetDates == <<0, OpenOf(4)>>

MCDecisions == {<<1>>, <<1, 1>>, <<2, -1>>, [a \in {2} |-> 1]}

Plan(rebalance, start_dt, end_dt, burn_in_dt, long_only) ==
  [rebalance |-> rebalance, weekday |-> 4, start_dt |-> start_dt,
   end_dt |-> end_dt, burn_in_dt |-> burn_in_dt, long_only |-> long_only]

MCSessions ==
  UNION {{Plan("buy_and_hold", OpenOf(4), CloseOf(7), 0, long_only),
          Plan("buy_and_hold", OpenOf(5), CloseOf(7), 0, long_only),
          Plan("buy_and_hold", CloseOf(4), CloseOf(7), 0, long_only),
          Plan("daily", OpenOf(3), CloseOf(7), 0, long_only),
          Plan("daily", 12, 21, 0, long_only),
          Plan("daily", OpenOf(3), CloseOf(7), CloseOf(4), long_only),
          Plan("weekly", OpenOf(3), CloseOf(7), 0, long_only),
          Plan("end_of_month", OpenOf(3), CloseOf(7), 0, long_only)}
           : long_only \in BOOLEAN}

MCLongOnlyDaily == {Plan("daily", OpenOf(3), CloseOf(7), 0, TRUE)}

MCHandAmounts == {-10, 20, 30}

MCHandOrders == {<<1, 1>>, <<1, -2>>, <<2, 1>>}

MCHandPrices ==
  [t \in {OpenOf(0), CloseOf(0), OpenOf(1)} |->
     CASE t = OpenOf(0) -> <<2, NaN>> [] t = CloseOf(0) -> <<3, NaN>> [] OTHER -> <<3, 2>>]
=============================================================================
