--------------------------- MODULE Backtest_proofs ---------------------------
(***************************************************************************)
(* The backtest and the simulated broker, for any sessions, dates, prices, *)
(* decisions, assets, portfolios and calls by hand.                        *)
(*                                                                         *)
(* First the schedule: an event loop over the engine's days that looks     *)
(* each timestamp up in a schedule computed by other date arithmetic       *)
(* misses no rebalance.  Then the money, from the bottom up: a position, a *)
(* portfolio, marking, executing, draining, updating, rebalancing and      *)
(* transferring keep the books telling what was paid in.  Then the orders: *)
(* a session trades at openings, and its holdings and queues add up to its *)
(* target.  Last what a session may spend, why it may fail, and what is    *)
(* left of an asset that a decision does not name.                         *)
(***************************************************************************)
EXTENDS SimulatedAccounts, DataLemmas, SequenceTheorems, TLAPS

(* The rebalances so far are those of the events so far.                   *)
ScheduleInv ==
  /\ phase \in {"running", "done", "failed", "by_hand"}
  /\ now \in Int
  /\ phase # "by_hand" => session \in Sessions
  /\ phase \in {"running", "done"} =>
       allocations = {t \in sim_events(session) : t <= now /\ is_rebalance_event(t)}
  /\ phase = "done" => \A t \in sim_events(session) : t <= now

---------------------------------------------------------------------------
(* A timestamp is a day and a slot.                                        *)
LEMMA DayAndSlot ==
  ASSUME NEW t \in Nat
  PROVE  /\ Day(t) \in Nat /\ Slot(t) \in 0..2 /\ t = 3 * Day(t) + Slot(t)
  BY DEF Day, Slot

(* Of any three days in a row one is a business day.                       *)
LEMMA BusinessDayNear ==
  ASSUME NEW d \in Nat
  PROVE  \E e \in d..(d + 6) : IsBusinessDay(e)
<1>1. d % 7 <= 4 \/ (d + 1) % 7 <= 4 \/ (d + 2) % 7 <= 4
  OBVIOUS
<1> QED
  BY <1>1 DEF IsBusinessDay

(* The engine's events are timestamps after midnight of the first day.     *)
LEMMA EventsArePositive ==
  ASSUME NEW s \in SessionType, NEW t \in sim_events(s)
  PROVE  t \in Nat \ {0}
<1>1. /\ s.start_dt \in Nat /\ s.end_dt \in Nat
  BY DEF SessionType
<1>2. Day(s.start_dt) \in Nat /\ Day(s.end_dt) \in Nat
  BY <1>1, DayAndSlot
<1>3. PICK d \in Day(s.start_dt)..Day(s.end_dt) : t = OpenOf(d) \/ t = CloseOf(d)
  BY DEF sim_events, date_range
<1>4. d \in Nat
  BY <1>2, <1>3
<1> QED
  BY <1>3, <1>4 DEF OpenOf, CloseOf

(* A business day of the engine's range has both its events.               *)
LEMMA EventsOf ==
  ASSUME NEW s \in SessionType, NEW d \in Nat, IsBusinessDay(d),
         s.start_dt <= 3 * d + Slot(s.start_dt), 3 * d + Slot(s.start_dt) <= s.end_dt
  PROVE  /\ d \in date_range(s)
         /\ OpenOf(d) \in sim_events(s) /\ CloseOf(d) \in sim_events(s)
<1> DEFINE a == s.start_dt
           b == s.end_dt
<1>1. a \in Nat /\ b \in Nat
  BY DEF SessionType
<1>2. /\ Day(a) \in Nat /\ Slot(a) \in 0..2 /\ a = 3 * Day(a) + Slot(a)
      /\ Day(b) \in Nat /\ Slot(b) \in 0..2 /\ b = 3 * Day(b) + Slot(b)
  BY <1>1, DayAndSlot
<1>3. d \in Day(a)..Day(b)
  BY <1>2
<1>4. d \in date_range(s)
  BY <1>3 DEF date_range
<1> QED
  BY <1>4 DEF sim_events

(* Every date a schedule computes is an event of the engine, if the        *)
(* session ends no earlier in the day than it starts (and, for buy and     *)
(* hold, starts at an event's time of day and reaches its date).           *)
LEMMA ScheduleIsSimulated ==
  ASSUME NEW s \in Sessions, Slot(s.start_dt) <= Slot(s.end_dt),
         s.rebalance = "buy_and_hold" =>
           /\ Slot(s.start_dt) # 0
           /\ buy_and_hold_rebalances(s) \subseteq 0..s.end_dt
  PROVE  rebalance_schedule(s) \subseteq sim_events(s)
<1>0. s \in SessionType
  BY BacktestAssumption
<1> DEFINE a == s.start_dt
           b == s.end_dt
<1>1. a \in Nat /\ b \in Nat /\ a <= b /\ s.weekday \in 0..4
      /\ s.rebalance \in {"buy_and_hold", "daily", "weekly", "end_of_month"}
  BY <1>0, BacktestAssumption DEF SessionType
<1>2. /\ Day(a) \in Nat /\ Slot(a) \in 0..2 /\ a = 3 * Day(a) + Slot(a)
      /\ Day(b) \in Nat /\ Slot(b) \in 0..2 /\ b = 3 * Day(b) + Slot(b)
  BY <1>1, DayAndSlot
<1>3. ASSUME s.rebalance = "buy_and_hold" PROVE buy_and_hold_rebalances(s) \subseteq sim_events(s)
  <2> DEFINE near == {d \in Day(a)..(Day(a) + 6) : IsBusinessDay(d)}
             day == Min(near)
  <2>1. near # {} /\ near \subseteq Int /\ IsFiniteSet(near)
    <3>1. near # {}
      BY <1>2, BusinessDayNear
    <3>2. near \subseteq Day(a)..(Day(a) + 6) /\ near \subseteq Int
      BY <1>2
    <3>3. IsFiniteSet(Day(a)..(Day(a) + 6))
      BY <1>2, FS_Interval
    <3>4. QED
      BY <3>1, <3>2, <3>3, FS_Subset
  <2>2. day \in near
    BY <2>1, FiniteMin
  <2>3. day \in Nat /\ Day(a) <= day /\ IsBusinessDay(day)
    BY <1>2, <2>2
  <2>4. buy_and_hold_rebalances(s) = {3 * day + Slot(a)}
    BY DEF buy_and_hold_rebalances
  <2> HIDE DEF day
  <2>5. a <= 3 * day + Slot(a) /\ 3 * day + Slot(a) <= b
    BY <1>2, <1>3, <2>3, <2>4
  <2>6. OpenOf(day) \in sim_events(s) /\ CloseOf(day) \in sim_events(s)
    BY <1>0, <2>3, <2>5, EventsOf
  <2>7. 3 * day + Slot(a) = OpenOf(day) \/ 3 * day + Slot(a) = CloseOf(day)
    BY <1>2, <1>3, <2>3 DEF OpenOf, CloseOf
  <2>8. QED
    BY <2>4, <2>6, <2>7
<1>4. daily_rebalances(s) \subseteq sim_events(s)
  <2> SUFFICES ASSUME NEW d \in Day(a)..Day(b), IsBusinessDay(d)
               PROVE  CloseOf(d) \in sim_events(s)
    BY DEF daily_rebalances
  <2>1. d \in Nat /\ a <= 3 * d + Slot(a) /\ 3 * d + Slot(a) <= b
    BY <1>2
  <2>2. QED
    BY <1>0, <2>1, EventsOf
<1>5. ASSUME NEW d \in date_range(s), IsBusinessDay(d) PROVE CloseOf(d) \in sim_events(s)
  BY <1>5 DEF sim_events
<1>6. weekly_rebalances(s) \subseteq sim_events(s)
  BY <1>1, <1>5 DEF weekly_rebalances, IsBusinessDay
<1>7. end_of_month_rebalances(s) \subseteq sim_events(s)
  BY <1>5, BacktestAssumption DEF end_of_month_rebalances, IsBusinessDay
<1> QED
  BY <1>1, <1>3, <1>4, <1>6, <1>7 DEF rebalance_schedule

---------------------------------------------------------------------------
(* An event adds itself to the rebalances exactly when it is one.          *)
LEMMA ScheduleStep == ScheduleInv /\ [UseNext]_allVars => ScheduleInv'
<1> SUFFICES ASSUME ScheduleInv, [UseNext]_allVars PROVE ScheduleInv'
  OBVIOUS
<1> DEFINE Reached(n) == {t \in sim_events(session) : t <= n /\ is_rebalance_event(t)}
<1>1. ASSUME session' = session
      PROVE  /\ sim_events(session)' = sim_events(session)
             /\ \A t : is_rebalance_event(t)' = is_rebalance_event(t)
  BY <1>1 DEF is_rebalance_event, past_burn_in
<1>2. ASSUME phase = "running", NEW t \in sim_events(session), Upcoming(t), now' = t,
             session' = session, phase' \in {"running", "failed"},
             phase' = "running" =>
               allocations' = allocations \cup (IF is_rebalance_event(t) THEN {t} ELSE {})
      PROVE  ScheduleInv'
  <2>1. session \in Sessions /\ session \in SessionType /\ allocations = Reached(now)
    BY <1>2, BacktestAssumption DEF ScheduleInv
  <2>2. /\ \A u \in sim_events(session) : u \in Nat
        /\ now \in Int /\ t > now /\ \A u \in sim_events(session) : u > now => t <= u
    BY <1>2, <2>1, EventsArePositive DEF Upcoming, ScheduleInv
  <2>3. \A u \in sim_events(session) : u <= t <=> (u <= now \/ u = t)
    BY <1>2, <2>2
  <2>4. phase' = "running" => allocations' = Reached(t)
    BY <1>2, <2>1, <2>3
  <2>5. QED
    BY <1>1, <1>2, <2>1, <2>2, <2>4 DEF ScheduleInv
<1>3. ASSUME NEW t \in sim_events(session), PlainEvent(t) PROVE ScheduleInv'
  <2>1. /\ phase = "running" /\ Upcoming(t) /\ ~is_rebalance_event(t) /\ now' = t
        /\ session' = session /\ allocations' = allocations /\ phase' \in {"running", "failed"}
    BY <1>3 DEF PlainEvent, Finish
  <2>2. QED
    BY <1>2, <2>1
<1>4. ASSUME NEW t \in sim_events(session), RebalanceEvent(t) PROVE ScheduleInv'
  <2>1. /\ phase = "running" /\ Upcoming(t) /\ is_rebalance_event(t) /\ now' = t
        /\ session' = session /\ phase' \in {"running", "failed"}
        /\ phase' = "running" => allocations' = allocations \cup {t}
    BY <1>4 DEF RebalanceEvent, Finish, rebalanced
  <2>2. QED
    BY <1>2, <2>1
<1>5. CASE End
  <2>1. /\ phase = "running" /\ (\A t \in sim_events(session) : t <= now) /\ phase' = "done"
        /\ UNCHANGED <<session, now, allocations>>
    BY <1>5 DEF End
  <2>2. QED
    BY <1>1, <2>1 DEF ScheduleInv
<1>6. CASE HandNext
  <2>1. /\ phase = "by_hand" /\ UNCHANGED <<session, phase, allocations>>
        /\ now' = now \/ now' \in DOMAIN HandPrices
    BY <1>6 DEF HandNext, CreatePortfolio, SubscribeToAccount, WithdrawFromAccount,
       SubscribeToPortfolio, WithdrawFromPortfolio, Submit, Update, Call
  <2>2. now' \in Int
    BY <2>1, HandAssumption DEF ScheduleInv
  <2>3. QED
    BY <2>1, <2>2 DEF ScheduleInv
<1>7. CASE UNCHANGED allVars
  BY <1>1, <1>7 DEF ScheduleInv, allVars, vars
<1> QED
  BY <1>3, <1>4, <1>5, <1>6, <1>7 DEF UseNext, Next

(* The schedule's invariant holds for ever.                                *)
LEMMA ScheduleInvariant == UseSpec => []ScheduleInv
<1>1. UseInit => ScheduleInv
  <2>1. ASSUME SessionInit PROVE ScheduleInv
    <3>1. /\ phase = "running" /\ now = 0 /\ session \in Sessions /\ session \in SessionType
          /\ allocations = {}
      BY <2>1, BacktestAssumption DEF SessionInit, Init
    <3>2. \A t \in sim_events(session) : t \in Nat \ {0}
      BY <3>1, EventsArePositive
    <3>3. QED
      BY <3>1, <3>2 DEF ScheduleInv
  <2>2. ASSUME HandInit PROVE ScheduleInv
    BY <2>2 DEF HandInit, ScheduleInv
  <2>3. QED
    BY <2>1, <2>2 DEF UseInit
<1> QED
  BY <1>1, ScheduleStep, PTL DEF UseSpec

(* A backtest that runs to its end has rebalanced at exactly the dates of  *)
(* its schedule past the burn-in, for every schedule, start and end: the   *)
(* loop of BacktestTradingSession.run compares timestamps that the engine  *)
(* and the schedules compute independently.                                *)
THEOREM EveryRebalanceRuns == UseSpec => []ScheduleIsMet
<1>1. ScheduleInv => ScheduleIsMet
  <2> SUFFICES ASSUME ScheduleInv, phase = "done",
                      Slot(session.start_dt) <= Slot(session.end_dt),
                      session.rebalance = "buy_and_hold" =>
                        /\ Slot(session.start_dt) # 0
                        /\ buy_and_hold_rebalances(session) \subseteq 0..session.end_dt
               PROVE  allocations = {t \in rebalance_schedule(session) : past_burn_in(t)}
    BY DEF ScheduleIsMet
  <2>1. /\ session \in Sessions
        /\ allocations = {t \in sim_events(session) : t <= now /\ is_rebalance_event(t)}
        /\ \A t \in sim_events(session) : t <= now
    BY DEF ScheduleInv
  <2>2. rebalance_schedule(session) \subseteq sim_events(session)
    BY <2>1, ScheduleIsSimulated
  <2>3. QED
    BY <2>1, <2>2 DEF is_rebalance_event
<1> QED
  BY <1>1, ScheduleInvariant, PTL

---------------------------------------------------------------------------
(* The loops.  FoldLeft takes its step as an operator, so each loop has    *)
(* its own lemma: what every step keeps, or leads from one index to the    *)
(* next, the loop does.                                                    *)

(* The assets of a portfolio in the order they are marked in, and the      *)
(* orders of a drain in the order they are executed in.                    *)
ToMark(b, id) == SetToSeq(DOMAIN b.portfolios[id].positions)
ToExecute(b) == sells_then_buys(drained_orders(b))

(* The marking of one portfolio, asset by asset.                           *)
LEMMA MarkStays ==
  ASSUME NEW V, NEW b, NEW id, NEW prices, NEW n \in Nat,
         DOMAIN ToMark(b, id) = 1..n, b \in V,
         \A v \in V, i \in 1..n : mark_asset(v, id, ToMark(b, id)[i], prices) \in V
  PROVE  mark_portfolio(b, id, prices) \in V
<1> DEFINE Step(v, i) == mark_asset(v, id, ToMark(b, id)[i], prices)
           Is(it) == it = [s \in SUBSET (1..n) |->
                             IF s = {} THEN b ELSE Step(it[s \ {Max(s)}], Max(s))]
           fold == CHOOSE it : Is(it)
           st == [x \in V \X (1..n) |-> Step(x[1], x[2])]
           W == [i \in 0..n |-> V]
<1>1. mark_portfolio(b, id, prices) = fold[1..n]
  BY DEF mark_portfolio, ToMark, FoldLeft, MapThenFoldSet
<1>2. st \in [V \X (1..n) -> V] /\ \A v \in V, i \in 1..n : st[<<v, i>>] = Step(v, i)
  OBVIOUS
<1>3. b \in W[0] /\ Follows(st, V, W, n)
  BY <1>2 DEF Follows
<1> HIDE DEF st, Step, W
<1>4. PICK f \in [SUBSET (1..n) -> V] : PartFold(f, st, b, SUBSET (1..n))
  BY <1>2, FoldExists
<1>5. Is(f)
  <2>1. ASSUME NEW s \in SUBSET (1..n), s # {}
        PROVE  st[<<f[s \ {Max(s)}], Max(s)>>] = Step(f[s \ {Max(s)}], Max(s))
    BY <1>2, <2>1, LastIn
  <2> QED  BY <1>4, <2>1 DEF PartFold
<1>6. Is(fold)
  BY <1>5
<1> HIDE DEF fold
<1>7. FoldsBy(fold, st, b, V, n)
  BY <1>2, <1>6, LastIn DEF FoldsBy
<1>8. fold[1..n] \in V /\ fold[1..n] \in W[n]
  BY <1>2, <1>3, <1>7, FoldFollows
<1> QED  BY <1>1, <1>8

(* The marking of all portfolios, one by one.                              *)
LEMMA MarksStay ==
  ASSUME NEW V, NEW b, NEW prices, NEW n \in Nat,
         DOMAIN b.portfolio_ids = 1..n, b \in V,
         \A v \in V, i \in 1..n : mark_portfolio(v, b.portfolio_ids[i], prices) \in V
  PROVE  mark_portfolios(b, prices) \in V
<1> DEFINE Step(v, i) == mark_portfolio(v, b.portfolio_ids[i], prices)
           Is(it) == it = [s \in SUBSET (1..n) |->
                             IF s = {} THEN b ELSE Step(it[s \ {Max(s)}], Max(s))]
           fold == CHOOSE it : Is(it)
           st == [x \in V \X (1..n) |-> Step(x[1], x[2])]
           W == [i \in 0..n |-> V]
<1>1. mark_portfolios(b, prices) = fold[1..n]
  BY DEF mark_portfolios, FoldLeft, MapThenFoldSet
<1>2. st \in [V \X (1..n) -> V] /\ \A v \in V, i \in 1..n : st[<<v, i>>] = Step(v, i)
  OBVIOUS
<1>3. b \in W[0] /\ Follows(st, V, W, n)
  BY <1>2 DEF Follows
<1> HIDE DEF st, Step, W
<1>4. PICK f \in [SUBSET (1..n) -> V] : PartFold(f, st, b, SUBSET (1..n))
  BY <1>2, FoldExists
<1>5. Is(f)
  <2>1. ASSUME NEW s \in SUBSET (1..n), s # {}
        PROVE  st[<<f[s \ {Max(s)}], Max(s)>>] = Step(f[s \ {Max(s)}], Max(s))
    BY <1>2, <2>1, LastIn
  <2> QED  BY <1>4, <2>1 DEF PartFold
<1>6. Is(fold)
  BY <1>5
<1> HIDE DEF fold
<1>7. FoldsBy(fold, st, b, V, n)
  BY <1>2, <1>6, LastIn DEF FoldsBy
<1>8. fold[1..n] \in V /\ fold[1..n] \in W[n]
  BY <1>2, <1>3, <1>7, FoldFollows
<1> QED  BY <1>1, <1>8

(* The drain, queue by queue.                                              *)
LEMMA DrainFollows ==
  ASSUME NEW V, NEW W, NEW b, NEW n \in Nat,
         DOMAIN b.portfolio_ids = 1..n, <<>> \in V, <<>> \in W[0],
         \A v \in V, i \in 1..n : v \o queue_of(b, b.portfolio_ids[i]) \in V,
         \A v \in V, i \in 1..n : v \in W[i - 1] => v \o queue_of(b, b.portfolio_ids[i]) \in W[i]
  PROVE  drained_orders(b) \in V /\ drained_orders(b) \in W[n]
<1> DEFINE Step(v, i) == v \o queue_of(b, b.portfolio_ids[i])
           Is(it) == it = [s \in SUBSET (1..n) |->
                             IF s = {} THEN <<>> ELSE Step(it[s \ {Max(s)}], Max(s))]
           fold == CHOOSE it : Is(it)
           st == [x \in V \X (1..n) |-> Step(x[1], x[2])]
<1>1. drained_orders(b) = fold[1..n]
  BY DEF drained_orders, FoldLeft, MapThenFoldSet
<1>2. st \in [V \X (1..n) -> V] /\ \A v \in V, i \in 1..n : st[<<v, i>>] = Step(v, i)
  OBVIOUS
<1>3. <<>> \in W[0] /\ Follows(st, V, W, n)
  BY <1>2 DEF Follows
<1> HIDE DEF st, Step
<1>4. PICK f \in [SUBSET (1..n) -> V] : PartFold(f, st, <<>>, SUBSET (1..n))
  BY <1>2, FoldExists
<1>5. Is(f)
  <2>1. ASSUME NEW s \in SUBSET (1..n), s # {}
        PROVE  st[<<f[s \ {Max(s)}], Max(s)>>] = Step(f[s \ {Max(s)}], Max(s))
    BY <1>2, <2>1, LastIn
  <2> QED  BY <1>4, <2>1 DEF PartFold
<1>6. Is(fold)
  BY <1>5
<1> HIDE DEF fold
<1>7. FoldsBy(fold, st, <<>>, V, n)
  BY <1>2, <1>6, LastIn DEF FoldsBy
<1>8. fold[1..n] \in V /\ fold[1..n] \in W[n]
  BY <1>2, <1>3, <1>7, FoldFollows
<1> QED  BY <1>1, <1>8

(* The drain, when every step keeps it in a set.                           *)
LEMMA DrainStays ==
  ASSUME NEW V, NEW b, NEW n \in Nat,
         DOMAIN b.portfolio_ids = 1..n, <<>> \in V,
         \A v \in V, i \in 1..n : v \o queue_of(b, b.portfolio_ids[i]) \in V
  PROVE  drained_orders(b) \in V
<1> DEFINE W == [i \in 0..n |-> V]
<1>1. <<>> \in W[0] /\ \A v \in V, i \in 1..n : v \in W[i - 1] => v \o queue_of(b, b.portfolio_ids[i]) \in W[i]
  OBVIOUS
<1> HIDE DEF W
<1> QED  BY <1>1, DrainFollows

(* The orders of one direction, order by order.                            *)
LEMMA DirectionFollows ==
  ASSUME NEW V, NEW W, NEW orders, NEW sells, NEW n \in Nat,
         DOMAIN orders = 1..n, <<>> \in V, <<>> \in W[0],
         \A v \in V, i \in 1..n : with_direction(v, orders[i], sells) \in V,
         \A v \in V, i \in 1..n : v \in W[i - 1] => with_direction(v, orders[i], sells) \in W[i]
  PROVE  of_direction(orders, sells) \in V /\ of_direction(orders, sells) \in W[n]
<1> DEFINE Step(v, i) == with_direction(v, orders[i], sells)
           Is(it) == it = [s \in SUBSET (1..n) |->
                             IF s = {} THEN <<>> ELSE Step(it[s \ {Max(s)}], Max(s))]
           fold == CHOOSE it : Is(it)
           st == [x \in V \X (1..n) |-> Step(x[1], x[2])]
<1>1. of_direction(orders, sells) = fold[1..n]
  BY DEF of_direction, FoldLeft, MapThenFoldSet
<1>2. st \in [V \X (1..n) -> V] /\ \A v \in V, i \in 1..n : st[<<v, i>>] = Step(v, i)
  OBVIOUS
<1>3. <<>> \in W[0] /\ Follows(st, V, W, n)
  BY <1>2 DEF Follows
<1> HIDE DEF st, Step
<1>4. PICK f \in [SUBSET (1..n) -> V] : PartFold(f, st, <<>>, SUBSET (1..n))
  BY <1>2, FoldExists
<1>5. Is(f)
  <2>1. ASSUME NEW s \in SUBSET (1..n), s # {}
        PROVE  st[<<f[s \ {Max(s)}], Max(s)>>] = Step(f[s \ {Max(s)}], Max(s))
    BY <1>2, <2>1, LastIn
  <2> QED  BY <1>4, <2>1 DEF PartFold
<1>6. Is(fold)
  BY <1>5
<1> HIDE DEF fold
<1>7. FoldsBy(fold, st, <<>>, V, n)
  BY <1>2, <1>6, LastIn DEF FoldsBy
<1>8. fold[1..n] \in V /\ fold[1..n] \in W[n]
  BY <1>2, <1>3, <1>7, FoldFollows
<1> QED  BY <1>1, <1>8

(* The orders of one direction, when every step keeps them in a set.       *)
LEMMA DirectionStays ==
  ASSUME NEW V, NEW orders, NEW sells, NEW n \in Nat,
         DOMAIN orders = 1..n, <<>> \in V,
         \A v \in V, i \in 1..n : with_direction(v, orders[i], sells) \in V
  PROVE  of_direction(orders, sells) \in V
<1> DEFINE W == [i \in 0..n |-> V]
<1>1. <<>> \in W[0] /\ \A v \in V, i \in 1..n : v \in W[i - 1] => with_direction(v, orders[i], sells) \in W[i]
  OBVIOUS
<1> HIDE DEF W
<1> QED  BY <1>1, DirectionFollows

(* The executions of a drain, order by order.                              *)
LEMMA ExecuteFollows ==
  ASSUME NEW V, NEW W, NEW b, NEW prices, NEW n \in Nat,
         DOMAIN ToExecute(b) = 1..n, emptied(b) \in V, emptied(b) \in W[0],
         \A v \in V, i \in 1..n : execute_order(v, ToExecute(b)[i].id, ToExecute(b)[i].order, prices) \in V,
         \A v \in V, i \in 1..n : v \in W[i - 1] => execute_order(v, ToExecute(b)[i].id, ToExecute(b)[i].order, prices) \in W[i]
  PROVE  execute_open_orders(b, prices) \in V /\ execute_open_orders(b, prices) \in W[n]
<1> DEFINE Step(v, i) == execute_order(v, ToExecute(b)[i].id, ToExecute(b)[i].order, prices)
           Is(it) == it = [s \in SUBSET (1..n) |->
                             IF s = {} THEN emptied(b) ELSE Step(it[s \ {Max(s)}], Max(s))]
           fold == CHOOSE it : Is(it)
           st == [x \in V \X (1..n) |-> Step(x[1], x[2])]
<1>1. execute_open_orders(b, prices) = fold[1..n]
  BY DEF execute_open_orders, ToExecute, FoldLeft, MapThenFoldSet
<1>2. st \in [V \X (1..n) -> V] /\ \A v \in V, i \in 1..n : st[<<v, i>>] = Step(v, i)
  OBVIOUS
<1>3. emptied(b) \in W[0] /\ Follows(st, V, W, n)
  BY <1>2 DEF Follows
<1> HIDE DEF st, Step
<1>4. PICK f \in [SUBSET (1..n) -> V] : PartFold(f, st, emptied(b), SUBSET (1..n))
  BY <1>2, FoldExists
<1>5. Is(f)
  <2>1. ASSUME NEW s \in SUBSET (1..n), s # {}
        PROVE  st[<<f[s \ {Max(s)}], Max(s)>>] = Step(f[s \ {Max(s)}], Max(s))
    BY <1>2, <2>1, LastIn
  <2> QED  BY <1>4, <2>1 DEF PartFold
<1>6. Is(fold)
  BY <1>5
<1> HIDE DEF fold
<1>7. FoldsBy(fold, st, emptied(b), V, n)
  BY <1>2, <1>6, LastIn DEF FoldsBy
<1>8. fold[1..n] \in V /\ fold[1..n] \in W[n]
  BY <1>2, <1>3, <1>7, FoldFollows
<1> QED  BY <1>1, <1>8

(* The executions of a drain, when every one keeps the broker in a set.    *)
LEMMA ExecuteStays ==
  ASSUME NEW V, NEW b, NEW prices, NEW n \in Nat,
         DOMAIN ToExecute(b) = 1..n, emptied(b) \in V,
         \A v \in V, i \in 1..n : execute_order(v, ToExecute(b)[i].id, ToExecute(b)[i].order, prices) \in V
  PROVE  execute_open_orders(b, prices) \in V
<1> DEFINE W == [i \in 0..n |-> V]
<1>1. emptied(b) \in W[0] /\ \A v \in V, i \in 1..n : v \in W[i - 1] => execute_order(v, ToExecute(b)[i].id, ToExecute(b)[i].order, prices) \in W[i]
  OBVIOUS
<1> HIDE DEF W
<1> QED  BY <1>1, ExecuteFollows

(* The execution handler, order by order.                                  *)
LEMMA HandlerFollows ==
  ASSUME NEW V, NEW W, NEW b, NEW id, NEW dt, NEW orders, NEW prices, NEW open, NEW n \in Nat,
         DOMAIN orders = 1..n, b \in V, b \in W[0],
         \A v \in V, i \in 1..n : submit_and_update(v, id, dt, orders[i], prices, open) \in V,
         \A v \in V, i \in 1..n : v \in W[i - 1] => submit_and_update(v, id, dt, orders[i], prices, open) \in W[i]
  PROVE  execution_handler(b, id, dt, orders, prices, open) \in V /\ execution_handler(b, id, dt, orders, prices, open) \in W[n]
<1> DEFINE Step(v, i) == submit_and_update(v, id, dt, orders[i], prices, open)
           Is(it) == it = [s \in SUBSET (1..n) |->
                             IF s = {} THEN b ELSE Step(it[s \ {Max(s)}], Max(s))]
           fold == CHOOSE it : Is(it)
           st == [x \in V \X (1..n) |-> Step(x[1], x[2])]
<1>1. execution_handler(b, id, dt, orders, prices, open) = fold[1..n]
  BY DEF execution_handler, FoldLeft, MapThenFoldSet
<1>2. st \in [V \X (1..n) -> V] /\ \A v \in V, i \in 1..n : st[<<v, i>>] = Step(v, i)
  OBVIOUS
<1>3. b \in W[0] /\ Follows(st, V, W, n)
  BY <1>2 DEF Follows
<1> HIDE DEF st, Step
<1>4. PICK f \in [SUBSET (1..n) -> V] : PartFold(f, st, b, SUBSET (1..n))
  BY <1>2, FoldExists
<1>5. Is(f)
  <2>1. ASSUME NEW s \in SUBSET (1..n), s # {}
        PROVE  st[<<f[s \ {Max(s)}], Max(s)>>] = Step(f[s \ {Max(s)}], Max(s))
    BY <1>2, <2>1, LastIn
  <2> QED  BY <1>4, <2>1 DEF PartFold
<1>6. Is(fold)
  BY <1>5
<1> HIDE DEF fold
<1>7. FoldsBy(fold, st, b, V, n)
  BY <1>2, <1>6, LastIn DEF FoldsBy
<1>8. fold[1..n] \in V /\ fold[1..n] \in W[n]
  BY <1>2, <1>3, <1>7, FoldFollows
<1> QED  BY <1>1, <1>8

(* The execution handler, when every order keeps the broker in a set.      *)
LEMMA HandlerStays ==
  ASSUME NEW V, NEW b, NEW id, NEW dt, NEW orders, NEW prices, NEW open, NEW n \in Nat,
         DOMAIN orders = 1..n, b \in V,
         \A v \in V, i \in 1..n : submit_and_update(v, id, dt, orders[i], prices, open) \in V
  PROVE  execution_handler(b, id, dt, orders, prices, open) \in V
<1> DEFINE W == [i \in 0..n |-> V]
<1>1. b \in W[0] /\ \A v \in V, i \in 1..n : v \in W[i - 1] => submit_and_update(v, id, dt, orders[i], prices, open) \in W[i]
  OBVIOUS
<1> HIDE DEF W
<1> QED  BY <1>1, HandlerFollows

---------------------------------------------------------------------------
(* A position and a portfolio: what they are worth, what was paid in, and  *)
(* what a mark or a transaction changes.                                   *)

(* Functions from a part of A to X.                                        *)
Partial(A, X) == UNION {[S -> X] : S \in SUBSET A}

(* The positions.                                                          *)
PositionRows ==
  [current_price : Int, current_dt : Nat, buy_quantity : Nat, sell_quantity : Nat,
   total_bought : Int, total_sold : Int, buy_commission : Int, sell_commission : Int]

(* A position is open, and a side without shares has cost nothing.         *)
Open(pos) ==
  /\ net_quantity(pos) # 0
  /\ pos.buy_quantity = 0 => pos.total_bought = 0 /\ pos.buy_commission = 0
  /\ pos.sell_quantity = 0 => pos.total_sold = 0 /\ pos.sell_commission = 0

(* The positions a portfolio keeps.                                        *)
OpenPositions == {pos \in PositionRows : Open(pos)}

(* The portfolios.                                                         *)
PortfolioRows ==
  [cash : Int, positions : Partial(Assets, OpenPositions), current_dt : Nat, closed_pnl : Int]

(* What was paid into a portfolio, as its books tell it.                   *)
PaidIn(p) ==
  p.cash - p.closed_pnl
    - SumFunction([a \in DOMAIN p.positions |-> net_incl_commission(p.positions[a])])

(* A function from a part of A is one of them.                             *)
LEMMA PartialIntro ==
  ASSUME NEW A, NEW X, NEW S, S \subseteq A, NEW f \in [S -> X]
  PROVE  f \in Partial(A, X)
  BY DEF Partial

(* What a function from a part of A is.                                    *)
LEMMA PartialElim ==
  ASSUME NEW A, NEW X, NEW f \in Partial(A, X)
  PROVE  DOMAIN f \subseteq A /\ f \in [DOMAIN f -> X]
  BY DEF Partial

(* The empty dictionary is one of them.                                    *)
LEMMA NoEntries == ASSUME NEW A, NEW X PROVE <<>> \in Partial(A, X) /\ DOMAIN <<>> = {}
<1>1. <<>> \in [{} -> X]
  OBVIOUS
<1> QED
  BY <1>1, PartialIntro

(* A quotient without a rest.                                              *)
LEMMA ExactQuotient == ASSUME NEW y \in Int, NEW b \in Nat \ {0} PROVE (b * y) \div b = y
  OBVIOUS

(* The gain on one side of a position, whichever it is.                    *)
LEMMA PnlAlgebra ==
  ASSUME NEW b \in Int, NEW s \in Int, NEW B \in Int, NEW S \in Int, NEW c \in Int, NEW d \in Int,
         NEW p \in Int, NEW F \in Int
  PROVE  /\ ((S * b - B * s) * F - s * c - b * d) + (p * b * F - (B * F + c)) * (b - s)
              = b * (p * (b - s) * F + ((S - B) * F - (c + d)))
         /\ ((S * b - B * s) * F - b * d - s * c) + (p * s * F - (S * F - d)) * (b - s)
              = s * (p * (b - s) * F + ((S - B) * F - (c + d)))
  OBVIOUS

(* The four formulas of Position add up to what the position is worth and  *)
(* what it has brought in.                                                 *)
LEMMA PnlIs ==
  ASSUME NEW pos \in OpenPositions
  PROVE  /\ market_value(pos) \in Int /\ net_incl_commission(pos) \in Int
         /\ total_pnl(pos) = market_value(pos) + net_incl_commission(pos)
<1> DEFINE b == pos.buy_quantity
           s == pos.sell_quantity
           B == pos.total_bought
           S == pos.total_sold
           c == pos.buy_commission
           d == pos.sell_commission
           p == pos.current_price
           F == FeeUnit
           y == p * (b - s) * F + ((S - B) * F - (c + d))
<1>1. /\ b \in Nat /\ s \in Nat /\ B \in Int /\ S \in Int /\ c \in Int /\ d \in Int /\ p \in Int
      /\ b - s # 0 /\ (b = 0 => B = 0 /\ c = 0) /\ (s = 0 => S = 0 /\ d = 0)
  BY DEF OpenPositions, PositionRows, Open, net_quantity
<1>2. F \in Nat \ {0}
  BY FeeAssumption
<1>3. /\ market_value(pos) = p * (b - s) * F
      /\ net_incl_commission(pos) = (S - B) * F - (c + d)
  BY DEF market_value, net_incl_commission, net_quantity
<1>4. market_value(pos) \in Int /\ net_incl_commission(pos) \in Int /\ y \in Int
  BY <1>1, <1>2, <1>3
<1>5. CASE b - s > 0
  <2>1. side_quantity(pos) = b
    BY <1>5 DEF side_quantity, net_quantity
  <2>2. unrealised_pnl(pos) = (p * b * F - (B * F + c)) * (b - s)
    BY <1>5, <2>1 DEF unrealised_pnl, avg_price_total, net_quantity
  <2>3. realised_pnl(pos) = (S * b - B * s) * F - s * c - b * d
    <3>1. CASE s = 0
      <4>1. realised_pnl(pos) = 0
        BY <1>5, <3>1 DEF realised_pnl, net_quantity
      <4>2. (0 * b - B * 0) * F - 0 * c - b * 0 = 0
        BY <1>1, <1>2
      <4> QED  BY <1>1, <3>1, <4>1, <4>2
    <3>2. CASE s # 0
      BY <1>5, <3>2 DEF realised_pnl, net_quantity
    <3> QED  BY <3>1, <3>2
  <2>4. total_pnl(pos) = (b * y) \div b
    <3> HIDE DEF b, s, B, S, c, d, p, F
    <3>1. realised_pnl(pos) + unrealised_pnl(pos) = b * y
      BY <1>1, <1>2, <2>2, <2>3, PnlAlgebra
    <3> QED  BY <2>1, <3>1 DEF total_pnl
  <2>5. b \in Nat \ {0}
    BY <1>1, <1>5
  <2> HIDE DEF y, b
  <2>6. total_pnl(pos) = y
    BY <1>4, <2>4, <2>5, ExactQuotient
  <2> QED  BY <1>3, <1>4, <2>6 DEF y, b
<1>6. CASE ~(b - s > 0)
  <2>1. side_quantity(pos) = s
    BY <1>6 DEF side_quantity, net_quantity
  <2>2. unrealised_pnl(pos) = (p * s * F - (S * F - d)) * (b - s)
    BY <1>6, <2>1 DEF unrealised_pnl, avg_price_total, net_quantity
  <2>3. realised_pnl(pos) = (S * b - B * s) * F - b * d - s * c
    <3>1. CASE b = 0
      <4>1. realised_pnl(pos) = 0
        BY <1>6, <3>1 DEF realised_pnl, net_quantity
      <4>2. (S * 0 - 0 * s) * F - 0 * d - s * 0 = 0
        BY <1>1, <1>2
      <4> QED  BY <1>1, <3>1, <4>1, <4>2
    <3>2. CASE b # 0
      BY <1>6, <3>2 DEF realised_pnl, net_quantity
    <3> QED  BY <3>1, <3>2
  <2>4. total_pnl(pos) = (s * y) \div s
    <3> HIDE DEF b, s, B, S, c, d, p, F
    <3>1. realised_pnl(pos) + unrealised_pnl(pos) = s * y
      BY <1>1, <1>2, <2>2, <2>3, PnlAlgebra
    <3> QED  BY <2>1, <3>1 DEF total_pnl
  <2>5. s \in Nat \ {0}
    BY <1>1, <1>6
  <2> HIDE DEF y, s
  <2>6. total_pnl(pos) = y
    BY <1>4, <2>4, <2>5, ExactQuotient
  <2> QED  BY <1>3, <1>4, <2>6 DEF y, s
<1> QED
  BY <1>4, <1>5, <1>6

(* The transactions an execution books.                                    *)
Txns == [asset : Assets, quantity : Int \ {0}, price : Int, dt : Nat, commission : Int]

(* The books of a portfolio.                                               *)
LEMMA BooksAreFinite ==
  ASSUME NEW p \in PortfolioRows
  PROVE  /\ IsFiniteSet(DOMAIN p.positions) /\ DOMAIN p.positions \subseteq Assets
         /\ p.positions \in [DOMAIN p.positions -> OpenPositions]
         /\ p.cash \in Int /\ p.closed_pnl \in Int /\ p.current_dt \in Nat
<1>1. p.positions \in Partial(Assets, OpenPositions) /\ p.cash \in Int /\ p.closed_pnl \in Int
      /\ p.current_dt \in Nat
  BY DEF PortfolioRows
<1>2. DOMAIN p.positions \subseteq Assets /\ p.positions \in [DOMAIN p.positions -> OpenPositions]
  BY <1>1, PartialElim
<1>3. IsFiniteSet(DOMAIN p.positions)
  BY <1>2, BacktestAssumption, FS_Subset
<1> QED  BY <1>1, <1>2, <1>3

(* What a portfolio is worth is what was paid in and its profit.           *)
LEMMA BooksAddUp ==
  ASSUME NEW p \in PortfolioRows
  PROVE  /\ PaidIn(p) \in Int /\ total_equity(p) \in Int
         /\ total_open_pnl(p.positions) \in Int /\ p.closed_pnl \in Int
         /\ total_equity(p) = PaidIn(p) + (total_open_pnl(p.positions) + p.closed_pnl)
<1> DEFINE S == DOMAIN p.positions
           m == [a \in S |-> market_value(p.positions[a])]
           n == [a \in S |-> net_incl_commission(p.positions[a])]
           t == [a \in S |-> total_pnl(p.positions[a])]
<1>1. IsFiniteSet(S) /\ p.cash \in Int /\ p.closed_pnl \in Int
      /\ \A a \in S : p.positions[a] \in OpenPositions
  BY BooksAreFinite
<1>2. \A a \in S : m[a] \in Int /\ n[a] \in Int /\ t[a] = m[a] + n[a]
  BY <1>1, PnlIs
<1>3. /\ total_equity(p) = SumFunctionOnSet(m, S) + p.cash
      /\ total_open_pnl(p.positions) = SumFunctionOnSet(t, S)
      /\ PaidIn(p) = p.cash - p.closed_pnl - SumFunctionOnSet(n, S)
  BY DEF total_equity, total_market_value, total_open_pnl, PaidIn, SumFunction
<1> HIDE DEF m, n, t
<1>4. SumFunctionOnSet(m, S) \in Int /\ SumFunctionOnSet(n, S) \in Int
  BY <1>1, <1>2, SumInt
<1>5. SumFunctionOnSet(t, S) = SumFunctionOnSet(m, S) + SumFunctionOnSet(n, S)
  BY <1>1, <1>2, SumPlus
<1> QED  BY <1>1, <1>3, <1>4, <1>5

(* What a transaction makes of a position.                                 *)
LEMMA PositionAfter ==
  ASSUME NEW ps, NEW S, ps \in [S -> OpenPositions], NEW txn \in Txns, NEW pos,
         pos = position_after(ps, txn)
  PROVE  /\ pos \in PositionRows /\ pos.current_dt = txn.dt
         /\ net_quantity(pos) = held(ps, txn.asset) + txn.quantity
         /\ net_quantity(pos) # 0 => Open(pos)
         /\ net_incl_commission(pos) =
              (IF txn.asset \in S THEN net_incl_commission(ps[txn.asset]) ELSE 0)
                - cost_with_commission(txn)
<1> DEFINE q == txn.quantity
           x == txn.price
           m == txn.commission
           F == FeeUnit
           cost == q * x
<1>1. /\ q \in Int /\ q # 0 /\ x \in Int /\ m \in Int /\ txn.dt \in Nat
  BY DEF Txns
<1>2. F \in Nat
  BY FeeAssumption
<1>3. cost \in Int /\ x * q = cost /\ cost_with_commission(txn) = cost * F + m
  BY <1>1 DEF cost_with_commission
<1>m. \A u \in Int : u * F \in Int
  BY <1>2
<1>d. \A u \in Int, v \in Int : (u + v) * F = u * F + v * F /\ (u - v) * F = u * F - v * F
  BY <1>2
<1>4. CASE txn.asset \in S
  <2> DEFINE o == ps[txn.asset]
  <2>1. /\ o \in PositionRows /\ Open(o)
    BY <1>4 DEF OpenPositions
  <2>2. held(ps, txn.asset) = net_quantity(o) /\ pos = transact(o, txn)
    BY <1>4 DEF held, position_after
  <2> HIDE DEF o
  <2>3. CASE q > 0
    <3>1. pos = [o EXCEPT !.total_bought = @ + cost, !.buy_quantity = @ + q,
                          !.buy_commission = @ + m, !.current_price = x, !.current_dt = txn.dt]
      BY <1>1, <2>2, <2>3 DEF transact
    <3>2. /\ pos \in PositionRows /\ pos.buy_quantity = o.buy_quantity + q
          /\ pos.sell_quantity = o.sell_quantity /\ pos.total_bought = o.total_bought + cost
          /\ pos.total_sold = o.total_sold /\ pos.buy_commission = o.buy_commission + m
          /\ pos.sell_commission = o.sell_commission /\ pos.current_dt = txn.dt
      <4> HIDE DEF cost, q, x, m
      <4>1. /\ o.buy_quantity \in Nat /\ o.sell_quantity \in Nat /\ o.total_bought \in Int
            /\ o.total_sold \in Int /\ o.buy_commission \in Int /\ o.sell_commission \in Int
        BY <2>1 DEF PositionRows
      <4>2. o.buy_quantity + q \in Nat /\ o.total_bought + cost \in Int /\ o.buy_commission + m \in Int /\ x \in Int /\ txn.dt \in Nat
        BY <1>1, <1>3, <2>3, <4>1
      <4>3. pos = [current_price |-> x, current_dt |-> txn.dt,
                   buy_quantity |-> o.buy_quantity + q, sell_quantity |-> o.sell_quantity,
                   total_bought |-> o.total_bought + cost, total_sold |-> o.total_sold,
                   buy_commission |-> o.buy_commission + m,
                   sell_commission |-> o.sell_commission]
        BY <2>1, <3>1 DEF PositionRows
      <4> QED  BY <4>1, <4>2, <4>3 DEF PositionRows
    <3>3. net_quantity(pos) = net_quantity(o) + q /\ (net_quantity(pos) # 0 => Open(pos))
      BY <1>1, <2>1, <2>3, <3>2 DEF net_quantity, Open, PositionRows
    <3>4. net_incl_commission(pos) = net_incl_commission(o) - (cost * F + m)
      <4> HIDE DEF cost, q, x, m, F
      <4>1. /\ o.total_sold \in Int /\ o.total_bought \in Int /\ o.buy_commission \in Int
            /\ o.sell_commission \in Int
        BY <2>1 DEF PositionRows
      <4>2. (o.total_sold - (o.total_bought + cost)) * F = (o.total_sold - o.total_bought) * F - cost * F
        <5>1. o.total_sold - (o.total_bought + cost) = (o.total_sold - o.total_bought) - cost
              /\ o.total_sold - o.total_bought \in Int
          BY <1>3, <4>1
        <5> QED  BY <1>3, <1>d, <5>1
      <4>3. (o.total_sold - o.total_bought) * F \in Int /\ cost * F \in Int
        BY <1>3, <1>m, <4>1
      <4> QED  BY <1>1, <3>2, <4>1, <4>2, <4>3 DEF net_incl_commission, F
    <3> QED
      BY <1>3, <1>4, <2>2, <3>2, <3>3, <3>4 DEF o
  <2>4. CASE q < 0
    <3>1. pos = [o EXCEPT !.total_sold = @ - cost, !.sell_quantity = @ - q,
                          !.sell_commission = @ + m, !.current_price = x, !.current_dt = txn.dt]
      BY <1>1, <2>2, <2>4 DEF transact
    <3>2. /\ pos \in PositionRows /\ pos.buy_quantity = o.buy_quantity
          /\ pos.sell_quantity = o.sell_quantity - q /\ pos.total_bought = o.total_bought
          /\ pos.total_sold = o.total_sold - cost /\ pos.buy_commission = o.buy_commission
          /\ pos.sell_commission = o.sell_commission + m /\ pos.current_dt = txn.dt
      <4> HIDE DEF cost, q, x, m
      <4>1. /\ o.buy_quantity \in Nat /\ o.sell_quantity \in Nat /\ o.total_bought \in Int
            /\ o.total_sold \in Int /\ o.buy_commission \in Int /\ o.sell_commission \in Int
        BY <2>1 DEF PositionRows
      <4>2. o.sell_quantity - q \in Nat /\ o.total_sold - cost \in Int /\ o.sell_commission + m \in Int /\ x \in Int /\ txn.dt \in Nat
        BY <1>1, <1>3, <2>4, <4>1
      <4>3. pos = [current_price |-> x, current_dt |-> txn.dt,
                   buy_quantity |-> o.buy_quantity, sell_quantity |-> o.sell_quantity - q,
                   total_bought |-> o.total_bought, total_sold |-> o.total_sold - cost,
                   buy_commission |-> o.buy_commission,
                   sell_commission |-> o.sell_commission + m]
        BY <2>1, <3>1 DEF PositionRows
      <4> QED  BY <4>1, <4>2, <4>3 DEF PositionRows
    <3>3. net_quantity(pos) = net_quantity(o) + q /\ (net_quantity(pos) # 0 => Open(pos))
      BY <1>1, <2>1, <2>4, <3>2 DEF net_quantity, Open, PositionRows
    <3>4. net_incl_commission(pos) = net_incl_commission(o) - (cost * F + m)
      <4> HIDE DEF cost, q, x, m, F
      <4>1. /\ o.total_sold \in Int /\ o.total_bought \in Int /\ o.buy_commission \in Int
            /\ o.sell_commission \in Int
        BY <2>1 DEF PositionRows
      <4>2. ((o.total_sold - cost) - o.total_bought) * F = (o.total_sold - o.total_bought) * F - cost * F
        <5>1. (o.total_sold - cost) - o.total_bought = (o.total_sold - o.total_bought) - cost
              /\ o.total_sold - o.total_bought \in Int
          BY <1>3, <4>1
        <5> QED  BY <1>3, <1>d, <5>1
      <4>3. (o.total_sold - o.total_bought) * F \in Int /\ cost * F \in Int
        BY <1>3, <1>m, <4>1
      <4> QED  BY <1>1, <3>2, <4>1, <4>2, <4>3 DEF net_incl_commission, F
    <3> QED
      BY <1>3, <1>4, <2>2, <3>2, <3>3, <3>4 DEF o
  <2> QED  BY <1>1, <2>3, <2>4
<1>5. CASE txn.asset \notin S
  <2>1. held(ps, txn.asset) = 0 /\ pos = open_from_transaction(txn)
    BY <1>5 DEF held, position_after
  <2>2. cost * F \in Int /\ (0 - cost) * F = 0 - cost * F
    BY <1>3, <1>d, <1>m
  <2>3. CASE q > 0
    <3>1. pos = [current_price |-> x, current_dt |-> txn.dt, buy_quantity |-> q, sell_quantity |-> 0,
                 total_bought |-> cost, total_sold |-> 0, buy_commission |-> m, sell_commission |-> 0]
      BY <1>3, <2>1, <2>3 DEF open_from_transaction
    <3>2. pos \in PositionRows /\ Open(pos) /\ net_quantity(pos) = q /\ pos.current_dt = txn.dt
      <4> HIDE DEF cost, q, x, m
      <4> QED  BY <1>1, <1>3, <2>3, <3>1 DEF PositionRows, Open, net_quantity
    <3>3. net_incl_commission(pos) = 0 - (cost * F + m)
      <4> HIDE DEF cost, q, x, m
      <4>1. net_incl_commission(pos) = (0 - cost) * F - (m + 0)
        BY <3>1 DEF net_incl_commission
      <4> QED  BY <1>1, <2>2, <4>1
    <3> QED  BY <1>1, <1>3, <1>5, <2>1, <3>2, <3>3
  <2>4. CASE q < 0
    <3>1. pos = [current_price |-> x, current_dt |-> txn.dt, buy_quantity |-> 0, sell_quantity |-> -q,
                 total_bought |-> 0, total_sold |-> -cost, buy_commission |-> 0, sell_commission |-> m]
      BY <1>1, <1>3, <2>1, <2>4 DEF open_from_transaction
    <3>2. pos \in PositionRows /\ Open(pos) /\ net_quantity(pos) = q /\ pos.current_dt = txn.dt
      <4> HIDE DEF cost, q, x, m
      <4> QED  BY <1>1, <1>3, <2>4, <3>1 DEF PositionRows, Open, net_quantity
    <3>3. net_incl_commission(pos) = 0 - (cost * F + m)
      <4> HIDE DEF cost, q, x, m
      <4>1. net_incl_commission(pos) = (-cost - 0) * F - (0 + m)
        BY <3>1 DEF net_incl_commission
      <4>2. -cost - 0 = 0 - cost
        BY <1>3
      <4> QED  BY <1>1, <2>2, <4>1, <4>2
    <3> QED  BY <1>1, <1>3, <1>5, <2>1, <3>2, <3>3
  <2> QED  BY <1>1, <2>3, <2>4
<1> QED  BY <1>4, <1>5

(* Two portfolios that differ in marks only.                               *)
SameBooks(p, q) ==
  /\ q.cash = p.cash /\ q.closed_pnl = p.closed_pnl /\ q.current_dt = p.current_dt
  /\ DOMAIN q.positions = DOMAIN p.positions
  /\ \A a \in DOMAIN p.positions :
       /\ net_quantity(q.positions[a]) = net_quantity(p.positions[a])
       /\ net_incl_commission(q.positions[a]) = net_incl_commission(p.positions[a])

(* A mark does not touch what was paid in.                                 *)
LEMMA SameBooksSamePaid ==
  ASSUME NEW p \in PortfolioRows, NEW q, SameBooks(p, q)
  PROVE  PaidIn(q) = PaidIn(p) /\ \A a : held(q.positions, a) = held(p.positions, a)
<1>1. [a \in DOMAIN q.positions |-> net_incl_commission(q.positions[a])]
        = [a \in DOMAIN p.positions |-> net_incl_commission(p.positions[a])]
  BY DEF SameBooks
<1>2. PaidIn(q) = PaidIn(p)
  BY <1>1 DEF SameBooks, PaidIn
<1>3. \A a : held(q.positions, a) = held(p.positions, a)
  BY DEF SameBooks, held
<1> QED  BY <1>2, <1>3

(* update_market_value_of_asset keeps the books and, at a price, the       *)
(* types.                                                                  *)
LEMMA MarkKeeps ==
  ASSUME NEW p \in PortfolioRows, NEW a \in DOMAIN p.positions, NEW prices \in Int, NEW dt \in Nat,
         NEW q, q = update_market_value_of_asset(p, a, prices, dt)
  PROVE  /\ q \in PortfolioRows /\ SameBooks(p, q)
         /\ q.positions[a].current_dt = dt
         /\ \A x \in DOMAIN p.positions : x # a => q.positions[x] = p.positions[x]
<1> DEFINE S == DOMAIN p.positions
           o == p.positions[a]
           n == [o EXCEPT !.current_price = prices, !.current_dt = dt]
           ps == [p.positions EXCEPT ![a] = n]
<1>1. /\ S \subseteq Assets /\ p.positions \in [S -> OpenPositions]
  BY BooksAreFinite
<1>2. /\ o \in PositionRows /\ Open(o)
  BY <1>1 DEF OpenPositions
<1>3. q = [p EXCEPT !.positions = ps]
  BY DEF update_market_value_of_asset, PortfolioRows
<1> HIDE DEF ps
<1>4. /\ n \in PositionRows /\ n.current_dt = dt
      /\ n.buy_quantity = o.buy_quantity /\ n.sell_quantity = o.sell_quantity
      /\ n.total_bought = o.total_bought /\ n.total_sold = o.total_sold
      /\ n.buy_commission = o.buy_commission /\ n.sell_commission = o.sell_commission
  <2> HIDE DEF o
  <2> QED  BY <1>2 DEF PositionRows
<1> HIDE DEF n
<1>5. /\ net_quantity(n) = net_quantity(o) /\ net_incl_commission(n) = net_incl_commission(o)
      /\ n \in OpenPositions
  <2> HIDE DEF o
  <2> QED  BY <1>2, <1>4 DEF net_quantity, net_incl_commission, Open, OpenPositions
<1>6. /\ ps \in [S -> OpenPositions] /\ ps[a] = n /\ \A x \in S : x # a => ps[x] = p.positions[x]
  BY <1>1, <1>5 DEF ps
<1>7. ps \in Partial(Assets, OpenPositions)
  BY <1>1, <1>6, PartialIntro
<1>8. /\ q \in PortfolioRows /\ q.positions = ps /\ q.cash = p.cash
      /\ q.closed_pnl = p.closed_pnl /\ q.current_dt = p.current_dt
  BY <1>3, <1>7 DEF PortfolioRows
<1>9. SameBooks(p, q)
  BY <1>5, <1>6, <1>8 DEF SameBooks
<1> QED  BY <1>4, <1>6, <1>8, <1>9

(* q is p after a transaction.                                             *)
Transacted(p, txn, q) ==
  /\ q \in PortfolioRows /\ PaidIn(q) = PaidIn(p) /\ q.current_dt = txn.dt
  /\ \A a : held(q.positions, a) = held(p.positions, a)
              + (IF a = txn.asset THEN txn.quantity ELSE 0)
  /\ \A a \in DOMAIN q.positions : a # txn.asset =>
       a \in DOMAIN p.positions /\ q.positions[a] = p.positions[a]
  /\ txn.asset \in DOMAIN q.positions => q.positions[txn.asset].current_dt = txn.dt

(* transact_asset keeps the types and what was paid in, and adds the       *)
(* quantity to what is held: for an opening, an addition, a partial sale,  *)
(* a closing that deletes the position, and a reversal.                    *)
LEMMA TransactKeeps ==
  ASSUME NEW p \in PortfolioRows, NEW txn \in Txns, NEW q, q = transact_asset(p, txn)
  PROVE  Transacted(p, txn, q)
<1> DEFINE S == DOMAIN p.positions
           x == txn.asset
           pos == position_after(p.positions, txn)
           T == IF net_quantity(pos) = 0 THEN S \ {x} ELSE S \cup {x}
           ps == [a \in T |-> IF a = x THEN pos ELSE p.positions[a]]
           cost == cost_with_commission(txn)
           closed == IF net_quantity(pos) = 0 THEN p.closed_pnl + net_incl_commission(pos)
                     ELSE p.closed_pnl
<1>1. /\ IsFiniteSet(S) /\ S \subseteq Assets /\ p.positions \in [S -> OpenPositions]
      /\ p.cash \in Int /\ p.closed_pnl \in Int
  BY BooksAreFinite
<1>2. x \in Assets /\ txn.dt \in Nat /\ txn.quantity \in Int
  BY DEF Txns
<1>3. /\ pos \in PositionRows /\ pos.current_dt = txn.dt
      /\ net_quantity(pos) = held(p.positions, x) + txn.quantity
      /\ net_quantity(pos) # 0 => Open(pos)
      /\ net_incl_commission(pos) =
           (IF x \in S THEN net_incl_commission(p.positions[x]) ELSE 0) - cost
  BY <1>1, PositionAfter
<1>4. cost \in Int
  <2>1. txn.quantity \in Int /\ txn.price \in Int /\ txn.commission \in Int /\ FeeUnit \in Int
    BY FeeAssumption DEF Txns
  <2> QED  BY <2>1 DEF cost_with_commission
<1>5. q = [p EXCEPT !.positions = ps, !.cash = p.cash - cost, !.current_dt = txn.dt,
                    !.closed_pnl = closed]
  BY DEF transact_asset, transact_position, PortfolioRows
<1>6. net_incl_commission(pos) \in Int
  BY <1>3, FeeAssumption DEF net_incl_commission, PositionRows
<1>7. T \subseteq Assets /\ S \ {x} = T \ {x} /\ IsFiniteSet(T) /\ (x \in T <=> net_quantity(pos) # 0)
  <2>1. T \subseteq Assets /\ S \ {x} = T \ {x} /\ (x \in T <=> net_quantity(pos) # 0)
    BY <1>1, <1>2
  <2>2. IsFiniteSet(T)
    BY <2>1, BacktestAssumption, FS_Subset
  <2> QED  BY <2>1, <2>2
<1> HIDE DEF pos, cost, T
<1>8. /\ ps \in [T -> OpenPositions] /\ (x \in T => ps[x] = pos)
      /\ \A a \in T : a # x => a \in S /\ ps[a] = p.positions[a]
  <2>1. ASSUME NEW a \in T PROVE ps[a] \in OpenPositions
    BY <1>1, <1>3, <1>7 DEF OpenPositions
  <2>2. \A a \in T : a # x => a \in S
    BY <1>7
  <2> QED  BY <2>1, <2>2
<1> HIDE DEF ps
<1>9. /\ q \in PortfolioRows /\ q.positions = ps /\ q.cash = p.cash - cost
      /\ q.current_dt = txn.dt /\ q.closed_pnl = closed
  <2>1. ps \in Partial(Assets, OpenPositions)
    BY <1>7, <1>8, PartialIntro
  <2>2. p.cash - cost \in Int /\ closed \in Int
    BY <1>1, <1>4, <1>6
  <2> HIDE DEF closed
  <2>3. q = [cash |-> p.cash - cost, positions |-> ps, current_dt |-> txn.dt, closed_pnl |-> closed]
    BY <1>5 DEF PortfolioRows
  <2> QED  BY <1>2, <2>1, <2>2, <2>3 DEF PortfolioRows
<1>10. PaidIn(q) = PaidIn(p)
  <2> DEFINE f == [a \in S |-> net_incl_commission(p.positions[a])]
             g == [a \in T |-> net_incl_commission(ps[a])]
             old == SumFunctionOnSet(f, S)
             new == SumFunctionOnSet(g, T)
  <2>1. \A a \in S : f[a] \in Int
    BY <1>1, PnlIs
  <2>2. \A a \in T : g[a] \in Int
    BY <1>8, PnlIs
  <2>3. \A a \in S \ {x} : f[a] = g[a]
    BY <1>7, <1>8
  <2>4. /\ x \in S => f[x] = net_incl_commission(p.positions[x])
        /\ x \in T => g[x] = net_incl_commission(pos)
    BY <1>8
  <2>5. PaidIn(p) = p.cash - p.closed_pnl - old /\ PaidIn(q) = (p.cash - cost) - closed - new
    <3>1. DOMAIN ps = T
      BY <1>8
    <3> QED  BY <1>9, <3>1 DEF PaidIn, SumFunction
  <2> HIDE DEF f, g
  <2>6. new = old - (IF x \in S THEN f[x] ELSE 0) + (IF x \in T THEN g[x] ELSE 0)
    BY <1>1, <1>7, <2>1, <2>2, <2>3, SumPut
  <2>7. old \in Int
    BY <1>1, <2>1, SumInt
  <2> HIDE DEF old, new
  <2>8. CASE x \in T
    <3>1. closed = p.closed_pnl /\ g[x] = net_incl_commission(pos)
      BY <1>7, <2>4, <2>8
    <3>2. new = old - cost
      <4>1. CASE x \in S
        <5>1. f[x] \in Int
          BY <2>1, <4>1
        <5> QED  BY <1>3, <1>4, <1>6, <2>4, <2>6, <2>7, <2>8, <3>1, <4>1, <5>1
      <4>2. CASE x \notin S
        BY <1>3, <1>4, <1>6, <2>4, <2>6, <2>7, <2>8, <3>1, <4>2
      <4> QED  BY <4>1, <4>2
    <3> QED  BY <1>1, <1>4, <2>5, <2>7, <3>1, <3>2
  <2>9. CASE x \notin T
    <3>1. closed = p.closed_pnl + net_incl_commission(pos)
      BY <1>7, <2>9
    <3>2. closed + new = (p.closed_pnl + old) - cost
      <4>1. CASE x \in S
        <5>1. f[x] \in Int
          BY <2>1, <4>1
        <5> QED  BY <1>1, <1>3, <1>4, <1>6, <2>4, <2>6, <2>7, <2>9, <3>1, <4>1, <5>1
      <4>2. CASE x \notin S
        BY <1>1, <1>3, <1>4, <1>6, <2>4, <2>6, <2>7, <2>9, <3>1, <4>2
      <4> QED  BY <4>1, <4>2
    <3>3. closed \in Int /\ new \in Int
      <4>1. x \in S => f[x] \in Int
        BY <2>1
      <4> QED  BY <1>1, <1>6, <2>6, <2>7, <2>9, <3>1, <4>1
    <3> HIDE DEF closed
    <3> QED  BY <1>1, <1>4, <2>5, <2>7, <3>2, <3>3
  <2> QED  BY <2>8, <2>9
<1>11. \A a : held(q.positions, a) = held(p.positions, a) + (IF a = x THEN txn.quantity ELSE 0)
  <2> SUFFICES ASSUME NEW a
               PROVE  held(ps, a) = held(p.positions, a) + (IF a = x THEN txn.quantity ELSE 0)
    BY <1>9
  <2>0. DOMAIN ps = T
    BY <1>8
  <2>1. CASE a = x
    BY <1>3, <1>7, <1>8, <2>0, <2>1 DEF held
  <2>2. CASE a # x
    <3>1. a \in T <=> a \in S
      BY <1>7, <2>2
    <3>2. a \in S => net_quantity(p.positions[a]) \in Int
      BY <1>1 DEF OpenPositions, PositionRows, net_quantity
    <3> QED  BY <1>8, <2>0, <2>2, <3>1, <3>2 DEF held
  <2> QED  BY <2>1, <2>2
<1>12. DOMAIN ps = T
  BY <1>8
<1> QED
  BY <1>3, <1>8, <1>9, <1>10, <1>11, <1>12 DEF Transacted

---------------------------------------------------------------------------
(* The broker: marking.                                                    *)

(* The portfolio IDs there can be, the orders, and the brokers.            *)
Ids == HandIds \cup {PortfolioId}

(* The orders a queue can hold.                                            *)
OrderRows == [asset : Assets, quantity : Int \ {0}, created_dt : Int]

(* The brokers.                                                            *)
BrokerRows ==
  [cash_balance : Int, portfolio_ids : Seq(Ids), portfolios : Partial(Ids, PortfolioRows),
   open_orders : Partial(Ids, Seq(OrderRows)), current_dt : Nat, raised : BOOLEAN]

(* The dictionaries of the broker have the same keys, each created once.   *)
SameKeys(b) ==
  /\ IsFiniteSet(DOMAIN b.portfolios)
  /\ DOMAIN b.open_orders = DOMAIN b.portfolios
  /\ \A i \in 1..Len(b.portfolio_ids) : b.portfolio_ids[i] \in DOMAIN b.portfolios
  /\ \A id \in DOMAIN b.portfolios : \E i \in 1..Len(b.portfolio_ids) : b.portfolio_ids[i] = id
  /\ \A i, j \in 1..Len(b.portfolio_ids) : b.portfolio_ids[i] = b.portfolio_ids[j] => i = j

(* Every position was last marked or traded at a price: K holds the assets *)
(* and times with one.                                                     *)
Marked(p, K) == \A a \in DOMAIN p.positions : <<a, p.positions[a].current_dt>> \in K

(* A broker whose books can be read.                                       *)
SoundBroker(b, K) ==
  /\ b \in BrokerRows /\ SameKeys(b)
  /\ \A id \in DOMAIN b.portfolios : Marked(b.portfolios[id], K)

(* The prices of a time: an asset that had one has one.                    *)
Priced(prices, K, dt) ==
  /\ prices \in [Assets -> Prices \cup {NaN}]
  /\ \A a \in Assets : prices[a] # NaN => <<a, dt>> \in K
  /\ \A a \in Assets, t \in Nat : <<a, t>> \in K /\ t <= dt => prices[a] # NaN

(* Nothing was booked or marked after the broker's time.                   *)
Timely(b) ==
  \A id \in DOMAIN b.portfolios :
    /\ b.portfolios[id].current_dt <= b.current_dt
    /\ \A a \in DOMAIN b.portfolios[id].positions :
         b.portfolios[id].positions[a].current_dt <= b.current_dt

(* c is b with other marks or, if b was not timely, with an exception.     *)
OnlyMarked(b, c) ==
  /\ Timely(b) => Timely(c) /\ c.raised = b.raised
  /\ c.cash_balance = b.cash_balance /\ c.portfolio_ids = b.portfolio_ids
  /\ c.open_orders = b.open_orders /\ c.current_dt = b.current_dt
  /\ DOMAIN c.portfolios = DOMAIN b.portfolios
  /\ \A id \in DOMAIN b.portfolios : SameBooks(b.portfolios[id], c.portfolios[id])

(* What the fields of a broker are.                                        *)
LEMMA BrokerFacts ==
  ASSUME NEW b \in BrokerRows
  PROVE  /\ b.cash_balance \in Int /\ b.portfolio_ids \in Seq(Ids) /\ b.current_dt \in Nat
         /\ b.raised \in BOOLEAN
         /\ DOMAIN b.portfolios \subseteq Ids
         /\ b.portfolios \in [DOMAIN b.portfolios -> PortfolioRows]
         /\ DOMAIN b.open_orders \subseteq Ids
         /\ b.open_orders \in [DOMAIN b.open_orders -> Seq(OrderRows)]
<1>1. /\ b.cash_balance \in Int /\ b.portfolio_ids \in Seq(Ids) /\ b.current_dt \in Nat
      /\ b.raised \in BOOLEAN /\ b.portfolios \in Partial(Ids, PortfolioRows)
      /\ b.open_orders \in Partial(Ids, Seq(OrderRows))
  BY DEF BrokerRows
<1> QED  BY <1>1, PartialElim

(* The listed portfolios are the ones that exist.                          *)
LEMMA KeysAre ==
  ASSUME NEW b \in BrokerRows, SameKeys(b)
  PROVE  /\ Len(b.portfolio_ids) \in Nat /\ DOMAIN b.portfolio_ids = 1..Len(b.portfolio_ids)
         /\ \A j \in 1..Len(b.portfolio_ids) : b.portfolio_ids[j] \in DOMAIN b.portfolios
         /\ \A id \in DOMAIN b.portfolios : \E j \in 1..Len(b.portfolio_ids) : b.portfolio_ids[j] = id
<1> DEFINE s == b.portfolio_ids
<1>1. s \in Seq(Ids)
  BY BrokerFacts
<1>2. /\ \A j \in 1..Len(s) : s[j] \in DOMAIN b.portfolios
      /\ \A id \in DOMAIN b.portfolios : \E j \in 1..Len(s) : s[j] = id
  BY DEF SameKeys
<1> HIDE DEF s
<1>3. Len(s) \in Nat /\ DOMAIN s = 1..Len(s)
  BY <1>1
<1> QED  BY <1>2, <1>3 DEF s

(* A broker with another portfolio under one of its IDs.                   *)
LEMMA WithPortfolio ==
  ASSUME NEW K, NEW b, SoundBroker(b, K), NEW id \in DOMAIN b.portfolios,
         NEW q \in PortfolioRows, Marked(q, K), NEW c, c = [b EXCEPT !.portfolios[id] = q]
  PROVE  /\ SoundBroker(c, K)
         /\ c.cash_balance = b.cash_balance /\ c.portfolio_ids = b.portfolio_ids
         /\ c.open_orders = b.open_orders /\ c.current_dt = b.current_dt /\ c.raised = b.raised
         /\ DOMAIN c.portfolios = DOMAIN b.portfolios /\ c.portfolios[id] = q
         /\ \A i \in DOMAIN b.portfolios : i # id => c.portfolios[i] = b.portfolios[i]
<1> DEFINE ps == [b.portfolios EXCEPT ![id] = q]
<1>0. b \in BrokerRows
  BY DEF SoundBroker
<1>1. DOMAIN b.portfolios \subseteq Ids /\ b.portfolios \in [DOMAIN b.portfolios -> PortfolioRows]
  BY <1>0, BrokerFacts
<1>2. /\ ps \in [DOMAIN b.portfolios -> PortfolioRows] /\ ps[id] = q
      /\ \A i \in DOMAIN b.portfolios : i # id => ps[i] = b.portfolios[i]
  BY <1>1
<1>3. ps \in Partial(Ids, PortfolioRows)
  BY <1>1, <1>2, PartialIntro
<1>4. c = [b EXCEPT !.portfolios = ps]
  BY <1>0 DEF BrokerRows
<1> HIDE DEF ps
<1>5. /\ c \in BrokerRows /\ c.portfolios = ps
      /\ c.cash_balance = b.cash_balance /\ c.portfolio_ids = b.portfolio_ids
      /\ c.open_orders = b.open_orders /\ c.current_dt = b.current_dt /\ c.raised = b.raised
  BY <1>0, <1>3, <1>4 DEF BrokerRows
<1>6. DOMAIN c.portfolios = DOMAIN b.portfolios
  BY <1>2, <1>5
<1>7. SameKeys(c)
  BY <1>5, <1>6 DEF SoundBroker, SameKeys
<1>8. \A i \in DOMAIN c.portfolios : Marked(c.portfolios[i], K)
  BY <1>2, <1>5, <1>6 DEF SoundBroker
<1> QED  BY <1>2, <1>5, <1>6, <1>7, <1>8 DEF SoundBroker

(* An exception leaves everything but itself as it was.                    *)
LEMMA RaiseKeeps ==
  ASSUME NEW K, NEW b, SoundBroker(b, K)
  PROVE  /\ SoundBroker(Raise(b), K) /\ Raise(b).raised
         /\ ~Timely(b) => OnlyMarked(b, Raise(b))
         /\ OnlyMarked(b, b)
         /\ Raise(b).cash_balance = b.cash_balance /\ Raise(b).portfolio_ids = b.portfolio_ids
         /\ Raise(b).open_orders = b.open_orders /\ Raise(b).current_dt = b.current_dt
         /\ Raise(b).portfolios = b.portfolios
<1>1. /\ Raise(b) \in BrokerRows /\ Raise(b).raised
      /\ Raise(b).cash_balance = b.cash_balance /\ Raise(b).portfolio_ids = b.portfolio_ids
      /\ Raise(b).open_orders = b.open_orders /\ Raise(b).current_dt = b.current_dt
      /\ Raise(b).portfolios = b.portfolios
  BY DEF SoundBroker, BrokerRows, Raise
<1>2. SoundBroker(Raise(b), K)
  BY <1>1 DEF SoundBroker, SameKeys
<1>3. \A p : SameBooks(p, p)
  BY DEF SameBooks
<1> QED  BY <1>1, <1>2, <1>3 DEF OnlyMarked

(* Marks upon marks.                                                       *)
LEMMA SameBooksTrans ==
  ASSUME NEW p, NEW q, NEW r, SameBooks(p, q), SameBooks(q, r)
  PROVE  SameBooks(p, r)
  BY DEF SameBooks

(* Marking upon marking.                                                   *)
LEMMA OnlyMarkedTrans ==
  ASSUME NEW b, NEW c, NEW d, OnlyMarked(b, c), OnlyMarked(c, d)
  PROVE  OnlyMarked(b, d)
<1>1. \A id \in DOMAIN b.portfolios : SameBooks(b.portfolios[id], d.portfolios[id])
  BY SameBooksTrans DEF OnlyMarked
<1> QED  BY <1>1 DEF OnlyMarked

(* Marking one asset.                                                      *)
LEMMA MarkAssetKeeps ==
  ASSUME NEW K, NEW c, SoundBroker(c, K), NEW id \in DOMAIN c.portfolios,
         NEW a \in DOMAIN c.portfolios[id].positions, NEW prices, Priced(prices, K, c.current_dt)
  PROVE  SoundBroker(mark_asset(c, id, a, prices), K) /\ OnlyMarked(c, mark_asset(c, id, a, prices))
<1> DEFINE p == c.portfolios[id]
           d == mark_asset(c, id, a, prices)
           q == update_market_value_of_asset(p, a, prices[a], c.current_dt)
<1>0. c \in BrokerRows /\ p \in PortfolioRows /\ Marked(p, K) /\ c.current_dt \in Nat
  BY BrokerFacts DEF SoundBroker
<1>1. CASE c.raised
  BY <1>1, RaiseKeeps DEF mark_asset
<1>2. CASE ~c.raised /\ mark_too_early(p, a, c.current_dt)
  <2>1. p.current_dt \in Nat /\ p.positions[a].current_dt \in Nat
    BY <1>0, BooksAreFinite DEF OpenPositions, PositionRows
  <2>2. ~Timely(c)
    BY <1>0, <1>2, <2>1 DEF mark_too_early, too_early, Timely
  <2> QED  BY <1>2, <2>2, RaiseKeeps DEF mark_asset
<1>3. CASE ~c.raised /\ ~mark_too_early(p, a, c.current_dt)
  <2>1. d = [c EXCEPT !.portfolios[id] = q]
    BY <1>3 DEF mark_asset
  <2>2. a \in Assets /\ p.positions[a] \in OpenPositions
    BY <1>0, BooksAreFinite
  <2>3. p.positions[a].current_dt \in Nat /\ p.positions[a].current_dt <= c.current_dt
    BY <1>0, <1>3, <2>2 DEF mark_too_early, OpenPositions, PositionRows
  <2>4. prices[a] # NaN
    BY <1>0, <2>2, <2>3 DEF Priced, Marked
  <2>5. prices[a] \in Int /\ <<a, c.current_dt>> \in K
    BY <2>2, <2>4, BacktestAssumption DEF Priced
  <2>6. /\ q \in PortfolioRows /\ SameBooks(p, q)
        /\ q.positions[a].current_dt = c.current_dt
        /\ \A x \in DOMAIN p.positions : x # a => q.positions[x] = p.positions[x]
    BY <1>0, <2>5, MarkKeeps
  <2> HIDE DEF q
  <2>7. Marked(q, K)
    BY <1>0, <2>5, <2>6 DEF Marked, SameBooks
  <2> HIDE DEF p
  <2>8. /\ SoundBroker(d, K)
        /\ d.cash_balance = c.cash_balance /\ d.portfolio_ids = c.portfolio_ids
        /\ d.open_orders = c.open_orders /\ d.current_dt = c.current_dt /\ d.raised = c.raised
        /\ DOMAIN d.portfolios = DOMAIN c.portfolios /\ d.portfolios[id] = q
        /\ \A i \in DOMAIN c.portfolios : i # id => d.portfolios[i] = c.portfolios[i]
    <3> HIDE DEF d
    <3> QED  BY <2>1, <2>6, <2>7, WithPortfolio
  <2> HIDE DEF d
  <2>9. OnlyMarked(c, d)
    <3>1. \A r : SameBooks(r, r)
      BY DEF SameBooks
    <3>2. \A i \in DOMAIN c.portfolios : SameBooks(c.portfolios[i], d.portfolios[i])
      BY <2>6, <2>8, <3>1 DEF p
    <3>3. ASSUME Timely(c) PROVE Timely(d)
      <4> SUFFICES ASSUME NEW i \in DOMAIN d.portfolios
                   PROVE  /\ d.portfolios[i].current_dt <= d.current_dt
                          /\ \A x \in DOMAIN d.portfolios[i].positions :
                               d.portfolios[i].positions[x].current_dt <= d.current_dt
        BY DEF Timely
      <4>1. CASE i # id
        BY <2>8, <3>3, <4>1 DEF Timely
      <4>2. CASE i = id
        <5>1. /\ p.current_dt <= c.current_dt /\ c.current_dt <= c.current_dt
              /\ \A x \in DOMAIN p.positions : p.positions[x].current_dt <= c.current_dt
          BY <1>0, <3>3 DEF Timely, p
        <5>2. q.current_dt = p.current_dt /\ DOMAIN q.positions = DOMAIN p.positions
          BY <2>6 DEF SameBooks
        <5> QED  BY <2>6, <2>8, <4>2, <5>1, <5>2
      <4> QED  BY <4>1, <4>2
    <3> QED  BY <2>8, <3>2, <3>3 DEF OnlyMarked
  <2> QED  BY <2>8, <2>9 DEF d
<1> QED  BY <1>1, <1>2, <1>3

(* Marking one portfolio.                                                  *)
LEMMA MarkPortfolioKeeps ==
  ASSUME NEW K, NEW b, SoundBroker(b, K), NEW id \in DOMAIN b.portfolios, NEW prices,
         Priced(prices, K, b.current_dt)
  PROVE  /\ SoundBroker(mark_portfolio(b, id, prices), K)
         /\ OnlyMarked(b, mark_portfolio(b, id, prices))
<1> DEFINE S == DOMAIN b.portfolios[id].positions
           assets == SetToSeq(S)
           n == Cardinality(S)
           V == {c \in BrokerRows : SoundBroker(c, K) /\ OnlyMarked(b, c)}
<1>1. b \in BrokerRows /\ b.portfolios[id] \in PortfolioRows
  BY BrokerFacts DEF SoundBroker
<1>2. IsFiniteSet(S)
  BY <1>1, BooksAreFinite
<1>3. n \in Nat /\ DOMAIN assets = 1..n /\ \A i \in 1..n : assets[i] \in S
  BY <1>2, SetToSeqIs
<1>4. b \in V
  BY <1>1, RaiseKeeps
<1>5. ASSUME NEW v \in V, NEW i \in 1..n PROVE mark_asset(v, id, assets[i], prices) \in V
  <2>1. SoundBroker(v, K) /\ OnlyMarked(b, v)
    OBVIOUS
  <2>2. /\ id \in DOMAIN v.portfolios /\ assets[i] \in DOMAIN v.portfolios[id].positions
        /\ v.current_dt = b.current_dt
    BY <1>3, <2>1 DEF OnlyMarked, SameBooks
  <2> DEFINE d == mark_asset(v, id, assets[i], prices)
  <2>3. SoundBroker(d, K) /\ OnlyMarked(v, d)
    BY <2>1, <2>2, MarkAssetKeeps
  <2> HIDE DEF d
  <2>4. OnlyMarked(b, d) /\ d \in BrokerRows
    BY <2>1, <2>3, OnlyMarkedTrans DEF SoundBroker
  <2>5. d \in V
    BY <2>3, <2>4
  <2> QED  BY <2>5 DEF d
<1>6. /\ DOMAIN ToMark(b, id) = 1..n /\ n \in Nat
      /\ \A v \in V, i \in 1..n : mark_asset(v, id, ToMark(b, id)[i], prices) \in V
  BY <1>3, <1>5 DEF ToMark
<1> HIDE DEF V, n, assets, S
<1>7. mark_portfolio(b, id, prices) \in V
  BY <1>4, <1>6, MarkStays
<1> QED  BY <1>7 DEF V

(* Marking all of them.                                                    *)
LEMMA MarkPortfoliosKeep ==
  ASSUME NEW K, NEW b, SoundBroker(b, K), NEW prices, Priced(prices, K, b.current_dt)
  PROVE  /\ SoundBroker(mark_portfolios(b, prices), K)
         /\ OnlyMarked(b, mark_portfolios(b, prices))
<1> DEFINE n == Len(b.portfolio_ids)
           V == {c \in BrokerRows : SoundBroker(c, K) /\ OnlyMarked(b, c)}
<1>1. b \in BrokerRows /\ SameKeys(b)
  BY DEF SoundBroker
<1>3. n \in Nat /\ DOMAIN b.portfolio_ids = 1..n
      /\ \A i \in 1..n : b.portfolio_ids[i] \in DOMAIN b.portfolios
  BY <1>1, KeysAre
<1>4. b \in V
  BY <1>1, RaiseKeeps
<1>5. ASSUME NEW v \in V, NEW i \in 1..n PROVE mark_portfolio(v, b.portfolio_ids[i], prices) \in V
  <2>1. SoundBroker(v, K) /\ OnlyMarked(b, v)
    OBVIOUS
  <2>2. b.portfolio_ids[i] \in DOMAIN v.portfolios /\ v.current_dt = b.current_dt
    BY <1>3, <2>1 DEF OnlyMarked
  <2> DEFINE d == mark_portfolio(v, b.portfolio_ids[i], prices)
  <2>3. SoundBroker(d, K) /\ OnlyMarked(v, d)
    BY <2>1, <2>2, MarkPortfolioKeeps
  <2> HIDE DEF d
  <2>4. OnlyMarked(b, d) /\ d \in BrokerRows
    BY <2>1, <2>3, OnlyMarkedTrans DEF SoundBroker
  <2>5. d \in V
    BY <2>3, <2>4
  <2> QED  BY <2>5 DEF d
<1> HIDE DEF V, n
<1>6. mark_portfolios(b, prices) \in V
  BY <1>3, <1>4, <1>5, MarksStay
<1> QED  BY <1>6 DEF V

---------------------------------------------------------------------------
(* The broker: executing an order.                                         *)

(* Nothing was paid in or out between b and c.                             *)
SameFunds(b, c) ==
  /\ c.cash_balance = b.cash_balance /\ c.portfolio_ids = b.portfolio_ids
  /\ DOMAIN c.portfolios = DOMAIN b.portfolios
  /\ \A id \in DOMAIN b.portfolios : PaidIn(c.portfolios[id]) = PaidIn(b.portfolios[id])

(* What a portfolio holds of an asset.                                     *)
HeldIn(b, id, a) == held(b.portfolios[id].positions, a)

(* What an order adds to a holding.                                        *)
Share(id, order, i, a) == IF i = id /\ a = order.asset THEN order.quantity ELSE 0

(* d is c after one order was executed, or an exception.                   *)
Executed(c, d, id, order, prices) ==
  /\ SameFunds(c, d) /\ d.open_orders = c.open_orders /\ d.current_dt = c.current_dt
  /\ ~d.raised => ~c.raised /\ \A i \in DOMAIN c.portfolios, a \in Assets :
                    HeldIn(d, i, a) = HeldIn(c, i, a) + Share(id, order, i, a)
  /\ Timely(c) => Timely(d)
  /\ Timely(c) /\ ~c.raised /\ prices[order.asset] # NaN => ~d.raised

(* A rounded consideration is whole, not negative unless the exact one is, *)
(* and off by at most half a unit of the currency.                         *)
LEMMA RoundedIs ==
  ASSUME NEW n \in Int
  PROVE  /\ rounded(n) \in Int
         /\ rounded(n) <= n + PriceUnit \div 2
         /\ n >= 0 => rounded(n) >= 0
<1> DEFINE P == PriceUnit
           w == n \div P
           m == n % P
           down == 2 * m < P \/ (2 * m = P /\ w % 2 = 0)
           k == IF down THEN w ELSE w + 1
<1>1. P \in Nat \ {0}
  BY PriceAssumption
<1>2. rounded(n) = P * k /\ PriceUnit \div 2 = P \div 2
  BY DEF rounded
<1> HIDE DEF P
<1>3. w \in Int /\ m \in 0..(P - 1) /\ n = P * w + m /\ P * w \in Int
  BY <1>1
<1>4. n >= 0 => w >= 0
  BY <1>1
<1>5. P \div 2 \in Nat /\ 2 * (P \div 2) <= P /\ P <= 2 * (P \div 2) + 1
  BY <1>1
<1> HIDE DEF w, m
<1>6. CASE down
  <2>1. k = w
    BY <1>6
  <2>2. w >= 0 => P * w >= 0
    BY <1>1, <1>3
  <2>3. rounded(n) = P * w
    BY <1>2, <2>1
  <2> HIDE DEF k, down
  <2> QED  BY <1>1, <1>2, <1>3, <1>4, <1>5, <2>2, <2>3
<1>7. CASE ~down
  <2>1. k = w + 1 /\ 2 * m >= P
    BY <1>1, <1>3, <1>7
  <2>2. P * (w + 1) = P * w + P
    BY <1>1, <1>3
  <2>3. P - m <= P \div 2
    BY <1>1, <1>3, <1>5, <2>1
  <2>4. w >= 0 => P * w >= 0
    BY <1>1, <1>3
  <2>5. rounded(n) = P * w + P
    BY <1>2, <2>1, <2>2
  <2> HIDE DEF k, down
  <2> QED  BY <1>1, <1>2, <1>3, <1>4, <1>5, <2>3, <2>4, <2>5
<1> QED  BY <1>6, <1>7

(* A fee is whole.                                                         *)
LEMMA FeeIsInt ==
  ASSUME NEW q \in Int, NEW x \in Int
  PROVE  calc_total_cost(q, x) \in Int
<1>1. commission_pct \in Int /\ tax_pct \in Int /\ Abs(x) \in Int
  BY FeeAssumption DEF Abs
<1>2. commission_pct * Abs(x) \in Int /\ tax_pct * Abs(x) \in Int
  BY <1>1
<1> QED  BY <1>2 DEF calc_total_cost, calc_commission, calc_tax

(* Holdings are whole.                                                     *)
LEMMA HeldIsInt ==
  ASSUME NEW b \in BrokerRows, NEW id \in DOMAIN b.portfolios, NEW a
  PROVE  HeldIn(b, id, a) \in Int
<1> DEFINE ps == b.portfolios[id].positions
<1>1. b.portfolios[id] \in PortfolioRows
  BY BrokerFacts
<1>2. ps \in [DOMAIN ps -> OpenPositions]
  BY <1>1, BooksAreFinite
<1> HIDE DEF ps
<1>3. held(ps, a) \in Int
  BY <1>2 DEF held, net_quantity, OpenPositions, PositionRows
<1> QED  BY <1>3 DEF HeldIn, ps

(* Nothing was paid between a broker and itself.                           *)
LEMMA SameFundsRefl == \A b : SameFunds(b, b)
  BY DEF SameFunds

(* Nothing, twice, is nothing.                                             *)
LEMMA SameFundsTrans ==
  ASSUME NEW b, NEW c, NEW d, SameFunds(b, c), SameFunds(c, d)
  PROVE  SameFunds(b, d)
  BY DEF SameFunds

(* Marking pays nothing and trades nothing.                                *)
LEMMA MarkingKeepsFunds ==
  ASSUME NEW K, NEW b, SoundBroker(b, K), NEW c, OnlyMarked(b, c)
  PROVE  /\ SameFunds(b, c)
         /\ \A id \in DOMAIN b.portfolios, a \in Assets : HeldIn(c, id, a) = HeldIn(b, id, a)
<1>1. \A id \in DOMAIN b.portfolios : b.portfolios[id] \in PortfolioRows
  BY BrokerFacts DEF SoundBroker
<1>2. ASSUME NEW id \in DOMAIN b.portfolios
      PROVE  /\ PaidIn(c.portfolios[id]) = PaidIn(b.portfolios[id])
             /\ \A a \in Assets : HeldIn(c, id, a) = HeldIn(b, id, a)
  BY <1>1, SameBooksSamePaid DEF OnlyMarked, HeldIn
<1> QED  BY <1>2 DEF SameFunds, OnlyMarked

(* _execute_order pays nothing in or out, adds its quantity to what is     *)
(* held, and raises only without a price or before the portfolio's time.   *)
LEMMA ExecuteOrderKeeps ==
  ASSUME NEW K, NEW c, SoundBroker(c, K), NEW id \in DOMAIN c.portfolios, NEW order \in OrderRows,
         NEW prices, Priced(prices, K, c.current_dt)
  PROVE  /\ SoundBroker(execute_order(c, id, order, prices), K)
         /\ Executed(c, execute_order(c, id, order, prices), id, order, prices)
<1> DEFINE p == c.portfolios[id]
           d == execute_order(c, id, order, prices)
           x == prices[order.asset]
           txn == [asset |-> order.asset, quantity |-> order.quantity, price |-> x,
                   dt |-> c.current_dt, commission |-> calc_total_cost(order.quantity, rounded(x * order.quantity))]
           q == transact_asset(p, txn)
<1>0. c \in BrokerRows /\ p \in PortfolioRows /\ Marked(p, K) /\ c.current_dt \in Nat
  BY BrokerFacts DEF SoundBroker
<1>1. order.asset \in Assets /\ order.quantity \in Int \ {0}
  BY DEF OrderRows
<1>2. CASE c.raised
  <2>1. d = c
    BY <1>2 DEF execute_order
  <2> QED  BY <1>2, <2>1, SameFundsRefl DEF Executed
<1>3. CASE ~c.raised /\ (x = NaN \/ too_early(p, c.current_dt))
  <2>1. d = Raise(c)
    BY <1>3 DEF execute_order
  <2>2. SoundBroker(d, K) /\ SameFunds(c, d) /\ d.raised /\ (Timely(c) => Timely(d))
        /\ d.open_orders = c.open_orders /\ d.current_dt = c.current_dt
    BY <2>1, RaiseKeeps DEF SameFunds, Timely
  <2>3. p.current_dt \in Nat
    BY <1>0, BooksAreFinite
  <2>4. ~(Timely(c) /\ ~c.raised /\ prices[order.asset] # NaN)
    BY <1>0, <1>3, <2>3 DEF too_early, Timely
  <2> HIDE DEF d
  <2>5. Executed(c, d, id, order, prices)
    BY <2>2, <2>4 DEF Executed
  <2> QED  BY <2>2, <2>5 DEF d
<1>4. CASE ~c.raised /\ ~(x = NaN \/ too_early(p, c.current_dt))
  <2>1. d = [c EXCEPT !.portfolios[id] = q]
    BY <1>4 DEF execute_order
  <2>2. x \in Int /\ <<order.asset, c.current_dt>> \in K
    BY <1>1, <1>4, BacktestAssumption DEF Priced
  <2>3. txn \in Txns
    <3>1. x * order.quantity \in Int
      BY <1>1, <2>2
    <3>2. rounded(x * order.quantity) \in Int
      BY <3>1, RoundedIs
    <3>3. calc_total_cost(order.quantity, rounded(x * order.quantity)) \in Int
      BY <1>1, <3>2, FeeIsInt
    <3> QED  BY <1>0, <1>1, <2>2, <3>3 DEF Txns
  <2>4. txn.asset = order.asset /\ txn.quantity = order.quantity /\ txn.dt = c.current_dt
    OBVIOUS
  <2> HIDE DEF txn, x
  <2>5. /\ q \in PortfolioRows /\ PaidIn(q) = PaidIn(p) /\ q.current_dt = txn.dt
        /\ \A a : held(q.positions, a) = held(p.positions, a)
                     + (IF a = txn.asset THEN txn.quantity ELSE 0)
        /\ \A a \in DOMAIN q.positions : a # txn.asset =>
             a \in DOMAIN p.positions /\ q.positions[a] = p.positions[a]
        /\ txn.asset \in DOMAIN q.positions => q.positions[txn.asset].current_dt = txn.dt
    <3>1. q = transact_asset(p, txn) /\ p \in PortfolioRows
      BY <1>0
    <3> HIDE DEF q, p
    <3>2. Transacted(p, txn, q)
      BY <2>3, <3>1, TransactKeeps
    <3> QED  BY <3>2 DEF Transacted
  <2> HIDE DEF q
  <2>6. Marked(q, K)
    BY <1>0, <2>2, <2>4, <2>5 DEF Marked
  <2>7. /\ SoundBroker(d, K)
        /\ d.cash_balance = c.cash_balance /\ d.portfolio_ids = c.portfolio_ids
        /\ d.open_orders = c.open_orders /\ d.current_dt = c.current_dt /\ d.raised = c.raised
        /\ DOMAIN d.portfolios = DOMAIN c.portfolios /\ d.portfolios[id] = q
        /\ \A i \in DOMAIN c.portfolios : i # id => d.portfolios[i] = c.portfolios[i]
    <3> HIDE DEF d
    <3> QED  BY <2>1, <2>5, <2>6, WithPortfolio
  <2> HIDE DEF d
  <2>8. SameFunds(c, d)
    BY <2>5, <2>7 DEF SameFunds
  <2>9. ASSUME Timely(c) PROVE Timely(d)
    <3> SUFFICES ASSUME NEW i \in DOMAIN d.portfolios
                 PROVE  /\ d.portfolios[i].current_dt <= d.current_dt
                        /\ \A y \in DOMAIN d.portfolios[i].positions :
                             d.portfolios[i].positions[y].current_dt <= d.current_dt
      BY DEF Timely
    <3>1. CASE i # id
      BY <2>7, <2>9, <3>1 DEF Timely
    <3>2. CASE i = id
      <4>1. /\ c.current_dt <= c.current_dt
            /\ \A y \in DOMAIN p.positions : p.positions[y].current_dt <= c.current_dt
        BY <1>0, <2>9 DEF Timely
      <4>2. \A y \in DOMAIN q.positions : q.positions[y].current_dt <= c.current_dt
        BY <2>4, <2>5, <4>1
      <4> QED  BY <2>4, <2>5, <2>7, <3>2, <4>1, <4>2
    <3> QED  BY <3>1, <3>2
  <2>10. ASSUME NEW i \in DOMAIN c.portfolios, NEW a \in Assets
         PROVE  HeldIn(d, i, a) = HeldIn(c, i, a) + Share(id, order, i, a)
    <3>1. CASE i = id
      BY <2>4, <2>5, <2>7, <3>1 DEF HeldIn, Share
    <3>2. CASE i # id
      <4>1. HeldIn(d, i, a) = HeldIn(c, i, a) /\ Share(id, order, i, a) = 0
        BY <2>7, <3>2 DEF HeldIn, Share
      <4>2. HeldIn(c, i, a) \in Int
        BY <1>0, HeldIsInt
      <4> QED  BY <4>1, <4>2
    <3> QED  BY <3>1, <3>2
  <2>11. Executed(c, d, id, order, prices)
    BY <1>4, <2>7, <2>8, <2>9, <2>10 DEF Executed
  <2> QED  BY <2>7, <2>11 DEF d
<1> QED  BY <1>2, <1>3, <1>4

---------------------------------------------------------------------------
(* The broker: draining the queues, sells before buys.                     *)

(* An entry of a drain: an order and the portfolio it was submitted to.    *)
Entries == [id : Ids, order : OrderRows]

(* The share of each entry.                                                *)
Shares(s, id, a) == [i \in 1..Len(s) |-> Share(s[i].id, s[i].order, id, a)]

(* What the entries add to the holding of an asset in a portfolio.         *)
Total(s, id, a) == SumFunctionOnSet(Shares(s, id, a), 1..Len(s))

(* An entry's share is whole.                                              *)
LEMMA ShareAt ==
  ASSUME NEW s \in Seq(Entries), NEW id, NEW a, NEW i \in 1..Len(s)
  PROVE  /\ Shares(s, id, a)[i] = Share(s[i].id, s[i].order, id, a)
         /\ Shares(s, id, a)[i] \in Int
<1>1. s[i] \in Entries
  OBVIOUS
<1>2. Share(s[i].id, s[i].order, id, a) \in Int
  BY <1>1 DEF Share, Entries, OrderRows
<1>3. Shares(s, id, a)[i] = Share(s[i].id, s[i].order, id, a)
  BY DEF Shares
<1> QED  BY <1>2, <1>3

(* So is their total.                                                      *)
LEMMA TotalIsInt ==
  ASSUME NEW s \in Seq(Entries), NEW id, NEW a
  PROVE  Total(s, id, a) \in Int
<1>1. Len(s) \in Nat /\ IsFiniteSet(1..Len(s))
  BY FS_Interval
<1>2. \A i \in 1..Len(s) : Shares(s, id, a)[i] \in Int
  BY ShareAt
<1> QED  BY <1>1, <1>2, SumInt DEF Total

(* The total of two drains.                                                *)
LEMMA TotalConcat ==
  ASSUME NEW s \in Seq(Entries), NEW t \in Seq(Entries), NEW id, NEW a
  PROVE  Total(s \o t, id, a) = Total(s, id, a) + Total(t, id, a)
<1> DEFINE u == s \o t
           m == Len(s)
           n == Len(t)
           f == Shares(s, id, a)
           g == Shares(t, id, a)
           h == Shares(u, id, a)
<1>1. /\ u \in Seq(Entries) /\ Len(u) = m + n /\ m \in Nat /\ n \in Nat
      /\ \A i \in 1..m : i \in 1..Len(u) /\ u[i] = s[i]
      /\ \A i \in 1..n : m + i \in 1..Len(u) /\ u[m + i] = t[i]
  OBVIOUS
<1> HIDE DEF u
<1>2. ASSUME NEW i \in 1..m PROVE f[i] \in Int /\ h[i] = f[i]
  <2>1. f[i] \in Int /\ f[i] = Share(s[i].id, s[i].order, id, a)
    BY ShareAt
  <2>2. h[i] = Share(u[i].id, u[i].order, id, a)
    BY <1>1, ShareAt
  <2> QED  BY <1>1, <2>1, <2>2
<1>3. ASSUME NEW i \in 1..n PROVE g[i] \in Int /\ h[m + i] = g[i]
  <2>1. g[i] \in Int /\ g[i] = Share(t[i].id, t[i].order, id, a)
    BY ShareAt
  <2>2. h[m + i] = Share(u[m + i].id, u[m + i].order, id, a)
    BY <1>1, ShareAt
  <2> QED  BY <1>1, <2>1, <2>2
<1>t. /\ Total(s, id, a) = SumFunctionOnSet(f, 1..m) /\ Total(t, id, a) = SumFunctionOnSet(g, 1..n)
      /\ Total(u, id, a) = SumFunctionOnSet(h, 1..(m + n))
  BY <1>1 DEF Total
<1> HIDE DEF f, g, h, m, n
<1>4. SumFunctionOnSet(h, 1..(m + n)) = SumFunctionOnSet(f, 1..m) + SumFunctionOnSet(g, 1..n)
  <2>1. Joined(h, f, m, g, n)
    BY <1>2, <1>3 DEF Joined
  <2> QED  BY <1>1, <2>1, SumConcat
<1> QED  BY <1>t, <1>4 DEF u

(* The total of one entry.                                                 *)
LEMMA TotalOfOne ==
  ASSUME NEW o \in Entries, NEW id, NEW a
  PROVE  Total(<<o>>, id, a) = Share(o.id, o.order, id, a)
<1> DEFINE s == <<o>>
           f == Shares(s, id, a)
<1>1. s \in Seq(Entries) /\ Len(s) = 1 /\ s[1] = o
  OBVIOUS
<1> HIDE DEF s
<1>2. f[1] = Share(o.id, o.order, id, a) /\ f[1] \in Int
  <2>1. 1 \in 1..Len(s)
    BY <1>1
  <2>2. f[1] = Share(s[1].id, s[1].order, id, a) /\ f[1] \in Int
    BY <1>1, <2>1, ShareAt
  <2> QED  BY <1>1, <2>2
<1>3. Total(s, id, a) = SumFunctionOnSet(f, 1..1)
  BY <1>1 DEF Total
<1> HIDE DEF f
<1>4. SumFunctionOnSet(f, 1..1) = SumFunctionOnSet(f, 1..0) + f[1]
  <2>1. \A i \in 1..1 : f[i] \in Int
    BY <1>2
  <2>2. 1 \in Nat \ {0} /\ 1 - 1 = 0
    OBVIOUS
  <2> QED  BY <2>1, <2>2, SumPrefix
<1>5. SumFunctionOnSet(f, 1..0) = 0
  <2>1. 1..0 = {}
    OBVIOUS
  <2> QED  BY <2>1, SumEmpty
<1> QED  BY <1>2, <1>3, <1>4, <1>5 DEF s

(* The total of none.                                                      *)
LEMMA TotalOfNone == ASSUME NEW id, NEW a PROVE Total(<<>>, id, a) = 0
<1>1. 1..Len(<<>>) = {}
  OBVIOUS
<1> QED  BY <1>1, SumEmpty DEF Total

(* The entries a drain can meet.                                           *)
Queued(b) ==
  {o \in Entries : o.id \in DOMAIN b.portfolios /\ o.order \in Range(b.open_orders[o.id])}

(* What a queue is.                                                        *)
LEMMA QueueFacts ==
  ASSUME NEW K, NEW b, SoundBroker(b, K), NEW id \in DOMAIN b.portfolios
  PROVE  /\ b.open_orders[id] \in Seq(OrderRows) /\ id \in Ids
         /\ DOMAIN b.open_orders[id] = 1..Len(b.open_orders[id]) /\ Len(b.open_orders[id]) \in Nat
<1>1. /\ b \in BrokerRows /\ DOMAIN b.open_orders = DOMAIN b.portfolios
  BY DEF SoundBroker, SameKeys
<1>2. b.open_orders[id] \in Seq(OrderRows) /\ id \in Ids
  BY <1>1, BrokerFacts
<1> QED  BY <1>2

(* A queue's entries add what the queue adds, in its portfolio alone.      *)
LEMMA QueueOf ==
  ASSUME NEW K, NEW b, SoundBroker(b, K), NEW id \in DOMAIN b.portfolios, NEW s, s = queue_of(b, id)
  PROVE  /\ s \in Seq(Queued(b)) /\ s \in Seq(Entries)
         /\ \A i \in DOMAIN b.portfolios, a \in Assets :
              Total(s, i, a) = IF i = id THEN queued(b.open_orders[id], a) ELSE 0
<1> DEFINE q == b.open_orders[id]
           n == Len(q)
<1>1. q \in Seq(OrderRows) /\ id \in Ids /\ DOMAIN q = 1..n /\ n \in Nat
  BY QueueFacts
<1>2. s = [j \in 1..n |-> [id |-> id, order |-> q[j]]]
  BY <1>1 DEF queue_of
<1>3. ASSUME NEW j \in 1..n
      PROVE  s[j] = [id |-> id, order |-> q[j]] /\ s[j] \in Entries /\ s[j] \in Queued(b)
             /\ s[j].id = id /\ s[j].order = q[j]
  <2>1. q[j] \in OrderRows /\ q[j] \in Range(q)
    BY <1>1 DEF Range
  <2>2. s[j] = [id |-> id, order |-> q[j]]
    BY <1>2
  <2>3. s[j].id = id /\ s[j].order = q[j]
    BY <2>2
  <2>4. s[j] \in Entries
    BY <1>1, <2>1, <2>2 DEF Entries
  <2> QED  BY <2>1, <2>2, <2>3, <2>4 DEF Queued
<1>4. s \in [1..n -> Queued(b)] /\ s \in [1..n -> Entries]
  BY <1>2, <1>3
<1>5. s \in Seq(Queued(b)) /\ s \in Seq(Entries) /\ Len(s) = n
  BY <1>1, <1>4
<1>6. ASSUME NEW i \in DOMAIN b.portfolios, NEW a \in Assets
      PROVE  Total(s, i, a) = IF i = id THEN queued(b.open_orders[id], a) ELSE 0
  <2> DEFINE f == Shares(s, i, a)
             g == [j \in 1..n |-> IF q[j].asset = a THEN q[j].quantity ELSE 0]
  <2>1. IsFiniteSet(1..n)
    BY <1>1, FS_Interval
  <2>2. ASSUME NEW j \in 1..n
        PROVE  f[j] \in Int /\ f[j] = IF i = id THEN g[j] ELSE 0
    <3>1. f[j] \in Int /\ f[j] = Share(s[j].id, s[j].order, i, a)
      BY <1>5, ShareAt
    <3>2. f[j] = Share(id, q[j], i, a)
      BY <1>3, <3>1
    <3> QED  BY <3>1, <3>2 DEF Share
  <2>3. Total(s, i, a) = SumFunctionOnSet(f, 1..n)
    BY <1>5 DEF Total
  <2>4. queued(q, a) = SumFunctionOnSet(g, 1..n)
    BY <1>1 DEF queued, SumFunction
  <2> HIDE DEF f, g
  <2>5. CASE i = id
    <3>1. \A j \in 1..n : f[j] \in Int /\ f[j] = g[j]
      BY <2>2, <2>5
    <3>2. SumFunctionOnSet(f, 1..n) = SumFunctionOnSet(g, 1..n)
      BY <2>1, <3>1, SumCong
    <3> QED  BY <2>3, <2>4, <2>5, <3>2
  <2>6. CASE i # id
    <3>1. \A j \in 1..n : f[j] = 0
      BY <2>2, <2>6
    <3>2. SumFunctionOnSet(f, 1..n) = 0
      BY <2>1, <3>1, SumZero
    <3> QED  BY <2>3, <2>6, <3>2
  <2> QED  BY <2>5, <2>6
<1> QED  BY <1>5, <1>6

(* The drain has every queued order once, under its portfolio.             *)
LEMMA DrainHasAll ==
  ASSUME NEW K, NEW b, SoundBroker(b, K), NEW i \in DOMAIN b.portfolios, NEW a \in Assets
  PROVE  /\ drained_orders(b) \in Seq(Queued(b))
         /\ Total(drained_orders(b), i, a) = queued(b.open_orders[i], a)
<1> DEFINE ids == b.portfolio_ids
           n == Len(ids)
           all == queued(b.open_orders[i], a)
           Met(k) == \E j \in 1..k : ids[j] = i
           V == Seq(Queued(b))
           W == [k \in 0..n |-> {s \in V : Total(s, i, a) = IF Met(k) THEN all ELSE 0}]
<1>0. b \in BrokerRows /\ SameKeys(b)
  BY DEF SoundBroker
<1>1. n \in Nat /\ DOMAIN ids = 1..n /\ \A j \in 1..n : ids[j] \in DOMAIN b.portfolios
  BY <1>0, KeysAre
<1>2. Queued(b) \subseteq Entries
  BY DEF Queued
<1>3. all \in Int
  <2>1. queue_of(b, i) \in Seq(Entries) /\ Total(queue_of(b, i), i, a) = all
    BY QueueOf
  <2> QED  BY <2>1, TotalIsInt
<1>4. <<>> \in V /\ <<>> \in W[0]
  <2>1. <<>> \in V /\ Total(<<>>, i, a) = 0 /\ 0 \in 0..n /\ ~Met(0)
    BY <1>1, TotalOfNone
  <2> QED  BY <2>1
<1>5. ASSUME NEW s \in V, NEW k \in 1..n
      PROVE  /\ s \o queue_of(b, ids[k]) \in V
             /\ Total(s \o queue_of(b, ids[k]), i, a)
                  = Total(s, i, a) + (IF ids[k] = i THEN all ELSE 0)
  <2> DEFINE q == queue_of(b, ids[k])
  <2>1. /\ q \in Seq(Queued(b)) /\ q \in Seq(Entries)
        /\ Total(q, i, a) = IF i = ids[k] THEN queued(b.open_orders[ids[k]], a) ELSE 0
    BY <1>1, QueueOf
  <2>2. Total(q, i, a) = IF ids[k] = i THEN all ELSE 0
    BY <2>1
  <2> HIDE DEF q, all
  <2>3. s \in Seq(Entries)
    BY <1>2
  <2>4. s \o q \in V
    BY <2>1
  <2>5. Total(s \o q, i, a) = Total(s, i, a) + Total(q, i, a)
    BY <2>1, <2>3, TotalConcat
  <2> QED  BY <2>2, <2>4, <2>5 DEF q
<1>6. ASSUME NEW s \in V, NEW k \in 1..n, s \in W[k - 1]
      PROVE  s \o queue_of(b, ids[k]) \in W[k]
  <2>1. k - 1 \in 0..n /\ k \in 0..n
    BY <1>1
  <2>2. Total(s, i, a) = IF Met(k - 1) THEN all ELSE 0
    BY <1>6, <2>1
  <2>3. /\ ids[k] = i => Met(k) /\ ~Met(k - 1)
        /\ ids[k] # i => (Met(k) <=> Met(k - 1))
    <3>1. \A j, l \in 1..n : ids[j] = ids[l] => j = l
      BY <1>0 DEF SameKeys
    <3>2. \A j \in 1..k : j \in 1..n /\ (j = k \/ j \in 1..(k - 1))
      BY <1>1
    <3>3. \A j \in 1..(k - 1) : j \in 1..k /\ j # k
      BY <1>1
    <3>4. k \in 1..k
      BY <1>1
    <3> HIDE DEF n
    <3>5. ASSUME ids[k] = i PROVE Met(k) /\ ~Met(k - 1)
      BY <3>1, <3>2, <3>3, <3>4, <3>5
    <3>6. ASSUME ids[k] # i PROVE Met(k) <=> Met(k - 1)
      BY <3>2, <3>3, <3>6
    <3> QED  BY <3>5, <3>6
  <2> HIDE DEF Met, all
  <2>4. Total(s \o queue_of(b, ids[k]), i, a) = IF Met(k) THEN all ELSE 0
    <3>1. Total(s \o queue_of(b, ids[k]), i, a) = Total(s, i, a) + (IF ids[k] = i THEN all ELSE 0)
      BY <1>5
    <3>2. CASE ids[k] = i
      BY <1>3, <2>2, <2>3, <3>1, <3>2
    <3>3. CASE ids[k] # i
      <4>1. Total(s, i, a) \in Int
        BY <1>3, <2>2
      <4> QED  BY <2>2, <2>3, <3>1, <3>3, <4>1
    <3> QED  BY <3>2, <3>3
  <2> QED  BY <1>5, <2>1, <2>4
<1>7. drained_orders(b) \in V /\ drained_orders(b) \in W[n]
  <2>1. \A s \in V, k \in 1..n : s \o queue_of(b, b.portfolio_ids[k]) \in V
    BY <1>5
  <2>2. \A s \in V, k \in 1..n : s \in W[k - 1] => s \o queue_of(b, b.portfolio_ids[k]) \in W[k]
    BY <1>6
  <2>3. DOMAIN b.portfolio_ids = 1..n
    BY <1>1
  <2> HIDE DEF V, W, n
  <2> QED  BY <1>1, <1>4, <2>1, <2>2, <2>3, DrainFollows
<1>8. Met(n) /\ n \in 0..n
  <2>1. Met(n)
    BY <1>0, KeysAre
  <2>2. n \in 0..n
    <3> HIDE DEF n
    <3> QED  BY <1>1
  <2> QED  BY <2>1, <2>2
<1>9. Total(drained_orders(b), i, a) = all
  <2> HIDE DEF Met, all
  <2> QED  BY <1>7, <1>8
<1> QED  BY <1>7, <1>9

(* The drain has queued orders only.                                       *)
LEMMA DrainIsQueued ==
  ASSUME NEW K, NEW b, SoundBroker(b, K)
  PROVE  drained_orders(b) \in Seq(Queued(b))
<1> DEFINE V == Seq(Queued(b))
           n == Len(b.portfolio_ids)
<1>1. b \in BrokerRows /\ SameKeys(b)
  BY DEF SoundBroker
<1>2. n \in Nat /\ DOMAIN b.portfolio_ids = 1..n
      /\ \A j \in 1..n : b.portfolio_ids[j] \in DOMAIN b.portfolios
  BY <1>1, KeysAre
<1>3. <<>> \in V
  OBVIOUS
<1>4. ASSUME NEW s \in V, NEW k \in 1..n PROVE s \o queue_of(b, b.portfolio_ids[k]) \in V
  <2>1. queue_of(b, b.portfolio_ids[k]) \in V
    BY <1>2, QueueOf
  <2> QED  BY <2>1
<1> HIDE DEF V, n
<1>5. drained_orders(b) \in V
  BY <1>2, <1>3, <1>4, DrainStays
<1> QED  BY <1>5 DEF V

(* Does an entry go in the given direction?                                *)
Goes(o, sells) == (o.order.quantity < 0) = sells

(* The shares of the entries that go in a direction.                       *)
Going(orders, sells, i, a) ==
  [j \in 1..Len(orders) |-> IF Goes(orders[j], sells) THEN Shares(orders, i, a)[j] ELSE 0]

(* The entries of one direction add what they add in the whole drain.      *)
LEMMA OneDirection ==
  ASSUME NEW E, E \subseteq Entries, NEW orders \in Seq(E), NEW sells \in BOOLEAN, NEW i, NEW a
  PROVE  /\ of_direction(orders, sells) \in Seq(E)
         /\ Total(of_direction(orders, sells), i, a) =
              SumFunctionOnSet(Going(orders, sells, i, a), 1..Len(orders))
<1> DEFINE n == Len(orders)
           f == [j \in 1..n |-> IF Goes(orders[j], sells) THEN Shares(orders, i, a)[j] ELSE 0]
           V == Seq(E)
           W == [k \in 0..n |-> {s \in V : Total(s, i, a) = SumFunctionOnSet(f, 1..k)}]
<1>1. n \in Nat /\ DOMAIN orders = 1..n /\ orders \in Seq(Entries)
  OBVIOUS
<1>2. ASSUME NEW j \in 1..n PROVE f[j] \in Int /\ orders[j] \in E /\ orders[j] \in Entries
      /\ f[j] = IF Goes(orders[j], sells) THEN Share(orders[j].id, orders[j].order, i, a) ELSE 0
  <2>1. /\ Shares(orders, i, a)[j] \in Int
        /\ Shares(orders, i, a)[j] = Share(orders[j].id, orders[j].order, i, a)
    BY <1>1, ShareAt
  <2>2. orders[j] \in E
    OBVIOUS
  <2> QED  BY <2>1, <2>2
<1>3. <<>> \in V /\ <<>> \in W[0]
  <2>1. SumFunctionOnSet(f, 1..0) = 0
    <3>1. 1..0 = {}
      OBVIOUS
    <3> HIDE DEF f
    <3> QED  BY <3>1, SumEmpty
  <2> HIDE DEF f
  <2>2. <<>> \in V /\ Total(<<>>, i, a) = 0 /\ 0 \in 0..n
    BY <1>1, TotalOfNone
  <2> QED  BY <2>1, <2>2
<1>4. ASSUME NEW s \in V, NEW k \in 1..n
      PROVE  /\ with_direction(s, orders[k], sells) \in V
             /\ Total(with_direction(s, orders[k], sells), i, a) = Total(s, i, a) + f[k]
  <2>0. s \in Seq(Entries) /\ Total(s, i, a) \in Int
    <3>1. s \in Seq(Entries)
      OBVIOUS
    <3> QED  BY <3>1, TotalIsInt
  <2> DEFINE o == orders[k]
  <2>1. o \in E /\ o \in Entries
    BY <1>2
  <2>2. CASE Goes(o, sells)
    <3>1. with_direction(s, o, sells) = Append(s, o)
      BY <2>2 DEF with_direction, Goes
    <3>2. Append(s, o) \in V /\ <<o>> \in Seq(Entries) /\ Append(s, o) = s \o <<o>>
      BY <2>0, <2>1, AppendIsConcat
    <3>3. Total(s \o <<o>>, i, a) = Total(s, i, a) + Total(<<o>>, i, a)
      <4> DEFINE one == <<o>>
      <4>1. one \in Seq(Entries)
        BY <3>2
      <4> HIDE DEF one, V, f
      <4>2. Total(s \o one, i, a) = Total(s, i, a) + Total(one, i, a)
        BY <2>0, <4>1, TotalConcat
      <4> QED  BY <4>2 DEF one
    <3>4. Total(<<o>>, i, a) = Share(o.id, o.order, i, a)
      BY <2>1, TotalOfOne
    <3>5. f[k] = Share(o.id, o.order, i, a)
      BY <1>2, <2>2
    <3> HIDE DEF o, f
    <3> QED  BY <3>1, <3>2, <3>3, <3>4, <3>5 DEF o
  <2>3. CASE ~Goes(o, sells)
    <3>1. with_direction(s, o, sells) = s
      BY <2>3 DEF with_direction, Goes
    <3>2. f[k] = 0
      BY <1>2, <2>3
    <3> QED  BY <2>0, <3>1, <3>2
  <2> QED  BY <2>2, <2>3
<1>5. ASSUME NEW s \in V, NEW k \in 1..n, s \in W[k - 1]
      PROVE  with_direction(s, orders[k], sells) \in W[k]
  <2>1. k - 1 \in 0..n /\ k \in 0..n /\ k \in Nat \ {0} /\ \A j \in 1..k : j \in 1..n
    BY <1>1
  <2>2. Total(s, i, a) = SumFunctionOnSet(f, 1..(k - 1))
    BY <1>5, <2>1
  <2>3. SumFunctionOnSet(f, 1..k) = SumFunctionOnSet(f, 1..(k - 1)) + f[k]
    <3>1. \A j \in 1..k : f[j] \in Int
      BY <1>2, <2>1
    <3> HIDE DEF f
    <3> QED  BY <2>1, <3>1, SumPrefix
  <2> HIDE DEF f
  <2>4. Total(with_direction(s, orders[k], sells), i, a) = SumFunctionOnSet(f, 1..k)
    BY <1>4, <2>2, <2>3
  <2> QED  BY <1>4, <2>1, <2>4
<1>6. of_direction(orders, sells) \in V /\ of_direction(orders, sells) \in W[n]
  <2>1. \A s \in V, k \in 1..n : with_direction(s, orders[k], sells) \in V
    BY <1>4
  <2>2. \A s \in V, k \in 1..n : s \in W[k - 1] => with_direction(s, orders[k], sells) \in W[k]
    BY <1>5
  <2> HIDE DEF V, W, n
  <2> QED  BY <1>1, <1>3, <2>1, <2>2, DirectionFollows
<1>7. Total(of_direction(orders, sells), i, a) = SumFunctionOnSet(f, 1..n)
  <2>1. n \in 0..n
    BY <1>1
  <2> HIDE DEF f
  <2> QED  BY <1>6, <2>1
<1> QED  BY <1>6, <1>7 DEF Going

(* Sorting by direction loses nothing.                                     *)
LEMMA SortKeeps ==
  ASSUME NEW E, E \subseteq Entries, NEW orders \in Seq(E)
  PROVE  /\ sells_then_buys(orders) \in Seq(E)
         /\ \A i, a : Total(sells_then_buys(orders), i, a) = Total(orders, i, a)
<1> DEFINE s == of_direction(orders, TRUE)
           t == of_direction(orders, FALSE)
           n == Len(orders)
<1>1. s \in Seq(E) /\ t \in Seq(E) /\ sells_then_buys(orders) = s \o t
  BY OneDirection DEF sells_then_buys
<1>2. ASSUME NEW i, NEW a PROVE Total(s \o t, i, a) = Total(orders, i, a)
  <2> DEFINE h == Shares(orders, i, a)
             f == Going(orders, TRUE, i, a)
             g == Going(orders, FALSE, i, a)
  <2>1. Total(s, i, a) = SumFunctionOnSet(f, 1..n) /\ Total(t, i, a) = SumFunctionOnSet(g, 1..n)
    <3>1. Total(s, i, a) = SumFunctionOnSet(f, 1..n)
      BY OneDirection
    <3>2. Total(t, i, a) = SumFunctionOnSet(g, 1..n)
      BY OneDirection
    <3> QED  BY <3>1, <3>2
  <2>2. Total(orders, i, a) = SumFunctionOnSet(h, 1..n)
    BY DEF Total
  <2>3. n \in Nat /\ IsFiniteSet(1..n) /\ orders \in Seq(Entries)
    BY FS_Interval
  <2>4. ASSUME NEW j \in 1..n PROVE f[j] \in Int /\ g[j] \in Int /\ h[j] = f[j] + g[j]
    <3>1. h[j] \in Int
      BY <2>3, ShareAt
    <3>2. Goes(orders[j], TRUE) <=> ~Goes(orders[j], FALSE)
      BY DEF Goes
    <3>3. /\ f[j] = (IF Goes(orders[j], TRUE) THEN h[j] ELSE 0)
          /\ g[j] = (IF Goes(orders[j], FALSE) THEN h[j] ELSE 0)
      BY DEF Going
    <3> HIDE DEF f, g, h
    <3>4. CASE Goes(orders[j], TRUE)
      <4>1. f[j] = h[j] /\ g[j] = 0
        BY <3>2, <3>3, <3>4
      <4> QED  BY <3>1, <4>1
    <3>5. CASE ~Goes(orders[j], TRUE)
      <4>1. f[j] = 0 /\ g[j] = h[j]
        BY <3>2, <3>3, <3>5
      <4> QED  BY <3>1, <4>1
    <3> QED  BY <3>4, <3>5
  <2> HIDE DEF f, g, h
  <2>5. SumFunctionOnSet(h, 1..n) = SumFunctionOnSet(f, 1..n) + SumFunctionOnSet(g, 1..n)
    BY <2>3, <2>4, SumPlus
  <2>6. Total(s \o t, i, a) = Total(s, i, a) + Total(t, i, a)
    <3> HIDE DEF s, t
    <3>1. s \in Seq(Entries) /\ t \in Seq(Entries)
      BY <1>1
    <3> QED  BY <3>1, TotalConcat
  <2> QED  BY <2>1, <2>2, <2>5, <2>6
<1>3. s \o t \in Seq(E)
  <2> HIDE DEF s, t
  <2> QED  BY <1>1
<1> HIDE DEF s, t
<1> QED  BY <1>1, <1>2, <1>3

(* Every queued order's asset has a price.                                 *)
AllPriced(b, prices) ==
  \A id \in DOMAIN b.portfolios : \A o \in Range(b.open_orders[id]) : prices[o.asset] # NaN

(* c is b after its queues were drained and executed.                      *)
Settled(b, c, prices) ==
  /\ SameFunds(b, c) /\ c.current_dt = b.current_dt
  /\ DOMAIN c.open_orders = DOMAIN b.portfolios
  /\ \A id \in DOMAIN b.portfolios : c.open_orders[id] = <<>>
  /\ ~c.raised => \A id \in DOMAIN b.portfolios, a \in Assets :
       HeldIn(c, id, a) = HeldIn(b, id, a) + queued(b.open_orders[id], a)
  /\ Timely(b) => Timely(c)
  /\ Timely(b) /\ ~b.raised /\ AllPriced(b, prices) => ~c.raised

(* Emptying the queues changes nothing else.                               *)
LEMMA EmptiedIs ==
  ASSUME NEW K, NEW b, SoundBroker(b, K), NEW e, e = emptied(b)
  PROVE  /\ SoundBroker(e, K) /\ e.portfolios = b.portfolios /\ e.current_dt = b.current_dt
         /\ e.raised = b.raised /\ SameFunds(b, e) /\ DOMAIN e.open_orders = DOMAIN b.portfolios
         /\ \A id \in DOMAIN b.portfolios : e.open_orders[id] = <<>>
<1> DEFINE q == [id \in DOMAIN b.open_orders |-> <<>>]
<1>1. b \in BrokerRows /\ SameKeys(b)
  BY DEF SoundBroker
<1>2. DOMAIN b.open_orders \subseteq Ids
  BY <1>1, BrokerFacts
<1>3. q \in [DOMAIN b.open_orders -> Seq(OrderRows)] /\ DOMAIN q = DOMAIN b.portfolios
      /\ \A id \in DOMAIN b.portfolios : q[id] = <<>>
  BY <1>1 DEF SameKeys
<1>4. e = [b EXCEPT !.open_orders = q]
  BY DEF emptied
<1>5. q \in Partial(Ids, Seq(OrderRows))
  BY <1>2, <1>3, PartialIntro
<1> HIDE DEF q
<1>6. /\ e \in BrokerRows /\ e.open_orders = q /\ e.portfolios = b.portfolios
      /\ e.cash_balance = b.cash_balance /\ e.portfolio_ids = b.portfolio_ids
      /\ e.current_dt = b.current_dt /\ e.raised = b.raised
  BY <1>1, <1>4, <1>5 DEF BrokerRows
<1>7. SoundBroker(e, K)
  BY <1>1, <1>3, <1>6 DEF SoundBroker, SameKeys
<1> QED  BY <1>3, <1>6, <1>7 DEF SameFunds

(* A drain executes every queued order once or raises, and loses the       *)
(* queues either way; it does not raise if it is timely and all have       *)
(* prices.                                                                 *)
LEMMA ExecuteOpenKeeps ==
  ASSUME NEW K, NEW b, SoundBroker(b, K), NEW prices, Priced(prices, K, b.current_dt)
  PROVE  /\ SoundBroker(execute_open_orders(b, prices), K)
         /\ Settled(b, execute_open_orders(b, prices), prices)
<1> DEFINE e == emptied(b)
           todo == ToExecute(b)
           n == Len(todo)
           Fair(c) == /\ Timely(b) => Timely(c)
                      /\ Timely(b) /\ ~b.raised /\ AllPriced(b, prices) => ~c.raised
           V == {c \in BrokerRows : /\ SoundBroker(c, K) /\ SameFunds(b, c) /\ Fair(c)
                                    /\ c.open_orders = e.open_orders
                                    /\ c.current_dt = b.current_dt}
           Sums(k, id, a) == SumFunctionOnSet(Shares(todo, id, a), 1..k)
           Held(c, k) == \A id \in DOMAIN b.portfolios, a \in Assets :
                           HeldIn(c, id, a) = HeldIn(b, id, a) + Sums(k, id, a)
           W == [k \in 0..n |-> {c \in V : ~c.raised => Held(c, k)}]
<1>0. b \in BrokerRows
  BY DEF SoundBroker
<1>1. /\ SoundBroker(e, K) /\ e.portfolios = b.portfolios /\ e.current_dt = b.current_dt
      /\ e.raised = b.raised /\ SameFunds(b, e) /\ DOMAIN e.open_orders = DOMAIN b.portfolios
      /\ \A id \in DOMAIN b.portfolios : e.open_orders[id] = <<>>
  <2>1. e = emptied(b)
    OBVIOUS
  <2> HIDE DEF e
  <2> QED  BY <2>1, EmptiedIs
<1> HIDE DEF e
<1>2. drained_orders(b) \in Seq(Queued(b)) /\ Queued(b) \subseteq Entries
  BY DrainIsQueued DEF Queued
<1>3. todo \in Seq(Queued(b)) /\ todo \in Seq(Entries)
  <2>1. todo \in Seq(Queued(b))
    BY <1>2, SortKeeps DEF ToExecute
  <2> HIDE DEF todo
  <2> QED  BY <1>2, <2>1
<1>4. ASSUME NEW id \in DOMAIN b.portfolios, NEW a \in Assets
      PROVE  Total(todo, id, a) = queued(b.open_orders[id], a)
  <2>1. Total(drained_orders(b), id, a) = queued(b.open_orders[id], a)
    BY DrainHasAll
  <2> QED  BY <1>2, <2>1, SortKeeps DEF ToExecute
<1> HIDE DEF todo
<1>5. n \in Nat /\ DOMAIN todo = 1..n
  BY <1>3
<1>6. ASSUME NEW id \in DOMAIN b.portfolios, NEW a
      PROVE  /\ Sums(0, id, a) = 0 /\ Sums(n, id, a) = Total(todo, id, a)
             /\ HeldIn(b, id, a) \in Int
             /\ \A k \in 1..n : /\ Sums(k - 1, id, a) \in Int
                                /\ Share(todo[k].id, todo[k].order, id, a) \in Int
                                /\ Sums(k, id, a) = Sums(k - 1, id, a) + Share(todo[k].id, todo[k].order, id, a)
  <2> DEFINE f == Shares(todo, id, a)
  <2>1. \A j \in 1..n : f[j] \in Int /\ f[j] = Share(todo[j].id, todo[j].order, id, a)
    BY <1>3, ShareAt
  <2>2. Sums(n, id, a) = Total(todo, id, a)
    BY DEF Total
  <2> HIDE DEF f
  <2>3. SumFunctionOnSet(f, 1..0) = 0
    <3>1. 1..0 = {}
      OBVIOUS
    <3> QED  BY <3>1, SumEmpty
  <2>4. ASSUME NEW k \in 1..n
        PROVE  /\ SumFunctionOnSet(f, 1..(k - 1)) \in Int
               /\ SumFunctionOnSet(f, 1..k) = SumFunctionOnSet(f, 1..(k - 1)) + f[k]
    <3>1. k \in Nat \ {0} /\ k - 1 \in Nat /\ \A j \in 1..k : j \in 1..n
      BY <1>5
    <3>2. \A j \in 1..k : f[j] \in Int
      BY <2>1, <3>1
    <3>3. IsFiniteSet(1..(k - 1)) /\ \A j \in 1..(k - 1) : f[j] \in Int
      BY <3>1, <3>2, FS_Interval
    <3> QED  BY <3>1, <3>2, <3>3, SumPrefix, SumInt
  <2>5. HeldIn(b, id, a) \in Int
    BY <1>0, HeldIsInt
  <2> QED  BY <2>1, <2>2, <2>3, <2>4, <2>5 DEF f
<1>7. e \in V /\ e \in W[0]
  <2>1. Fair(e)
    BY <1>1 DEF Timely
  <2>2. e \in V
    BY <1>1, <2>1 DEF SoundBroker
  <2>3. \A id \in DOMAIN b.portfolios, a \in Assets : HeldIn(e, id, a) = HeldIn(b, id, a)
    BY <1>1 DEF HeldIn
  <2> HIDE DEF Sums, V
  <2>4. Held(e, 0)
    BY <1>6, <2>3
  <2>5. 0 \in 0..n
    BY <1>5
  <2> QED  BY <2>2, <2>4, <2>5
<1>8. ASSUME NEW c \in V, NEW k \in 1..n
      PROVE  /\ SoundBroker(execute_order(c, todo[k].id, todo[k].order, prices), K)
             /\ Executed(c, execute_order(c, todo[k].id, todo[k].order, prices),
                         todo[k].id, todo[k].order, prices)
             /\ AllPriced(b, prices) => prices[todo[k].order.asset] # NaN
  <2>1. todo[k] \in Queued(b)
    BY <1>3
  <2>2. /\ todo[k].id \in DOMAIN b.portfolios /\ todo[k].order \in OrderRows
        /\ todo[k].order \in Range(b.open_orders[todo[k].id])
    BY <2>1 DEF Queued, Entries
  <2>3. SoundBroker(c, K) /\ Priced(prices, K, c.current_dt) /\ DOMAIN c.portfolios = DOMAIN b.portfolios
    BY DEF SameFunds
  <2>4. AllPriced(b, prices) => prices[todo[k].order.asset] # NaN
    BY <2>2 DEF AllPriced
  <2> HIDE DEF V
  <2> QED  BY <2>2, <2>3, <2>4, ExecuteOrderKeeps
<1>9. ASSUME NEW c \in V, NEW k \in 1..n
      PROVE  execute_order(c, todo[k].id, todo[k].order, prices) \in V
  <2> DEFINE d == execute_order(c, todo[k].id, todo[k].order, prices)
  <2>1. SoundBroker(c, K) /\ SameFunds(b, c) /\ Fair(c)
        /\ c.open_orders = e.open_orders /\ c.current_dt = b.current_dt
    OBVIOUS
  <2>2. /\ SoundBroker(d, K) /\ Executed(c, d, todo[k].id, todo[k].order, prices)
        /\ AllPriced(b, prices) => prices[todo[k].order.asset] # NaN
    BY <1>8
  <2> HIDE DEF d
  <2>3. SameFunds(b, d) /\ d.open_orders = e.open_orders /\ d.current_dt = b.current_dt
    BY <2>1, <2>2, SameFundsTrans DEF Executed
  <2>4. Fair(d)
    BY <2>1, <2>2 DEF Executed
  <2>5. d \in V
    BY <2>2, <2>3, <2>4 DEF SoundBroker
  <2> QED  BY <2>5 DEF d
<1>10. ASSUME NEW c \in V, NEW k \in 1..n, c \in W[k - 1]
       PROVE  execute_order(c, todo[k].id, todo[k].order, prices) \in W[k]
  <2> DEFINE d == execute_order(c, todo[k].id, todo[k].order, prices)
  <2>1. Executed(c, d, todo[k].id, todo[k].order, prices) /\ d \in V
    BY <1>8, <1>9
  <2>2. k - 1 \in 0..n /\ k \in 0..n
    BY <1>5
  <2>3. ~c.raised => Held(c, k - 1)
    BY <1>10, <2>2
  <2>4. DOMAIN c.portfolios = DOMAIN b.portfolios
    BY DEF SameFunds
  <2> HIDE DEF d, V, Sums
  <2>5. ASSUME ~d.raised PROVE Held(d, k)
    <3>1. ~c.raised /\ \A i \in DOMAIN c.portfolios, a \in Assets :
            HeldIn(d, i, a) = HeldIn(c, i, a) + Share(todo[k].id, todo[k].order, i, a)
      BY <2>1, <2>5 DEF Executed
    <3>2. ASSUME NEW i \in DOMAIN b.portfolios, NEW a \in Assets
          PROVE  HeldIn(d, i, a) = HeldIn(b, i, a) + Sums(k, i, a)
      <4>1. HeldIn(d, i, a) = HeldIn(c, i, a) + Share(todo[k].id, todo[k].order, i, a)
        BY <2>4, <3>1
      <4>2. HeldIn(c, i, a) = HeldIn(b, i, a) + Sums(k - 1, i, a)
        BY <2>3, <3>1
      <4>3. /\ Sums(k - 1, i, a) \in Int /\ Share(todo[k].id, todo[k].order, i, a) \in Int
            /\ Sums(k, i, a) = Sums(k - 1, i, a) + Share(todo[k].id, todo[k].order, i, a)
            /\ HeldIn(b, i, a) \in Int
        BY <1>6
      <4> QED  BY <4>1, <4>2, <4>3
    <3> QED  BY <3>2
  <2> HIDE DEF Held
  <2>6. d \in W[k]
    BY <2>1, <2>2, <2>5
  <2> QED  BY <2>6 DEF d
<1>11. execute_open_orders(b, prices) \in V /\ execute_open_orders(b, prices) \in W[n]
  <2>1. /\ \A c \in V, k \in 1..n :
             execute_order(c, ToExecute(b)[k].id, ToExecute(b)[k].order, prices) \in V
        /\ \A c \in V, k \in 1..n : c \in W[k - 1] =>
             execute_order(c, ToExecute(b)[k].id, ToExecute(b)[k].order, prices) \in W[k]
    BY <1>9, <1>10 DEF todo
  <2>2. DOMAIN ToExecute(b) = 1..n /\ emptied(b) \in V /\ emptied(b) \in W[0] /\ n \in Nat
    BY <1>5, <1>7 DEF todo, e
  <2> HIDE DEF V, W, n
  <2> QED  BY <2>1, <2>2, ExecuteFollows
<1> DEFINE c == execute_open_orders(b, prices)
<1>12. /\ SoundBroker(c, K) /\ SameFunds(b, c) /\ Fair(c)
       /\ c.open_orders = e.open_orders /\ c.current_dt = b.current_dt
  BY <1>11
<1>13. ~c.raised => Held(c, n)
  <2>1. n \in 0..n /\ c \in W[n]
    BY <1>5, <1>11
  <2> HIDE DEF V, Held, c
  <2> QED  BY <2>1
<1>14. ~c.raised => \A id \in DOMAIN b.portfolios, a \in Assets :
         HeldIn(c, id, a) = HeldIn(b, id, a) + queued(b.open_orders[id], a)
  <2> HIDE DEF Sums, c
  <2> QED  BY <1>4, <1>6, <1>13
<1> HIDE DEF c
<1>15. Settled(b, c, prices)
  BY <1>1, <1>12, <1>14 DEF Settled
<1> QED  BY <1>12, <1>15 DEF c

---------------------------------------------------------------------------
(* The broker: an update, and the execution handler.                       *)

(* What a portfolio holds of an asset and what its queue would add.        *)
Due(b, id, a) == HeldIn(b, id, a) + queued(b.open_orders[id], a)

(* Nothing was booked or marked after dt.                                  *)
TimelyAt(b, dt) ==
  \A id \in DOMAIN b.portfolios :
    /\ b.portfolios[id].current_dt <= dt
    /\ \A a \in DOMAIN b.portfolios[id].positions :
         b.portfolios[id].positions[a].current_dt <= dt

(* c is b after an update.                                                 *)
Updated(b, c, dt, prices, open) ==
  /\ SameFunds(b, c) /\ c.current_dt = dt
  /\ ~open => /\ c.open_orders = b.open_orders
              /\ \A id \in DOMAIN b.portfolios, a \in Assets : HeldIn(c, id, a) = HeldIn(b, id, a)
  /\ ~c.raised => \A id \in DOMAIN b.portfolios, a \in Assets : Due(c, id, a) = Due(b, id, a)
  /\ open /\ ~c.raised => \A id \in DOMAIN b.portfolios : c.open_orders[id] = <<>>
  /\ TimelyAt(b, dt) => Timely(c)
  /\ TimelyAt(b, dt) /\ ~b.raised /\ AllPriced(b, prices) => ~c.raised

(* The shares an order queue adds, one by one.                             *)
Additions(q, a) == [j \in 1..Len(q) |-> IF q[j].asset = a THEN q[j].quantity ELSE 0]

(* An order's addition is whole.                                           *)
LEMMA AdditionAt ==
  ASSUME NEW q \in Seq(OrderRows), NEW a, NEW j \in 1..Len(q)
  PROVE  /\ Additions(q, a)[j] = IF q[j].asset = a THEN q[j].quantity ELSE 0
         /\ Additions(q, a)[j] \in Int
<1>1. q[j] \in OrderRows
  OBVIOUS
<1> QED  BY <1>1 DEF Additions, OrderRows

(* So are the additions of a queue.                                        *)
LEMMA QueuedIs ==
  ASSUME NEW q \in Seq(OrderRows), NEW a
  PROVE  /\ queued(q, a) = SumFunctionOnSet(Additions(q, a), 1..Len(q))
         /\ queued(q, a) \in Int
<1>1. DOMAIN q = 1..Len(q) /\ Len(q) \in Nat /\ IsFiniteSet(1..Len(q))
  BY FS_Interval
<1>2. queued(q, a) = SumFunctionOnSet(Additions(q, a), 1..Len(q))
  BY <1>1 DEF queued, SumFunction, Additions
<1>3. \A j \in 1..Len(q) : Additions(q, a)[j] \in Int
  BY AdditionAt
<1> QED  BY <1>1, <1>2, <1>3, SumInt

(* An empty queue adds nothing.                                            *)
LEMMA NothingQueued == ASSUME NEW a PROVE queued(<<>>, a) = 0
<1> DEFINE q == <<>>
<1>1. q \in Seq(OrderRows) /\ 1..Len(q) = {}
  OBVIOUS
<1> HIDE DEF q
<1>2. queued(q, a) = SumFunctionOnSet(Additions(q, a), {})
  BY <1>1, QueuedIs
<1> QED  BY <1>2, SumEmpty DEF q

(* One more order adds its quantity.                                       *)
LEMMA QueuedAppend ==
  ASSUME NEW q \in Seq(OrderRows), NEW o \in OrderRows, NEW a
  PROVE  queued(Append(q, o), a) = queued(q, a) + (IF o.asset = a THEN o.quantity ELSE 0)
<1> DEFINE r == Append(q, o)
           n == Len(q)
           f == Additions(q, a)
           g == Additions(r, a)
<1>1. /\ r \in Seq(OrderRows) /\ Len(r) = n + 1 /\ n \in Nat /\ r[n + 1] = o
      /\ \A j \in 1..n : r[j] = q[j] /\ j \in 1..Len(r)
  OBVIOUS
<1> HIDE DEF r
<1>2. ASSUME NEW j \in 1..n PROVE f[j] \in Int /\ f[j] = g[j]
  <2>1. f[j] \in Int /\ f[j] = IF q[j].asset = a THEN q[j].quantity ELSE 0
    BY AdditionAt
  <2>2. g[j] = IF r[j].asset = a THEN r[j].quantity ELSE 0
    BY <1>1, AdditionAt
  <2> QED  BY <1>1, <2>1, <2>2
<1>3. \A j \in 1..(n + 1) : g[j] \in Int
  BY <1>1, AdditionAt
<1>4. g[n + 1] = IF o.asset = a THEN o.quantity ELSE 0
  <2>1. n + 1 \in 1..Len(r)
    BY <1>1
  <2>2. g[n + 1] = IF r[n + 1].asset = a THEN r[n + 1].quantity ELSE 0
    BY <1>1, <2>1, AdditionAt
  <2> QED  BY <1>1, <2>2
<1>5. queued(r, a) = SumFunctionOnSet(g, 1..(n + 1)) /\ queued(q, a) = SumFunctionOnSet(f, 1..n)
  BY <1>1, QueuedIs
<1> HIDE DEF f, g, n
<1>6. SumFunctionOnSet(g, 1..(n + 1)) = SumFunctionOnSet(g, 1..n) + g[n + 1]
  <2>1. n + 1 \in Nat \ {0} /\ (n + 1) - 1 = n
    BY <1>1
  <2> QED  BY <1>3, <2>1, SumPrefix
<1>7. SumFunctionOnSet(f, 1..n) = SumFunctionOnSet(g, 1..n)
  <2>1. IsFiniteSet(1..n)
    BY <1>1, FS_Interval
  <2> QED  BY <1>2, <2>1, SumCong
<1> QED  BY <1>4, <1>5, <1>6, <1>7 DEF r

(* update, in and out of market hours, whether it raises or not.           *)
LEMMA UpdateKeeps ==
  ASSUME NEW K, NEW b, SoundBroker(b, K), NEW dt \in Nat, NEW prices, Priced(prices, K, dt),
         NEW open \in BOOLEAN
  PROVE  /\ SoundBroker(update(b, dt, prices, open), K)
         /\ Updated(b, update(b, dt, prices, open), dt, prices, open)
<1> DEFINE timed == [b EXCEPT !.current_dt = dt]
           marked == mark_portfolios(timed, prices)
           c == update(b, dt, prices, open)
<1>1. b \in BrokerRows
  BY DEF SoundBroker
<1>2. /\ timed \in BrokerRows /\ timed.portfolios = b.portfolios /\ timed.current_dt = dt
      /\ timed.open_orders = b.open_orders /\ timed.portfolio_ids = b.portfolio_ids
      /\ timed.cash_balance = b.cash_balance /\ timed.raised = b.raised
  BY <1>1 DEF BrokerRows
<1>3. c = IF open /\ ~marked.raised THEN execute_open_orders(marked, prices) ELSE marked
  BY DEF update
<1> HIDE DEF timed
<1>4. SoundBroker(timed, K) /\ SameFunds(b, timed) /\ (Timely(timed) <=> TimelyAt(b, dt))
  BY <1>2 DEF SoundBroker, SameKeys, SameFunds, Timely, TimelyAt
<1>5. SoundBroker(marked, K) /\ OnlyMarked(timed, marked)
  BY <1>2, <1>4, MarkPortfoliosKeep
<1> HIDE DEF marked
<1>6. /\ SameFunds(timed, marked) /\ marked.open_orders = b.open_orders /\ marked.current_dt = dt
      /\ DOMAIN marked.portfolios = DOMAIN b.portfolios
      /\ Timely(timed) => Timely(marked) /\ marked.raised = b.raised
      /\ \A id \in DOMAIN b.portfolios, a \in Assets : HeldIn(marked, id, a) = HeldIn(timed, id, a)
  BY <1>2, <1>4, <1>5, MarkingKeepsFunds DEF OnlyMarked
<1>7. SameFunds(b, marked)
  BY <1>4, <1>6, SameFundsTrans
<1>8. \A id \in DOMAIN b.portfolios, a \in Assets :
        /\ HeldIn(marked, id, a) = HeldIn(b, id, a) /\ Due(marked, id, a) = Due(b, id, a)
  BY <1>2, <1>6 DEF HeldIn, Due
<1>9. AllPriced(b, prices) => AllPriced(marked, prices)
  BY <1>6 DEF AllPriced
<1> HIDE DEF c
<1>10. CASE ~(open /\ ~marked.raised)
  <2>1. c = marked
    BY <1>3, <1>10
  <2>2. Updated(b, c, dt, prices, open)
    BY <1>4, <1>6, <1>7, <1>8, <1>10, <2>1 DEF Updated
  <2> QED  BY <1>5, <2>1, <2>2 DEF c
<1>11. CASE open /\ ~marked.raised
  <2>1. c = execute_open_orders(marked, prices)
    BY <1>3, <1>11
  <2>2. SoundBroker(c, K) /\ Settled(marked, c, prices)
    BY <1>5, <1>6, <2>1, ExecuteOpenKeeps
  <2>3. SameFunds(b, c) /\ c.current_dt = dt
    BY <1>6, <1>7, <2>2, SameFundsTrans DEF Settled
  <2>4. \A id \in DOMAIN b.portfolios : c.open_orders[id] = <<>>
    BY <1>6, <2>2 DEF Settled
  <2>5. ASSUME ~c.raised, NEW id \in DOMAIN b.portfolios, NEW a \in Assets
        PROVE  Due(c, id, a) = Due(b, id, a)
    <3>1. HeldIn(c, id, a) = HeldIn(marked, id, a) + queued(marked.open_orders[id], a)
      BY <1>6, <2>2, <2>5 DEF Settled
    <3>2. HeldIn(c, id, a) = Due(b, id, a)
      BY <1>8, <3>1 DEF Due
    <3>3. queued(c.open_orders[id], a) = 0
      BY <2>4, NothingQueued
    <3>4. HeldIn(c, id, a) \in Int
      <4>1. c \in BrokerRows /\ id \in DOMAIN c.portfolios
        BY <2>2, <2>3 DEF SoundBroker, SameFunds
      <4> QED  BY <4>1, HeldIsInt
    <3> QED  BY <3>2, <3>3, <3>4 DEF Due
  <2>6. TimelyAt(b, dt) => Timely(c)
    BY <1>4, <1>6, <2>2 DEF Settled
  <2>7. TimelyAt(b, dt) /\ ~b.raised /\ AllPriced(b, prices) => ~c.raised
    BY <1>4, <1>6, <1>9, <2>2 DEF Settled
  <2>8. Updated(b, c, dt, prices, open)
    BY <1>11, <2>3, <2>4, <2>5, <2>6, <2>7 DEF Updated
  <2> QED  BY <2>2, <2>8 DEF c
<1> QED  BY <1>10, <1>11

(* No order is queued.                                                     *)
AllEmpty(b) == \A id \in DOMAIN b.portfolios : b.open_orders[id] = <<>>

(* c is b with one more order in a queue.                                  *)
Submitted(b, c, id, o, prices) ==
  /\ SameFunds(b, c) /\ c.portfolios = b.portfolios /\ c.current_dt = b.current_dt
  /\ c.raised = b.raised
  /\ \A i \in DOMAIN b.portfolios, a \in Assets :
       Due(c, i, a) = Due(b, i, a) + (IF i = id /\ o.asset = a THEN o.quantity ELSE 0)
  /\ AllPriced(b, prices) /\ prices[o.asset] # NaN => AllPriced(c, prices)

(* submit_order, to a portfolio that exists.                               *)
LEMMA SubmitKeeps ==
  ASSUME NEW K, NEW b, SoundBroker(b, K), NEW id \in DOMAIN b.portfolios, NEW o \in OrderRows,
         NEW c, c = submit_order(b, id, o), NEW prices
  PROVE  SoundBroker(c, K) /\ Submitted(b, c, id, o, prices)
<1> DEFINE q == Append(b.open_orders[id], o)
           qs == [b.open_orders EXCEPT ![id] = q]
<1>1. b \in BrokerRows /\ DOMAIN b.open_orders = DOMAIN b.portfolios /\ SameKeys(b)
  BY DEF SoundBroker, SameKeys
<1>2. b.open_orders[id] \in Seq(OrderRows) /\ id \in Ids
  BY QueueFacts
<1>3. q \in Seq(OrderRows) /\ Range(q) = Range(b.open_orders[id]) \cup {o}
  <2> DEFINE r == b.open_orders[id]
  <2>1. /\ Append(r, o) \in Seq(OrderRows) /\ DOMAIN Append(r, o) = 1..(Len(r) + 1) /\ Len(r) \in Nat
        /\ DOMAIN r = 1..Len(r) /\ Append(r, o)[Len(r) + 1] = o
        /\ \A j \in 1..Len(r) : Append(r, o)[j] = r[j]
    BY <1>2
  <2> HIDE DEF r
  <2>2. \A j \in 1..(Len(r) + 1) : j \in 1..Len(r) \/ j = Len(r) + 1
    BY <2>1
  <2>3. Range(Append(r, o)) = Range(r) \cup {o}
    BY <2>1, <2>2 DEF Range
  <2> QED  BY <2>1, <2>3 DEF r
<1>4. /\ qs \in [DOMAIN b.open_orders -> Seq(OrderRows)] /\ qs[id] = q /\ DOMAIN qs = DOMAIN b.portfolios
      /\ \A i \in DOMAIN b.portfolios : i # id => qs[i] = b.open_orders[i]
  <2> HIDE DEF q
  <2>1. b.open_orders \in [DOMAIN b.open_orders -> Seq(OrderRows)]
    BY <1>1, BrokerFacts
  <2> QED  BY <1>1, <1>3, <2>1
<1>5. c = [b EXCEPT !.open_orders = qs]
  BY <1>1 DEF submit_order, BrokerRows
<1>6. qs \in Partial(Ids, Seq(OrderRows))
  <2>1. DOMAIN b.open_orders \subseteq Ids
    BY <1>1, BrokerFacts
  <2> HIDE DEF qs
  <2> QED  BY <1>4, <2>1, PartialIntro
<1> HIDE DEF qs
<1>7. /\ c \in BrokerRows /\ c.open_orders = qs /\ c.portfolios = b.portfolios
      /\ c.cash_balance = b.cash_balance /\ c.portfolio_ids = b.portfolio_ids
      /\ c.current_dt = b.current_dt /\ c.raised = b.raised
  BY <1>1, <1>5, <1>6 DEF BrokerRows
<1>8. SoundBroker(c, K)
  BY <1>1, <1>4, <1>7 DEF SoundBroker, SameKeys
<1>9. SameFunds(b, c)
  BY <1>7 DEF SameFunds
<1>10. ASSUME NEW i \in DOMAIN b.portfolios, NEW a \in Assets
       PROVE  Due(c, i, a) = Due(b, i, a) + (IF i = id /\ o.asset = a THEN o.quantity ELSE 0)
  <2>1. HeldIn(c, i, a) = HeldIn(b, i, a) /\ HeldIn(b, i, a) \in Int
    BY <1>1, <1>7, HeldIsInt DEF HeldIn
  <2>2. queued(b.open_orders[i], a) \in Int
    BY QueueFacts, QueuedIs
  <2>3. CASE i # id
    <3>1. c.open_orders[i] = b.open_orders[i]
      BY <1>4, <1>7, <2>3
    <3> QED  BY <2>1, <2>2, <2>3, <3>1 DEF Due
  <2>4. CASE i = id
    <3>0. c.open_orders[i] = q /\ q = Append(b.open_orders[id], o)
      BY <1>4, <1>7, <2>4
    <3> HIDE DEF q
    <3>1. queued(c.open_orders[i], a) = queued(b.open_orders[i], a)
            + (IF o.asset = a THEN o.quantity ELSE 0)
      <4> DEFINE r == b.open_orders[id]
      <4>1. r \in Seq(OrderRows) /\ q = Append(r, o)
        BY <1>2, <3>0
      <4> HIDE DEF r
      <4>2. queued(Append(r, o), a) = queued(r, a) + (IF o.asset = a THEN o.quantity ELSE 0)
        BY <4>1, QueuedAppend
      <4> QED  BY <2>4, <3>0, <4>1, <4>2 DEF r
    <3>2. o.quantity \in Int
      BY DEF OrderRows
    <3> QED  BY <2>1, <2>2, <2>4, <3>1, <3>2 DEF Due
  <2> QED  BY <2>3, <2>4
<1>11. ASSUME AllPriced(b, prices), prices[o.asset] # NaN PROVE AllPriced(c, prices)
  <2> HIDE DEF q
  <2>1. \A i \in DOMAIN b.portfolios : \A x \in Range(b.open_orders[i]) : prices[x.asset] # NaN
    BY <1>11 DEF AllPriced
  <2>2. ASSUME NEW i \in DOMAIN b.portfolios, NEW x \in Range(c.open_orders[i])
        PROVE  prices[x.asset] # NaN
    <3>1. CASE i = id
      <4>1. x \in Range(b.open_orders[id]) \/ x = o
        BY <1>3, <1>4, <1>7, <2>2, <3>1
      <4> QED  BY <1>11, <2>1, <4>1
    <3>2. CASE i # id
      <4>1. c.open_orders[i] = b.open_orders[i]
        BY <1>4, <1>7, <3>2
      <4> QED  BY <2>1, <2>2, <4>1
    <3> QED  BY <3>1, <3>2
  <2> QED  BY <1>7, <2>2 DEF AllPriced
<1> QED  BY <1>7, <1>8, <1>9, <1>10, <1>11 DEF Submitted

(* Nothing can go wrong in carrying out the orders at dt.                  *)
Ready(b, dt, orders, prices) ==
  /\ TimelyAt(b, dt) /\ ~b.raised /\ AllPriced(b, prices)
  /\ \A j \in 1..Len(orders) : prices[orders[j].asset] # NaN

(* After k of the orders.                                                  *)
Carried(b, c, id, dt, orders, prices, open, k) ==
  /\ TimelyAt(c, dt) /\ ~c.raised /\ AllPriced(c, prices)
  /\ open /\ AllEmpty(b) => AllEmpty(c)
  /\ \A i \in DOMAIN b.portfolios, a \in Assets :
       Due(c, i, a) = Due(b, i, a)
         + (IF i = id THEN SumFunctionOnSet(Additions(orders, a), 1..k) ELSE 0)

(* Whatever happens.                                                       *)
Kept(b, c, dt, open) ==
  /\ SameFunds(b, c)
  /\ b.current_dt = dt => c.current_dt = dt
  /\ ~open => \A i \in DOMAIN b.portfolios, a \in Assets : HeldIn(c, i, a) = HeldIn(b, i, a)

(* What is due is whole.                                                   *)
LEMMA DueIsInt ==
  ASSUME NEW K, NEW b, SoundBroker(b, K), NEW id \in DOMAIN b.portfolios, NEW a
  PROVE  Due(b, id, a) \in Int
<1>1. b \in BrokerRows
  BY DEF SoundBroker
<1>2. HeldIn(b, id, a) \in Int
  BY <1>1, HeldIsInt
<1>3. queued(b.open_orders[id], a) \in Int
  BY QueueFacts, QueuedIs
<1> QED  BY <1>2, <1>3 DEF Due

(* One order of the execution handler.                                     *)
LEMMA SubmitAndUpdate ==
  ASSUME NEW K, NEW c, SoundBroker(c, K), NEW id \in DOMAIN c.portfolios, NEW dt \in Nat,
         NEW o \in OrderRows, NEW prices, Priced(prices, K, dt), NEW open \in BOOLEAN,
         NEW d, d = submit_and_update(c, id, dt, o, prices, open)
  PROVE  /\ SoundBroker(d, K) /\ Kept(c, d, dt, open)
         /\ (TimelyAt(c, dt) /\ ~c.raised /\ AllPriced(c, prices) /\ prices[o.asset] # NaN) =>
              /\ TimelyAt(d, dt) /\ ~d.raised /\ AllPriced(d, prices)
              /\ open => AllEmpty(d)
              /\ \A i \in DOMAIN c.portfolios, a \in Assets :
                   Due(d, i, a) = Due(c, i, a) + (IF i = id /\ o.asset = a THEN o.quantity ELSE 0)
<1> DEFINE s == submit_order(c, id, o)
           u == update(s, dt, prices, open)
<1>1. CASE c.raised
  <2>1. d = c
    BY <1>1 DEF submit_and_update
  <2> QED  BY <1>1, <2>1, SameFundsRefl DEF Kept
<1>2. CASE ~c.raised
  <2>1. d = u
    BY <1>2 DEF submit_and_update
  <2>2. SoundBroker(s, K) /\ Submitted(c, s, id, o, prices)
    BY SubmitKeeps
  <2> HIDE DEF s
  <2>3. SoundBroker(d, K) /\ Updated(s, d, dt, prices, open)
    BY <2>1, <2>2, UpdateKeeps
  <2>4. SameFunds(c, d) /\ d.current_dt = dt /\ DOMAIN s.portfolios = DOMAIN c.portfolios
        /\ DOMAIN d.portfolios = DOMAIN c.portfolios
    BY <2>2, <2>3, SameFundsTrans DEF Submitted, Updated, SameFunds
  <2>5. \A i \in DOMAIN c.portfolios, a \in Assets : HeldIn(s, i, a) = HeldIn(c, i, a)
    BY <2>2 DEF Submitted, HeldIn
  <2>6. Kept(c, d, dt, open)
    BY <2>3, <2>4, <2>5 DEF Kept, Updated
  <2>7. ASSUME TimelyAt(c, dt), ~c.raised, AllPriced(c, prices), prices[o.asset] # NaN
        PROVE  /\ TimelyAt(d, dt) /\ ~d.raised /\ AllPriced(d, prices)
               /\ open => AllEmpty(d)
               /\ \A i \in DOMAIN c.portfolios, a \in Assets :
                    Due(d, i, a) = Due(c, i, a) + (IF i = id /\ o.asset = a THEN o.quantity ELSE 0)
    <3>1. TimelyAt(s, dt) /\ ~s.raised /\ AllPriced(s, prices)
      BY <2>2, <2>7 DEF Submitted, TimelyAt
    <3>2. Timely(d) /\ ~d.raised
      BY <2>3, <3>1 DEF Updated
    <3>3. TimelyAt(d, dt)
      BY <2>4, <3>2 DEF Timely, TimelyAt
    <3>4. open => AllEmpty(d)
      BY <2>3, <2>4, <3>2 DEF Updated, AllEmpty
    <3>5. AllPriced(d, prices)
      <4>1. CASE open
        <5>1. Range(<<>>) = {}
          BY DEF Range
        <5> QED  BY <3>4, <4>1, <5>1 DEF AllEmpty, AllPriced
      <4>2. CASE ~open
        <5>1. d.open_orders = s.open_orders
          BY <2>3, <4>2 DEF Updated
        <5> QED  BY <2>4, <3>1, <5>1 DEF AllPriced
      <4> QED  BY <4>1, <4>2
    <3>6. \A i \in DOMAIN c.portfolios, a \in Assets : Due(d, i, a) = Due(s, i, a)
      BY <2>3, <2>4, <3>2 DEF Updated
    <3>7. \A i \in DOMAIN c.portfolios, a \in Assets :
            Due(d, i, a) = Due(c, i, a) + (IF i = id /\ o.asset = a THEN o.quantity ELSE 0)
      BY <2>2, <3>6 DEF Submitted
    <3> QED  BY <3>2, <3>3, <3>4, <3>5, <3>7
  <2> QED  BY <2>3, <2>6, <2>7
<1> QED  BY <1>1, <1>2

(* What is kept twice is kept.                                             *)
LEMMA KeptTrans ==
  ASSUME NEW b, NEW c, NEW d, NEW dt, NEW open, Kept(b, c, dt, open), Kept(c, d, dt, open)
  PROVE  Kept(b, d, dt, open)
<1>1. SameFunds(b, d)
  BY SameFundsTrans DEF Kept
<1> QED  BY <1>1 DEF Kept, SameFunds

(* The orders of a rebalance: whatever happens, nobody pays in or out, and *)
(* when nothing can go wrong every order is executed or queued.            *)
LEMMA HandlerKeeps ==
  ASSUME NEW K, NEW b, SoundBroker(b, K), NEW id \in DOMAIN b.portfolios, NEW dt \in Nat,
         NEW orders \in Seq(OrderRows), NEW prices, Priced(prices, K, dt), NEW open \in BOOLEAN,
         NEW c, c = execution_handler(b, id, dt, orders, prices, open)
  PROVE  /\ SoundBroker(c, K) /\ Kept(b, c, dt, open)
         /\ Ready(b, dt, orders, prices) =>
              Carried(b, c, id, dt, orders, prices, open, Len(orders))
<1> DEFINE n == Len(orders)
           V == {v \in BrokerRows : SoundBroker(v, K) /\ Kept(b, v, dt, open)}
           W == [k \in 0..n |-> {v \in V : Ready(b, dt, orders, prices) =>
                                   Carried(b, v, id, dt, orders, prices, open, k)}]
<1>1. n \in Nat /\ DOMAIN orders = 1..n /\ \A i \in 1..n : orders[i] \in OrderRows
  OBVIOUS
<1>2. b \in BrokerRows /\ b \in V
  BY SameFundsRefl DEF SoundBroker, Kept
<1>3. b \in W[0]
  <2>1. ASSUME Ready(b, dt, orders, prices)
        PROVE  Carried(b, b, id, dt, orders, prices, open, 0)
    <3>1. 1..0 = {}
      OBVIOUS
    <3>2. \A a : SumFunctionOnSet(Additions(orders, a), 1..0) = 0
      BY <3>1, SumEmpty
    <3>3. \A i \in DOMAIN b.portfolios, a \in Assets : Due(b, i, a) \in Int
      BY DueIsInt
    <3>4. \A i \in DOMAIN b.portfolios, a \in Assets :
            Due(b, i, a) = Due(b, i, a)
              + (IF i = id THEN SumFunctionOnSet(Additions(orders, a), 1..0) ELSE 0)
      BY <3>2, <3>3
    <3> QED  BY <2>1, <3>4 DEF Ready, Carried
  <2>2. 0 \in 0..n
    BY <1>1
  <2> HIDE DEF V
  <2> QED  BY <1>2, <2>1, <2>2
<1>4. ASSUME NEW v \in V, NEW i \in 1..n
      PROVE  /\ submit_and_update(v, id, dt, orders[i], prices, open) \in V
             /\ v \in W[i - 1] => submit_and_update(v, id, dt, orders[i], prices, open) \in W[i]
  <2> DEFINE o == orders[i]
             d == submit_and_update(v, id, dt, o, prices, open)
  <2>1. SoundBroker(v, K) /\ Kept(b, v, dt, open) /\ o \in OrderRows
    BY <1>1
  <2>2. DOMAIN v.portfolios = DOMAIN b.portfolios
    BY <2>1 DEF Kept, SameFunds
  <2> DEFINE Calm == TimelyAt(v, dt) /\ ~v.raised /\ AllPriced(v, prices) /\ prices[o.asset] # NaN
             Done == /\ TimelyAt(d, dt) /\ ~d.raised /\ AllPriced(d, prices)
                     /\ open => AllEmpty(d)
                     /\ \A j \in DOMAIN v.portfolios, a \in Assets :
                          Due(d, j, a) = Due(v, j, a) + (IF j = id /\ o.asset = a THEN o.quantity ELSE 0)
  <2>3. d = submit_and_update(v, id, dt, o, prices, open)
    OBVIOUS
  <2> HIDE DEF d, o
  <2>4. SoundBroker(d, K) /\ Kept(v, d, dt, open) /\ (Calm => Done)
    BY <2>1, <2>2, <2>3, SubmitAndUpdate
  <2>5. Kept(b, d, dt, open) /\ d \in BrokerRows
    BY <2>1, <2>4, KeptTrans DEF SoundBroker
  <2>6. d \in V
    BY <2>4, <2>5
  <2>7. ASSUME Ready(b, dt, orders, prices), v \in W[i - 1]
        PROVE  Carried(b, d, id, dt, orders, prices, open, i)
    <3>1. Carried(b, v, id, dt, orders, prices, open, i - 1)
      <4>1. i - 1 \in 0..n
        BY <1>1
      <4> HIDE DEF V
      <4> QED  BY <2>7, <4>1
    <3>2. Calm
      BY <1>1, <2>7, <3>1 DEF Carried, Ready, o
    <3>3. Done
      BY <2>4, <3>2
    <3> HIDE DEF Calm
    <3>4. ASSUME NEW j \in DOMAIN b.portfolios, NEW a \in Assets
          PROVE  Due(d, j, a) = Due(b, j, a)
                   + (IF j = id THEN SumFunctionOnSet(Additions(orders, a), 1..i) ELSE 0)
      <4> DEFINE f == Additions(orders, a)
                 more == IF o.asset = a THEN o.quantity ELSE 0
      <4>1. \A k \in 1..n : f[k] \in Int
        BY <1>1, AdditionAt
      <4>2. f[i] = more
        BY <1>1, AdditionAt DEF o
      <4>3. Due(d, j, a) = Due(v, j, a) + (IF j = id THEN more ELSE 0)
        BY <2>2, <3>3
      <4>4. Due(v, j, a) = Due(b, j, a) + (IF j = id THEN SumFunctionOnSet(f, 1..(i - 1)) ELSE 0)
        BY <3>1 DEF Carried
      <4>5. Due(b, j, a) \in Int
        BY DueIsInt
      <4> HIDE DEF f, more
      <4>6. /\ SumFunctionOnSet(f, 1..i) = SumFunctionOnSet(f, 1..(i - 1)) + f[i]
            /\ SumFunctionOnSet(f, 1..(i - 1)) \in Int
        <5>1. i \in Nat \ {0} /\ \A k \in 1..i : k \in 1..n
          BY <1>1
        <5>2. IsFiniteSet(1..(i - 1)) /\ \A k \in 1..(i - 1) : f[k] \in Int
          <6>1. i - 1 \in Int /\ 1 \in Int /\ \A k \in 1..(i - 1) : k \in 1..n
            BY <1>1
          <6> HIDE DEF n
          <6>2. IsFiniteSet(1..(i - 1))
            BY <6>1, FS_Interval
          <6> QED  BY <4>1, <6>1, <6>2
        <5> QED  BY <4>1, <5>1, <5>2, SumPrefix, SumInt
      <4>7. f[i] \in Int
        BY <1>1, <4>1
      <4> QED  BY <4>2, <4>3, <4>4, <4>5, <4>6, <4>7 DEF f
    <3> QED  BY <3>3, <3>4 DEF Carried
  <2>8. ASSUME v \in W[i - 1] PROVE d \in W[i]
    <3>1. i \in 0..n
      BY <1>1
    <3> HIDE DEF V
    <3> QED  BY <2>6, <2>7, <2>8, <3>1
  <2> QED  BY <2>6, <2>8 DEF d, o
<1> HIDE DEF V, W
<1>5. c \in V /\ c \in W[n]
  BY <1>1, <1>2, <1>3, <1>4, HandlerFollows
<1>6. SoundBroker(c, K) /\ Kept(b, c, dt, open)
  BY <1>5 DEF V
<1>7. Ready(b, dt, orders, prices) => Carried(b, c, id, dt, orders, prices, open, n)
  <2>1. n \in 0..n
    BY <1>1
  <2> HIDE DEF n
  <2> QED  BY <1>5, <2>1 DEF W
<1> QED  BY <1>6, <1>7

---------------------------------------------------------------------------
(* The trading system: sorting, sizing and the orders of a rebalance.      *)

(* sorted() names every asset once.                                        *)
Sorted(T, s) ==
  /\ DOMAIN s = 1..Cardinality(T) /\ Cardinality(T) \in Nat
  /\ \A i \in 1..Cardinality(T) : s[i] \in T
  /\ \A i, j \in 1..Cardinality(T) : s[i] = s[j] => i = j
  /\ \A a \in T : \E i \in 1..Cardinality(T) : s[i] = a

(* sorted() by symbol, for any finite set of assets.                       *)
LEMMA BySymbol ==
    ASSUME NEW T, IsFiniteSet(T), T \subseteq Int
    PROVE  Sorted(T, by_symbol(T))
<1> DEFINE s == by_symbol(T)
           n == Cardinality(T)
<1>1. n \in Nat /\ DOMAIN s = 1..n
  BY FS_CardinalityType DEF by_symbol
<1>2. ASSUME NEW i \in 1..n PROVE s[i] \in T /\ Cardinality(Below(T, s[i])) = i - 1
  <2>1. i - 1 \in Nat /\ i - 1 < Cardinality(T)
    BY <1>1
  <2>2. \E d \in T : Cardinality(Below(T, d)) = i - 1
    BY <2>1, RankExists
  <2>3. s[i] = CHOOSE d \in T : Cardinality(Below(T, d)) = i - 1
    BY DEF by_symbol, Below
  <2> QED  BY <2>2, <2>3
<1>3. ASSUME NEW a \in T PROVE \E i \in 1..n : s[i] = a
  <2> DEFINE i == Cardinality(Below(T, a)) + 1
  <2>1. a \notin Below(T, a) /\ Below(T, a) \subseteq T
    BY DEF Below
  <2>2. /\ Cardinality(Below(T, a)) \in Nat /\ Cardinality(Below(T, a)) <= n
        /\ n = Cardinality(Below(T, a)) => T = Below(T, a)
    BY <2>1, SubCard
  <2>3. i \in 1..n /\ i - 1 = Cardinality(Below(T, a))
    <3> HIDE DEF n
    <3> QED  BY <1>1, <2>1, <2>2
  <2> HIDE DEF i, s
  <2>4. s[i] \in T /\ Cardinality(Below(T, s[i])) = Cardinality(Below(T, a))
    BY <1>2, <2>3
  <2>5. s[i] = a
    BY <2>4, SameRank
  <2> QED  BY <2>3, <2>5
<1>4. ASSUME NEW i \in 1..n, NEW j \in 1..n, s[i] = s[j] PROVE i = j
  <2>1. i - 1 = j - 1
    BY <1>2, <1>4
  <2> QED  BY <1>1, <2>1
<1> HIDE DEF s
<1> QED  BY <1>1, <1>2, <1>3, <1>4 DEF Sorted, s

(* The orders of a rebalance lead from what is held to the target.         *)
Rebalances(orders, sized, ps) ==
  /\ orders \in Seq(OrderRows)
  /\ \A j \in 1..Len(orders) : orders[j].asset \in DOMAIN sized
  /\ \A a \in Assets : queued(orders, a) = IF a \in DOMAIN sized THEN sized[a] - held(ps, a) ELSE 0

(* generate_rebalance_orders: the orders add up to the difference between  *)
(* the target and what is held, asset by asset.                            *)
LEMMA OrdersRebalance ==
  ASSUME NEW dt \in Nat, NEW sized, NEW ps, DOMAIN sized \subseteq Assets,
         \A a \in DOMAIN sized : sized[a] \in Int /\ held(ps, a) \in Int
  PROVE  Rebalances(generate_rebalance_orders(dt, sized, ps), sized, ps)
<1> DEFINE D == DOMAIN sized
           diff == [a \in D |-> sized[a] - held(ps, a)]
           T == {a \in D : diff[a] # 0}
           s == by_symbol(T)
           n == Cardinality(T)
           orders == generate_rebalance_orders(dt, sized, ps)
<1>1. IsFiniteSet(T) /\ T \subseteq Int /\ T \subseteq D /\ T \subseteq Assets
  <2>1. T \subseteq Assets /\ Assets \subseteq Nat /\ IsFiniteSet(Assets) /\ T \subseteq D
    BY BacktestAssumption
  <2>2. IsFiniteSet(T)
    <3> HIDE DEF T
    <3> QED  BY <2>1, FS_Subset
  <2> HIDE DEF T, D
  <2> QED  BY <2>1, <2>2
<1>2. \A a \in T : diff[a] \in Int \ {0}
  OBVIOUS
<1>3. Sorted(T, s)
  <2> HIDE DEF T
  <2> QED  BY <1>1, BySymbol
<1>4. orders = [i \in DOMAIN s |-> [asset |-> s[i], quantity |-> diff[s[i]], created_dt |-> dt]]
  BY DEF generate_rebalance_orders
<1>5. \A a \in D : diff[a] = sized[a] - held(ps, a)
  OBVIOUS
<1>6. ASSUME NEW a \in D, a \notin T PROVE sized[a] - held(ps, a) = 0
  BY <1>6
<1> HIDE DEF s, T, diff, orders
<1>7. n \in Nat /\ DOMAIN s = 1..n /\ \A i \in 1..n : s[i] \in T
  BY <1>3 DEF Sorted
<1>8. DOMAIN orders = 1..n
  BY <1>4, <1>7
<1>9. ASSUME NEW i \in 1..n
      PROVE  /\ orders[i] \in OrderRows /\ orders[i].asset = s[i]
             /\ orders[i].quantity = diff[s[i]] /\ s[i] \in D
  <2>1. orders[i] = [asset |-> s[i], quantity |-> diff[s[i]], created_dt |-> dt]
    BY <1>4, <1>7
  <2>2. s[i] \in T /\ s[i] \in Assets /\ s[i] \in D /\ diff[s[i]] \in Int \ {0}
    BY <1>1, <1>2, <1>7
  <2> QED  BY <2>1, <2>2 DEF OrderRows
<1> HIDE DEF n
<1>10. orders \in Seq(OrderRows) /\ Len(orders) = n
  <2>1. orders = [i \in 1..n |-> orders[i]]
    BY <1>4, <1>7
  <2>2. orders \in [1..n -> OrderRows]
    BY <1>9, <2>1
  <2> QED  BY <1>7, <2>2
<1>11. \A j \in 1..Len(orders) : orders[j].asset \in D
  BY <1>9, <1>10
<1>12. ASSUME NEW a \in Assets
       PROVE  queued(orders, a) = IF a \in D THEN sized[a] - held(ps, a) ELSE 0
  <2> DEFINE f == Additions(orders, a)
  <2>1. queued(orders, a) = SumFunctionOnSet(f, 1..n) /\ IsFiniteSet(1..n)
    BY <1>7, <1>10, QueuedIs, FS_Interval
  <2>2. \A i \in 1..n : f[i] \in Int /\ f[i] = IF s[i] = a THEN diff[a] ELSE 0
    BY <1>9, <1>10, AdditionAt
  <2> HIDE DEF f
  <2>3. CASE a \in T
    <3>1. PICK k \in 1..n : s[k] = a
      BY <1>3, <2>3 DEF Sorted, n
    <3>2. \A i \in 1..n : i # k => s[i] # a
      BY <1>3, <3>1 DEF Sorted, n
    <3>3. SumFunctionOnSet(f, 1..n) = f[k] + SumFunctionOnSet(f, (1..n) \ {k})
      BY <2>1, <2>2, SumRemove
    <3>4. SumFunctionOnSet(f, (1..n) \ {k}) = 0
      <4>1. IsFiniteSet((1..n) \ {k}) /\ \A i \in (1..n) \ {k} : f[i] = 0
        BY <2>1, <2>2, <3>2, FS_RemoveElement
      <4> QED  BY <4>1, SumZero
    <3>5. f[k] = diff[a] /\ diff[a] \in Int
      BY <1>2, <2>2, <2>3, <3>1
    <3>6. a \in D
      BY <1>1, <2>3
    <3> QED  BY <1>5, <2>1, <3>3, <3>4, <3>5, <3>6
  <2>4. CASE a \notin T
    <3>1. \A i \in 1..n : f[i] = 0
      BY <1>7, <2>2, <2>4
    <3>2. SumFunctionOnSet(f, 1..n) = 0
      BY <2>1, <3>1, SumZero
    <3> QED  BY <1>6, <2>1, <2>4, <3>2
  <2> QED  BY <2>3, <2>4
<1> QED  BY <1>10, <1>11, <1>12 DEF Rebalances, orders

(* Sizes are whole numbers.                                                *)

(* Quotients are whole.                                                    *)
LEMMA QuotientIsInt == ASSUME NEW m \in Int, NEW d \in Nat \ {0} PROVE m \div d \in Int
  OBVIOUS

(* Products of positive numbers are positive.                              *)
LEMMA PositiveProduct == ASSUME NEW m \in Nat \ {0}, NEW n \in Nat \ {0} PROVE m * n \in Nat \ {0}
  OBVIOUS

(* The sizer's cost estimate is whole.                                     *)
LEMMA CostIsInt ==
  ASSUME NEW x \in Int, NEW q \in Int, NEW prices \in Nat \ {0}, NEW unit \in Nat \ {0}
  PROVE  estimate_trade_costs(x, q, prices, unit) \in Int
<1> DEFINE td == x - q * prices * unit
           d == prices * unit
           w == Abs(td) \div d
           tq == IF td >= 0 THEN w ELSE -w
<1>1. td \in Int
  <2>1. q * prices \in Int
    OBVIOUS
  <2>2. q * prices * unit \in Int
    BY <2>1
  <2> QED  BY <2>2
<1>2. d \in Nat \ {0}
  BY PositiveProduct
<1> HIDE DEF td, d
<1>3. Abs(td) \in Int
  BY <1>1 DEF Abs
<1>4. w \in Int
  BY <1>2, <1>3, QuotientIsInt
<1> HIDE DEF w
<1>5. tq \in Int
  BY <1>4
<1> HIDE DEF tq
<1>6. calc_total_cost(tq, td) \in Int
  BY <1>1, <1>5, FeeIsInt
<1> QED  BY <1>6 DEF estimate_trade_costs, tq, w, d, td

(* So is what int() makes of a quotient.                                   *)
LEMMA TruncateIsInt == ASSUME NEW m \in Int, NEW d \in Nat \ {0} PROVE Truncate(m, d) \in Int
<1>1. m \div d \in Int
  BY QuotientIsInt
<1>2. -m \in Int
  OBVIOUS
<1>3. (-m) \div d \in Int
  BY <1>2, QuotientIsInt
<1>4. -((-m) \div d) \in Int
  BY <1>3
<1> QED  BY <1>1, <1>4 DEF Truncate

(* A decision's weights, and prices to size with.                          *)
Sizable(full, prices, a) ==
  /\ IsFiniteSet(DOMAIN full) /\ \A x \in DOMAIN full : full[x] \in Int
  /\ a \in DOMAIN full /\ prices \in Nat \ {0}

(* DollarWeightedCashBufferedOrderSizer sizes to whole numbers of shares.  *)
LEMMA DollarWeightedIsInt ==
  ASSUME NEW equity \in Int, NEW full, NEW a, NEW q \in Int, NEW prices, Sizable(full, prices, a),
         \A x \in DOMAIN full : full[x] >= 0
  PROVE  dollar_weighted(equity, full, a, q, prices) \in Int
<1> DEFINE ws == weight_sum(full)
           unit == FeeUnit * BufferUnit * ws
           pre == equity * (BufferUnit - cash_buffer_percentage) * full[a]
           cost == estimate_trade_costs(pre, q, prices, unit)
           after == pre * FeeUnit - cost
           d == prices * unit * FeeUnit
<1>0. /\ FeeUnit \in Nat \ {0} /\ BufferUnit \in Nat \ {0} /\ prices \in Nat \ {0}
      /\ BufferUnit - cash_buffer_percentage \in Int /\ full[a] \in Int
  BY FeeAssumption, SizingAssumption DEF Sizable
<1>1. ws \in Nat \ {0}
  <2>1. \A x \in DOMAIN full : full[x] \in Nat
    BY DEF Sizable
  <2>2. SumFunctionOnSet(full, DOMAIN full) \in Nat
    BY <2>1, SumNat DEF Sizable
  <2> QED  BY <2>2 DEF weight_sum, SumFunction, NonZero
<1> HIDE DEF ws
<1>2. unit \in Nat \ {0}
  <2>1. FeeUnit * BufferUnit \in Nat \ {0}
    BY <1>0, PositiveProduct
  <2> QED  BY <1>1, <2>1, PositiveProduct
<1> HIDE DEF unit
<1>3. pre \in Int
  <2>1. equity * (BufferUnit - cash_buffer_percentage) \in Int
    BY <1>0
  <2> QED  BY <1>0, <2>1
<1> HIDE DEF pre
<1>4. cost \in Int
  BY <1>0, <1>2, <1>3, CostIsInt
<1> HIDE DEF cost
<1>5. after \in Int
  <2>1. pre * FeeUnit \in Int
    BY <1>0, <1>3
  <2> QED  BY <1>4, <2>1
<1>6. d \in Nat \ {0}
  <2>1. prices * unit \in Nat \ {0}
    BY <1>0, <1>2, PositiveProduct
  <2> QED  BY <1>0, <2>1, PositiveProduct
<1> HIDE DEF after, d
<1>7. after \div d \in Int
  BY <1>5, <1>6, QuotientIsInt
<1> QED  BY <1>7 DEF dollar_weighted, after, d, cost, pre, unit, ws

(* LongShortLeveragedOrderSizer does too.                                  *)
LEMMA LongShortIsInt ==
  ASSUME NEW equity \in Int, NEW full, NEW a, NEW q \in Int, NEW prices, Sizable(full, prices, a)
  PROVE  long_short(equity, full, a, q, prices) \in Int
<1> DEFINE ge == gross_exposure(full)
           abs == [x \in DOMAIN full |-> Abs(full[x])]
           unit == FeeUnit * ge
           pre == equity * gross_leverage * full[a]
           cost == estimate_trade_costs(pre, q, prices, unit)
           after == pre * FeeUnit - cost
           d == unit * FeeUnit * PriceUnit
           m == Truncate(after, d)
<1>0. /\ FeeUnit \in Nat \ {0} /\ gross_leverage \in Nat \ {0} /\ prices \in Nat \ {0}
      /\ full[a] \in Int /\ PriceUnit \in Nat \ {0}
  BY FeeAssumption, SizingAssumption, PriceAssumption DEF Sizable
<1>1. ge \in Nat \ {0}
  <2>1. \A x \in DOMAIN full : abs[x] \in Nat
    BY DEF Sizable, Abs
  <2>2. SumFunctionOnSet(abs, DOMAIN full) \in Nat
    <3> HIDE DEF abs
    <3> QED  BY <2>1, SumNat DEF Sizable
  <2> QED  BY <2>2 DEF gross_exposure, SumFunction, NonZero
<1> HIDE DEF ge
<1>2. unit \in Nat \ {0}
  BY <1>0, <1>1, PositiveProduct
<1> HIDE DEF unit
<1>3. pre \in Int
  <2>1. equity * gross_leverage \in Int
    BY <1>0
  <2> QED  BY <1>0, <2>1
<1> HIDE DEF pre
<1>4. cost \in Int
  BY <1>0, <1>2, <1>3, CostIsInt
<1> HIDE DEF cost
<1>5. after \in Int
  <2>1. pre * FeeUnit \in Int
    BY <1>0, <1>3
  <2> QED  BY <1>4, <2>1
<1>6. d \in Nat \ {0}
  <2>1. unit * FeeUnit \in Nat \ {0}
    BY <1>0, <1>2, PositiveProduct
  <2> QED  BY <1>0, <2>1, PositiveProduct
<1> HIDE DEF after, d
<1>7. m \in Int
  BY <1>5, <1>6, TruncateIsInt
<1> HIDE DEF m
<1>8. Truncate(PriceUnit * m, prices) \in Int
  <2>1. PriceUnit * m \in Int
    BY <1>0, <1>7
  <2> QED  BY <1>0, <2>1, TruncateIsInt
<1> QED  BY <1>8 DEF long_short, m, after, d, cost, pre, unit, ge

(* The target of a rebalance that does not raise.                          *)
LEMMA TargetIsWhole ==
  ASSUME NEW p \in PortfolioRows, NEW full, DOMAIN full \subseteq Assets,
         \A x \in DOMAIN full : full[x] \in Int, NEW prices \in [Assets -> Prices \cup {NaN}],
         NEW long_only \in BOOLEAN, ~sizing_raises(long_only, full, prices)
  PROVE  /\ DOMAIN target_portfolio(long_only, p, full, prices) = DOMAIN full
         /\ \A a \in DOMAIN full : /\ target_portfolio(long_only, p, full, prices)[a] \in Int
                                  /\ held(p.positions, a) \in Int
                                  /\ prices[a] # NaN
<1> DEFINE sized == target_portfolio(long_only, p, full, prices)
           e == total_equity(p)
<1>1. e \in Int
  BY BooksAddUp
<1>2. IsFiniteSet(DOMAIN full)
  BY BacktestAssumption, FS_Subset
<1>3. /\ \A a \in DOMAIN full : prices[a] # NaN
      /\ long_only => \A a \in DOMAIN full : full[a] >= 0
  BY DEF sizing_raises
<1>4. ASSUME NEW a \in DOMAIN full
      PROVE  sized[a] \in Int /\ held(p.positions, a) \in Int
  <2>1. prices[a] \in Nat \ {0}
    BY <1>3, BacktestAssumption
  <2>2. Sizable(full, prices[a], a)
    BY <1>2, <2>1 DEF Sizable
  <2> DEFINE q == held(p.positions, a)
  <2>3. q \in Int
    <3>1. p.positions \in [DOMAIN p.positions -> OpenPositions]
      BY BooksAreFinite
    <3> QED  BY <3>1 DEF held, net_quantity, OpenPositions, PositionRows
  <2>4. sized[a] = IF long_only THEN dollar_weighted(e, full, a, q, prices[a])
                   ELSE long_short(e, full, a, q, prices[a])
    BY DEF target_portfolio
  <2> HIDE DEF e, q, sized
  <2>5. CASE long_only
    BY <1>1, <1>3, <2>2, <2>3, <2>4, <2>5, DollarWeightedIsInt DEF q
  <2>6. CASE ~long_only
    BY <1>1, <2>2, <2>3, <2>4, <2>6, LongShortIsInt DEF q
  <2> QED  BY <2>5, <2>6
<1>5. DOMAIN sized = DOMAIN full
  BY DEF target_portfolio
<1> QED  BY <1>3, <1>4, <1>5

---------------------------------------------------------------------------
(* The money: transfers, and portfolios created.                           *)

(* What was paid into the broker, as its books tell it.                    *)
Payments(b) == [id \in DOMAIN b.portfolios |-> PaidIn(b.portfolios[id])]
Paid(b) == b.cash_balance + SumFunctionOnSet(Payments(b), DOMAIN b.portfolios)

(* They are whole.                                                         *)
LEMMA PaymentsAre ==
  ASSUME NEW K, NEW b, SoundBroker(b, K)
  PROVE  /\ IsFiniteSet(DOMAIN b.portfolios)
         /\ DOMAIN Payments(b) = DOMAIN b.portfolios
         /\ \A id \in DOMAIN b.portfolios : Payments(b)[id] = PaidIn(b.portfolios[id])
         /\ \A id \in DOMAIN b.portfolios : Payments(b)[id] \in Int
         /\ SumFunctionOnSet(Payments(b), DOMAIN b.portfolios) \in Int
<1>1. b \in BrokerRows /\ IsFiniteSet(DOMAIN b.portfolios)
  BY DEF SoundBroker, SameKeys
<1>2. \A id \in DOMAIN b.portfolios : b.portfolios[id] \in PortfolioRows
  BY <1>1, BrokerFacts
<1>3. \A id \in DOMAIN b.portfolios : Payments(b)[id] = PaidIn(b.portfolios[id])
  BY DEF Payments
<1>4. \A id \in DOMAIN b.portfolios : Payments(b)[id] \in Int
  BY <1>2, <1>3, BooksAddUp
<1>5. DOMAIN Payments(b) = DOMAIN b.portfolios
  BY DEF Payments
<1> QED  BY <1>1, <1>3, <1>4, <1>5, SumInt

(* Where nothing was paid, the books tell the same.                        *)
LEMMA SameFundsSamePaid ==
  ASSUME NEW b, NEW c, SameFunds(b, c)
  PROVE  Paid(c) = Paid(b)
<1>1. Payments(c) = Payments(b)
  BY DEF Payments, SameFunds
<1> QED  BY <1>1 DEF Paid, SameFunds

(* What is in the broker beyond what was paid in is profit.                *)
LEMMA ProfitIs ==
  ASSUME NEW K, NEW b, SoundBroker(b, K)
  PROVE  b.cash_balance + get_account_total_equity(b) =
           Paid(b) + SumFunction([id \in DOMAIN b.portfolios |->
                                    total_open_pnl(b.portfolios[id].positions)
                                      + b.portfolios[id].closed_pnl])
<1> DEFINE S == DOMAIN b.portfolios
           f == Payments(b)
           g == [id \in S |-> total_open_pnl(b.portfolios[id].positions) + b.portfolios[id].closed_pnl]
           h == [id \in S |-> total_equity(b.portfolios[id])]
<1>1. b \in BrokerRows /\ b.cash_balance \in Int
  BY BrokerFacts DEF SoundBroker
<1>2. /\ IsFiniteSet(S) /\ SumFunctionOnSet(f, S) \in Int
      /\ \A id \in S : f[id] \in Int /\ f[id] = PaidIn(b.portfolios[id])
  BY PaymentsAre
<1>3. ASSUME NEW id \in S PROVE g[id] \in Int /\ h[id] = f[id] + g[id]
  <2>1. b.portfolios[id] \in PortfolioRows
    BY <1>1, BrokerFacts
  <2>2. /\ total_open_pnl(b.portfolios[id].positions) \in Int /\ b.portfolios[id].closed_pnl \in Int
        /\ total_equity(b.portfolios[id]) = PaidIn(b.portfolios[id])
             + (total_open_pnl(b.portfolios[id].positions) + b.portfolios[id].closed_pnl)
    BY <2>1, BooksAddUp
  <2>3. g[id] = total_open_pnl(b.portfolios[id].positions) + b.portfolios[id].closed_pnl
        /\ h[id] = total_equity(b.portfolios[id])
    OBVIOUS
  <2> HIDE DEF g, h, f
  <2> QED  BY <1>2, <2>2, <2>3
<1>4. /\ get_account_total_equity(b) = SumFunctionOnSet(h, S)
      /\ SumFunction(g) = SumFunctionOnSet(g, S)
  BY DEF get_account_total_equity, SumFunction
<1> HIDE DEF f, g, h, S
<1>5. SumFunctionOnSet(h, S) = SumFunctionOnSet(f, S) + SumFunctionOnSet(g, S)
  BY <1>2, <1>3, SumPlus
<1>6. SumFunctionOnSet(g, S) \in Int
  BY <1>2, <1>3, SumInt
<1>7. b.cash_balance + get_account_total_equity(b) = Paid(b) + SumFunction(g)
  BY <1>1, <1>2, <1>4, <1>5, <1>6 DEF Paid, f, S
<1> QED  BY <1>7 DEF g, S

(* The master account's balance alone.                                     *)
WithBalance(b, x) == [b EXCEPT !.cash_balance = x]

(* A change of the balance alone is a payment.                             *)
LEMMA BalanceKeeps ==
  ASSUME NEW K, NEW b, SoundBroker(b, K), NEW x \in Int, NEW c, c = WithBalance(b, x)
  PROVE  /\ SoundBroker(c, K) /\ Paid(c) = Paid(b) - b.cash_balance + x
         /\ c.cash_balance = x /\ c.portfolios = b.portfolios /\ c.open_orders = b.open_orders
         /\ c.raised = b.raised /\ c.current_dt = b.current_dt
<1>1. b \in BrokerRows /\ b.cash_balance \in Int
  BY BrokerFacts DEF SoundBroker
<1>2. /\ c \in BrokerRows /\ c.cash_balance = x /\ c.portfolios = b.portfolios
      /\ c.open_orders = b.open_orders /\ c.portfolio_ids = b.portfolio_ids
      /\ c.raised = b.raised /\ c.current_dt = b.current_dt
  BY <1>1 DEF BrokerRows, WithBalance
<1>3. SoundBroker(c, K)
  BY <1>2 DEF SoundBroker, SameKeys
<1>4. Payments(c) = Payments(b) /\ DOMAIN c.portfolios = DOMAIN b.portfolios
  BY <1>2 DEF Payments
<1>5. SumFunctionOnSet(Payments(b), DOMAIN b.portfolios) \in Int
  BY PaymentsAre
<1>6. Paid(c) = Paid(b) - b.cash_balance + x
  BY <1>1, <1>2, <1>4, <1>5 DEF Paid
<1> QED  BY <1>2, <1>3, <1>6

(* One portfolio alone.                                                    *)
LEMMA PaymentKeeps ==
  ASSUME NEW K, NEW b, SoundBroker(b, K), NEW id \in DOMAIN b.portfolios,
         NEW q \in PortfolioRows, Marked(q, K), NEW c, c = [b EXCEPT !.portfolios[id] = q]
  PROVE  /\ SoundBroker(c, K)
         /\ Paid(c) = Paid(b) - PaidIn(b.portfolios[id]) + PaidIn(q)
<1>1. /\ SoundBroker(c, K) /\ c.cash_balance = b.cash_balance
      /\ DOMAIN c.portfolios = DOMAIN b.portfolios /\ c.portfolios[id] = q
      /\ \A i \in DOMAIN b.portfolios : i # id => c.portfolios[i] = b.portfolios[i]
  BY WithPortfolio
<1> DEFINE f == Payments(b)
           g == Payments(c)
           S == DOMAIN b.portfolios
<1>2. /\ IsFiniteSet(S) /\ \A i \in S : f[i] = PaidIn(b.portfolios[i]) /\ f[i] \in Int
      /\ SumFunctionOnSet(f, S) \in Int
  BY PaymentsAre
<1>3. \A i \in S : g[i] = PaidIn(c.portfolios[i]) /\ g[i] \in Int
  <2>1. SoundBroker(c, K) /\ DOMAIN c.portfolios = S
    BY <1>1
  <2>2. \A i \in DOMAIN c.portfolios :
          Payments(c)[i] = PaidIn(c.portfolios[i]) /\ Payments(c)[i] \in Int
    BY <2>1, PaymentsAre
  <2> HIDE DEF S
  <2> QED  BY <2>1, <2>2
<1>4. \A i \in S : i # id => g[i] = f[i]
  BY <1>1, <1>2, <1>3
<1>5. b.cash_balance \in Int
  BY BrokerFacts DEF SoundBroker
<1> HIDE DEF f, g, S
<1>6. SumFunctionOnSet(g, S) = SumFunctionOnSet(f, S) - f[id] + g[id]
  <2>1. id \in S /\ \A i \in S : f[i] \in Int /\ g[i] \in Int
    BY <1>2, <1>3 DEF S
  <2> QED  BY <1>2, <1>4, <2>1, SumChange
<1>7. f[id] = PaidIn(b.portfolios[id]) /\ g[id] = PaidIn(q) /\ f[id] \in Int /\ g[id] \in Int
  BY <1>1, <1>2, <1>3 DEF S
<1>8. Paid(c) = b.cash_balance + SumFunctionOnSet(g, S)
      /\ Paid(b) = b.cash_balance + SumFunctionOnSet(f, S)
  BY <1>1 DEF Paid, f, g, S
<1> QED  BY <1>1, <1>2, <1>5, <1>6, <1>7, <1>8

(* A transfer between the master account and a portfolio.                  *)
WithCash(p, x, dt) == [p EXCEPT !.cash = x, !.current_dt = dt]

(* A change of a portfolio's cash alone is a payment into it.              *)
LEMMA CashIsPaidIn ==
  ASSUME NEW p \in PortfolioRows, NEW x \in Int, NEW dt \in Nat,
         NEW q, q = WithCash(p, x, dt)
  PROVE  /\ q \in PortfolioRows /\ q.positions = p.positions /\ q.current_dt = dt
         /\ PaidIn(p) \in Int /\ PaidIn(q) = PaidIn(p) - p.cash + x
<1>1. /\ p.cash \in Int /\ p.closed_pnl \in Int
  BY BooksAreFinite
<1>2. /\ q \in PortfolioRows /\ q.positions = p.positions /\ q.current_dt = dt /\ q.cash = x
      /\ q.closed_pnl = p.closed_pnl
  BY DEF PortfolioRows, WithCash
<1> DEFINE z == SumFunction([a \in DOMAIN p.positions |-> net_incl_commission(p.positions[a])])
<1>3. PaidIn(p) = p.cash - p.closed_pnl - z /\ PaidIn(q) = x - p.closed_pnl - z
  BY <1>2 DEF PaidIn
<1>4. PaidIn(p) \in Int /\ PaidIn(q) \in Int
  BY <1>2, BooksAddUp
<1>5. z \in Int
  <2> DEFINE m == [a \in DOMAIN p.positions |-> net_incl_commission(p.positions[a])]
  <2>1. IsFiniteSet(DOMAIN p.positions) /\ p.positions \in [DOMAIN p.positions -> OpenPositions]
    BY BooksAreFinite
  <2>2. \A a \in DOMAIN p.positions : m[a] \in Int
    BY <2>1, PnlIs
  <2>3. z = SumFunctionOnSet(m, DOMAIN p.positions)
    BY DEF SumFunction
  <2> HIDE DEF m
  <2> QED  BY <2>1, <2>2, <2>3, SumInt
<1> HIDE DEF z
<1>6. PaidIn(q) = PaidIn(p) - p.cash + x
  BY <1>1, <1>3, <1>5
<1> QED  BY <1>2, <1>4, <1>6

(* A transfer between the master account and a portfolio.                  *)
Transfer(b, id, amount) ==
  [b EXCEPT !.portfolios[id] =
              WithCash(b.portfolios[id], b.portfolios[id].cash + amount, b.current_dt),
            !.cash_balance = b.cash_balance - amount]

(* It moves money and makes none.                                          *)
LEMMA TransferKeeps ==
  ASSUME NEW K, NEW b, SoundBroker(b, K), NEW id \in DOMAIN b.portfolios, NEW amount \in Int,
         NEW c, c = Transfer(b, id, amount)
  PROVE  /\ SoundBroker(c, K) /\ Paid(c) = Paid(b) /\ c.open_orders = b.open_orders
         /\ DOMAIN c.portfolios = DOMAIN b.portfolios
         /\ c.portfolios[id].positions = b.portfolios[id].positions
         /\ c.portfolios[id].current_dt = b.current_dt
         /\ c.raised = b.raised /\ c.current_dt = b.current_dt
<1> DEFINE p == b.portfolios[id]
           x == p.cash + amount
           q == WithCash(p, x, b.current_dt)
           d == [b EXCEPT !.portfolios[id] = q]
           y == b.cash_balance - amount
<1>1. b \in BrokerRows /\ p \in PortfolioRows /\ b.current_dt \in Nat /\ b.cash_balance \in Int
  BY BrokerFacts DEF SoundBroker
<1>2. p.cash \in Int /\ x \in Int /\ y \in Int
  BY <1>1, BooksAreFinite
<1>3. q = WithCash(p, x, b.current_dt) /\ d = [b EXCEPT !.portfolios[id] = q]
  OBVIOUS
<1>6. c = WithBalance(d, y)
  BY <1>1 DEF BrokerRows, WithBalance, Transfer
<1> HIDE DEF x, p, q, d, y
<1>4. /\ q \in PortfolioRows /\ q.positions = p.positions /\ q.current_dt = b.current_dt
      /\ PaidIn(p) \in Int /\ PaidIn(q) = PaidIn(p) - p.cash + x
  <2> DEFINE dt == b.current_dt
  <2>1. p \in PortfolioRows /\ x \in Int /\ dt \in Nat /\ q = WithCash(p, x, dt)
    BY <1>1, <1>2, <1>3
  <2> HIDE DEF dt
  <2>2. /\ q \in PortfolioRows /\ q.positions = p.positions /\ q.current_dt = dt
        /\ PaidIn(p) \in Int /\ PaidIn(q) = PaidIn(p) - p.cash + x
    BY <2>1, CashIsPaidIn
  <2> QED  BY <2>2 DEF dt
<1>5. Marked(q, K)
  BY <1>4 DEF SoundBroker, Marked, p
<1>8. SoundBroker(d, K) /\ Paid(d) = Paid(b) - PaidIn(p) + PaidIn(q)
  BY <1>3, <1>4, <1>5, PaymentKeeps DEF p
<1>9. /\ d.cash_balance = b.cash_balance /\ d.open_orders = b.open_orders
      /\ d.raised = b.raised /\ d.current_dt = b.current_dt
      /\ DOMAIN d.portfolios = DOMAIN b.portfolios /\ d.portfolios[id] = q
  BY <1>3, <1>4, <1>5, WithPortfolio
<1>10. /\ SoundBroker(c, K) /\ Paid(c) = Paid(d) - d.cash_balance + y
       /\ c.portfolios = d.portfolios /\ c.open_orders = d.open_orders
       /\ c.raised = d.raised /\ c.current_dt = d.current_dt
  BY <1>2, <1>6, <1>8, BalanceKeeps
<1>11. Paid(b) \in Int
  BY <1>1, PaymentsAre DEF Paid
<1>12. Paid(c) = Paid(b)
  BY <1>1, <1>2, <1>4, <1>8, <1>9, <1>10, <1>11 DEF x, y
<1> QED  BY <1>4, <1>9, <1>10, <1>12 DEF p

(* A call that is refused, or has no bearing on the money.                 *)
LEMMA RaisePaid ==
  ASSUME NEW K, NEW b, SoundBroker(b, K)
  PROVE  SoundBroker(Raise(b), K) /\ Paid(Raise(b)) = Paid(b) /\ Raise(b).raised
<1>1. SoundBroker(Raise(b), K) /\ Raise(b).raised /\ Raise(b).portfolios = b.portfolios
      /\ Raise(b).cash_balance = b.cash_balance
  BY RaiseKeeps
<1>2. Payments(Raise(b)) = Payments(b)
  BY <1>1 DEF Payments
<1> QED  BY <1>1, <1>2 DEF Paid

(* A caller that goes on after an exception.                               *)
LEMMA HandledKeeps ==
  ASSUME NEW K, NEW b, SoundBroker(b, K), NEW c, c = [b EXCEPT !.raised = FALSE]
  PROVE  /\ SoundBroker(c, K) /\ Paid(c) = Paid(b) /\ ~c.raised /\ c.current_dt = b.current_dt
         /\ c.portfolios = b.portfolios /\ c.open_orders = b.open_orders
<1>1. b \in BrokerRows
  BY DEF SoundBroker
<1>2. /\ c \in BrokerRows /\ c.cash_balance = b.cash_balance /\ c.portfolios = b.portfolios
      /\ c.open_orders = b.open_orders /\ c.portfolio_ids = b.portfolio_ids
      /\ ~c.raised /\ c.current_dt = b.current_dt
  BY <1>1 DEF BrokerRows
<1>3. SoundBroker(c, K)
  BY <1>2 DEF SoundBroker, SameKeys
<1>4. Payments(c) = Payments(b)
  BY <1>2 DEF Payments
<1> QED  BY <1>2, <1>3, <1>4 DEF Paid

(* subscribe_funds_to_portfolio.                                           *)
LEMMA SubscribePortfolio ==
  ASSUME NEW K, NEW b, SoundBroker(b, K), NEW id, NEW amount \in Int,
         NEW c, c = subscribe_funds_to_portfolio(b, id, amount)
  PROVE  SoundBroker(c, K) /\ Paid(c) = Paid(b)
<1>1. CASE c = Raise(b)
  BY <1>1, RaisePaid
<1>2. CASE c # Raise(b)
  <2>1. /\ id \in DOMAIN b.portfolios
        /\ c = [b EXCEPT !.portfolios[id] = subscribe_funds(@, b.current_dt, amount),
                         !.cash_balance = @ - amount]
    BY <1>2 DEF subscribe_funds_to_portfolio
  <2>2. b \in BrokerRows /\ b.portfolios[id] \in PortfolioRows
        /\ b.portfolios \in [DOMAIN b.portfolios -> PortfolioRows]
    BY <2>1, BrokerFacts DEF SoundBroker
  <2>3. subscribe_funds(b.portfolios[id], b.current_dt, amount)
          = WithCash(b.portfolios[id], b.portfolios[id].cash + amount, b.current_dt)
    BY <2>2 DEF subscribe_funds, WithCash, PortfolioRows
  <2>4. c = Transfer(b, id, amount)
    BY <2>1, <2>2, <2>3 DEF Transfer, BrokerRows
  <2> QED  BY <2>1, <2>4, TransferKeeps
<1> QED  BY <1>1, <1>2

(* withdraw_funds_from_portfolio.                                          *)
LEMMA WithdrawPortfolio ==
  ASSUME NEW K, NEW b, SoundBroker(b, K), NEW id, NEW amount \in Int,
         NEW c, c = withdraw_funds_from_portfolio(b, id, amount)
  PROVE  SoundBroker(c, K) /\ Paid(c) = Paid(b)
<1>1. CASE c = Raise(b)
  BY <1>1, RaisePaid
<1>2. CASE c # Raise(b)
  <2>1. /\ id \in DOMAIN b.portfolios
        /\ c = [b EXCEPT !.portfolios[id] = withdraw_funds(@, b.current_dt, amount),
                         !.cash_balance = @ + amount]
    BY <1>2 DEF withdraw_funds_from_portfolio
  <2>2. b \in BrokerRows /\ b.portfolios[id] \in PortfolioRows /\ b.cash_balance \in Int
        /\ b.portfolios \in [DOMAIN b.portfolios -> PortfolioRows]
    BY <2>1, BrokerFacts DEF SoundBroker
  <2> DEFINE m == -amount
  <2>3. /\ m \in Int /\ b.cash_balance + amount = b.cash_balance - m
        /\ b.portfolios[id].cash - amount = b.portfolios[id].cash + m
    BY <2>2, BooksAreFinite
  <2> HIDE DEF m
  <2>4. withdraw_funds(b.portfolios[id], b.current_dt, amount)
          = WithCash(b.portfolios[id], b.portfolios[id].cash + m, b.current_dt)
    BY <2>2, <2>3 DEF withdraw_funds, WithCash, PortfolioRows
  <2>5. c = Transfer(b, id, m)
    BY <2>1, <2>2, <2>3, <2>4 DEF Transfer, BrokerRows
  <2> QED  BY <2>1, <2>3, <2>5, TransferKeeps
<1> QED  BY <1>1, <1>2

(* subscribe_funds_to_account.                                             *)
LEMMA SubscribeAccount ==
  ASSUME NEW K, NEW b, SoundBroker(b, K), ~b.raised, NEW amount \in Int,
         NEW c, c = subscribe_funds_to_account(b, amount)
  PROVE  SoundBroker(c, K) /\ Paid(c) = IF c.raised THEN Paid(b) ELSE Paid(b) + amount
<1>1. CASE amount < 0
  <2>1. c = Raise(b)
    BY <1>1 DEF subscribe_funds_to_account
  <2> QED  BY <2>1, RaisePaid
<1>2. CASE ~(amount < 0)
  <2> DEFINE x == b.cash_balance + amount
  <2>0. b \in BrokerRows /\ b.cash_balance \in Int /\ x \in Int
    BY BrokerFacts DEF SoundBroker
  <2>1. c = WithBalance(b, x)
    BY <1>2, <2>0 DEF subscribe_funds_to_account, WithBalance, BrokerRows
  <2>2. Paid(b) \in Int
    BY <2>0, PaymentsAre DEF Paid
  <2> HIDE DEF x
  <2>3. SoundBroker(c, K) /\ Paid(c) = Paid(b) - b.cash_balance + x /\ c.raised = b.raised
    BY <2>0, <2>1, BalanceKeeps
  <2> QED  BY <2>0, <2>2, <2>3 DEF x
<1> QED  BY <1>1, <1>2

(* withdraw_funds_from_account.                                            *)
LEMMA WithdrawAccount ==
  ASSUME NEW K, NEW b, SoundBroker(b, K), ~b.raised, NEW amount \in Int,
         NEW c, c = withdraw_funds_from_account(b, amount)
  PROVE  SoundBroker(c, K) /\ Paid(c) = IF c.raised THEN Paid(b) ELSE Paid(b) - amount
<1>1. CASE amount < 0 \/ amount > b.cash_balance
  <2>1. c = Raise(b)
    BY <1>1 DEF withdraw_funds_from_account
  <2> QED  BY <2>1, RaisePaid
<1>2. CASE ~(amount < 0 \/ amount > b.cash_balance)
  <2> DEFINE x == b.cash_balance - amount
  <2>0. b \in BrokerRows /\ b.cash_balance \in Int /\ x \in Int
    BY BrokerFacts DEF SoundBroker
  <2>1. c = WithBalance(b, x)
    BY <1>2, <2>0 DEF withdraw_funds_from_account, WithBalance, BrokerRows
  <2>2. Paid(b) \in Int
    BY <2>0, PaymentsAre DEF Paid
  <2> HIDE DEF x
  <2>3. SoundBroker(c, K) /\ Paid(c) = Paid(b) - b.cash_balance + x /\ c.raised = b.raised
    BY <2>0, <2>1, BalanceKeeps
  <2> QED  BY <2>0, <2>2, <2>3 DEF x
<1> QED  BY <1>1, <1>2

(* submit_order, also to a portfolio that does not exist.                  *)
LEMMA SubmitPaid ==
  ASSUME NEW K, NEW b, SoundBroker(b, K), NEW id, NEW o \in OrderRows,
         NEW c, c = submit_order(b, id, o)
  PROVE  SoundBroker(c, K) /\ Paid(c) = Paid(b)
<1>1. CASE id \notin DOMAIN b.portfolios
  <2>1. c = Raise(b)
    BY <1>1 DEF submit_order
  <2> QED  BY <2>1, RaisePaid
<1>2. CASE id \in DOMAIN b.portfolios
  <2> DEFINE prices == 0
  <2> HIDE DEF prices
  <2>1. SoundBroker(c, K) /\ Submitted(b, c, id, o, prices)
    BY <1>2, SubmitKeeps
  <2>2. SameFunds(b, c)
    BY <2>1 DEF Submitted
  <2> QED  BY <2>1, <2>2, SameFundsSamePaid
<1> QED  BY <1>1, <1>2

(* update pays nothing in or out.                                          *)
LEMMA UpdatePaid ==
  ASSUME NEW K, NEW b, SoundBroker(b, K), NEW dt \in Nat, NEW prices, Priced(prices, K, dt),
         NEW open \in BOOLEAN, NEW c, c = update(b, dt, prices, open)
  PROVE  SoundBroker(c, K) /\ Paid(c) = Paid(b)
<1>1. SoundBroker(c, K) /\ Updated(b, c, dt, prices, open)
  BY UpdateKeeps
<1>2. SameFunds(b, c)
  BY <1>1 DEF Updated
<1> QED  BY <1>1, <1>2, SameFundsSamePaid

(* A dictionary with a new entry.                                          *)
LEMMA ExtendedIs ==
  ASSUME NEW A, NEW X, NEW f \in Partial(A, X), NEW k \in A, NEW v \in X
  PROVE  /\ Extended(f, k, v) \in Partial(A, X)
         /\ DOMAIN Extended(f, k, v) = DOMAIN f \cup {k} /\ Extended(f, k, v)[k] = v
         /\ \A x \in DOMAIN f : x # k => Extended(f, k, v)[x] = f[x]
<1> DEFINE g == Extended(f, k, v)
           S == DOMAIN f \cup {k}
<1>1. DOMAIN f \subseteq A /\ f \in [DOMAIN f -> X]
  BY PartialElim
<1>2. /\ g \in [S -> X] /\ g[k] = v /\ DOMAIN g = S
      /\ \A x \in DOMAIN f : x # k => g[x] = f[x]
  BY <1>1 DEF Extended
<1>3. S \subseteq A
  BY <1>1
<1> HIDE DEF g, S
<1>4. g \in Partial(A, X)
  BY <1>2, <1>3, PartialIntro
<1> QED  BY <1>2, <1>4 DEF g, S

(* An empty portfolio has been paid nothing.                               *)
NewPortfolio(dt) == [Portfolio0 EXCEPT !.current_dt = dt]

(* It is a portfolio, and empty.                                           *)
LEMMA NewPortfolioIs ==
  ASSUME NEW dt \in Nat, NEW p, p = NewPortfolio(dt)
  PROVE  /\ p \in PortfolioRows /\ PaidIn(p) = 0 /\ p.current_dt = dt /\ DOMAIN p.positions = {}
         /\ p.cash = 0 /\ p.closed_pnl = 0
<1> DEFINE e == <<>>
<1>1. e \in Partial(Assets, OpenPositions) /\ DOMAIN e = {}
  BY NoEntries
<1>2. p = [cash |-> 0, positions |-> e, current_dt |-> dt, closed_pnl |-> 0]
  BY DEF NewPortfolio, Portfolio0
<1> HIDE DEF e
<1>3. /\ p \in PortfolioRows /\ p.positions = e /\ p.current_dt = dt /\ p.cash = 0
      /\ p.closed_pnl = 0
  BY <1>1, <1>2 DEF PortfolioRows
<1> DEFINE m == [a \in DOMAIN p.positions |-> net_incl_commission(p.positions[a])]
<1>4. DOMAIN m = {} /\ PaidIn(p) = 0 - 0 - SumFunctionOnSet(m, DOMAIN m)
  BY <1>1, <1>3 DEF PaidIn, SumFunction
<1> HIDE DEF m
<1>5. SumFunctionOnSet(m, DOMAIN m) = 0
  BY <1>4, SumEmpty
<1> QED  BY <1>1, <1>3, <1>4, <1>5

(* create_portfolio, also under an ID that is taken.                       *)
LEMMA CreateKeeps ==
  ASSUME NEW K, NEW b, SoundBroker(b, K), NEW id \in Ids, NEW c, c = create_portfolio(b, id)
  PROVE  /\ SoundBroker(c, K) /\ Paid(c) = Paid(b)
         /\ id \notin DOMAIN b.portfolios =>
              /\ DOMAIN c.portfolios = DOMAIN b.portfolios \cup {id}
              /\ c.portfolios[id] = NewPortfolio(b.current_dt) /\ c.open_orders[id] = <<>>
              /\ c.cash_balance = b.cash_balance /\ c.raised = b.raised
              /\ c.current_dt = b.current_dt
<1>1. CASE id \in DOMAIN b.portfolios
  <2>1. c = Raise(b)
    BY <1>1 DEF create_portfolio
  <2> QED  BY <1>1, <2>1, RaisePaid
<1>2. CASE id \notin DOMAIN b.portfolios
  <2> DEFINE p == NewPortfolio(b.current_dt)
             ids == Append(b.portfolio_ids, id)
             ps == Extended(b.portfolios, id, p)
             e == <<>>
             qs == Extended(b.open_orders, id, e)
             S == DOMAIN b.portfolios
             T == S \cup {id}
  <2>1. b \in BrokerRows /\ SameKeys(b) /\ b.current_dt \in Nat /\ b.cash_balance \in Int
        /\ b.portfolio_ids \in Seq(Ids) /\ b.portfolios \in Partial(Ids, PortfolioRows)
        /\ b.open_orders \in Partial(Ids, Seq(OrderRows))
    BY BrokerFacts DEF SoundBroker, BrokerRows
  <2>2. c = [b EXCEPT !.portfolio_ids = ids, !.portfolios = ps, !.open_orders = qs]
    BY <1>2, <2>1 DEF create_portfolio, NewPortfolio, BrokerRows
  <2>3. p \in PortfolioRows /\ PaidIn(p) = 0 /\ DOMAIN p.positions = {}
    <3>1. p = NewPortfolio(b.current_dt)
      OBVIOUS
    <3> HIDE DEF p
    <3> QED  BY <2>1, <3>1, NewPortfolioIs
  <2>4. e \in Seq(OrderRows)
    OBVIOUS
  <2> HIDE DEF p, e
  <2>5. ps \in Partial(Ids, PortfolioRows) /\ DOMAIN ps = T /\ ps[id] = p
        /\ \A i \in S : i # id => ps[i] = b.portfolios[i]
    <3> DEFINE h == b.portfolios
    <3>1. h \in Partial(Ids, PortfolioRows)
      BY <2>1
    <3> HIDE DEF h
    <3>2. /\ Extended(h, id, p) \in Partial(Ids, PortfolioRows)
          /\ DOMAIN Extended(h, id, p) = DOMAIN h \cup {id} /\ Extended(h, id, p)[id] = p
          /\ \A x \in DOMAIN h : x # id => Extended(h, id, p)[x] = h[x]
      BY <2>3, <3>1, ExtendedIs
    <3> QED  BY <3>2 DEF h
  <2>6. DOMAIN b.open_orders = S
    BY <2>1 DEF SameKeys
  <2>7. qs \in Partial(Ids, Seq(OrderRows)) /\ DOMAIN qs = T /\ qs[id] = e
    <3> DEFINE h == b.open_orders
               R == Seq(OrderRows)
    <3>1. h \in Partial(Ids, R) /\ e \in R
      BY <2>1, <2>4
    <3> HIDE DEF h, R
    <3>2. /\ Extended(h, id, e) \in Partial(Ids, R)
          /\ DOMAIN Extended(h, id, e) = DOMAIN h \cup {id} /\ Extended(h, id, e)[id] = e
      BY <3>1, ExtendedIs
    <3> QED  BY <2>6, <3>2 DEF h, R
  <2> HIDE DEF ps, qs
  <2>8. /\ ids \in Seq(Ids)
        /\ \A i \in 1..Len(ids) : ids[i] \in T
        /\ \A y \in T : \E i \in 1..Len(ids) : ids[i] = y
        /\ \A i, j \in 1..Len(ids) : ids[i] = ids[j] => i = j
    <3> DEFINE s == b.portfolio_ids
    <3>1. ids = Append(s, id)
      OBVIOUS
    <3>2. Lists(s, Ids, S)
      BY <2>1 DEF SameKeys, Lists
    <3> HIDE DEF ids, s, S
    <3>3. Lists(ids, Ids, S \cup {id})
      BY <1>2, <3>1, <3>2, NewAtTheEnd DEF S
    <3> QED  BY <3>3 DEF Lists
  <2>9. IsFiniteSet(S) /\ IsFiniteSet(T)
    <3>1. IsFiniteSet(S)
      BY <2>1 DEF SameKeys
    <3> QED  BY <3>1, FS_AddElement
  <2> HIDE DEF ids
  <2>10. /\ c \in BrokerRows /\ c.portfolio_ids = ids /\ c.portfolios = ps /\ c.open_orders = qs
         /\ c.cash_balance = b.cash_balance /\ c.raised = b.raised /\ c.current_dt = b.current_dt
    BY <2>1, <2>2, <2>5, <2>7, <2>8 DEF BrokerRows
  <2>11. SameKeys(c)
    <3>1. DOMAIN c.portfolios = T /\ DOMAIN c.open_orders = T /\ c.portfolio_ids = ids
      BY <2>5, <2>7, <2>10
    <3> HIDE DEF T
    <3> QED  BY <2>8, <2>9, <3>1 DEF SameKeys
  <2>12. \A i \in DOMAIN c.portfolios : Marked(c.portfolios[i], K)
    <3>1. Marked(p, K)
      BY <2>3 DEF Marked
    <3>2. \A i \in S : Marked(b.portfolios[i], K)
      BY DEF SoundBroker
    <3> QED  BY <2>5, <2>10, <3>1, <3>2
  <2>13. SoundBroker(c, K)
    BY <2>10, <2>11, <2>12 DEF SoundBroker
  <2> DEFINE f == Payments(b)
             g == Payments(c)
  <2>14. /\ \A i \in S : f[i] = PaidIn(b.portfolios[i]) /\ f[i] \in Int
         /\ SumFunctionOnSet(f, S) \in Int
    BY PaymentsAre
  <2>15. \A i \in T : g[i] = PaidIn(ps[i]) /\ g[i] \in Int
    BY <2>5, <2>10, <2>13, PaymentsAre
  <2>16. Paid(b) = b.cash_balance + SumFunctionOnSet(f, S)
         /\ Paid(c) = b.cash_balance + SumFunctionOnSet(g, T)
    BY <2>5, <2>10 DEF Paid
  <2> HIDE DEF f, g
  <2>17. /\ \A y \in S : f[y] \in Int
         /\ \A y \in T : g[y] \in Int
         /\ \A y \in S \ {id} : f[y] = g[y]
         /\ S \ {id} = T \ {id} /\ id \notin S /\ id \in T
         /\ g[id] = 0
    BY <1>2, <2>3, <2>5, <2>14, <2>15
  <2> HIDE DEF S, T
  <2>18. SumFunctionOnSet(g, T) = SumFunctionOnSet(f, S)
             - (IF id \in S THEN f[id] ELSE 0) + (IF id \in T THEN g[id] ELSE 0)
    BY <2>9, <2>17, SumPut
  <2>19. Paid(c) = Paid(b)
    BY <2>14, <2>16, <2>17, <2>18
  <2> QED  BY <2>5, <2>7, <2>10, <2>13, <2>19 DEF p, e, S, T
<1> QED  BY <1>1, <1>2

(* A broker without portfolios.                                            *)
LEMMA NewBroker ==
  ASSUME NEW K, NEW funds \in Int, NEW dt \in Nat, NEW b, b = Broker0(funds, dt)
  PROVE  /\ SoundBroker(b, K) /\ Paid(b) = funds
         /\ DOMAIN b.portfolios = {} /\ b.cash_balance = funds /\ ~b.raised /\ b.current_dt = dt
<1> DEFINE e == <<>>
<1>1. /\ e \in Partial(Ids, PortfolioRows) /\ e \in Partial(Ids, Seq(OrderRows))
      /\ DOMAIN e = {} /\ e \in Seq(Ids) /\ Len(e) = 0
  BY NoEntries
<1>2. b = [cash_balance |-> funds, portfolio_ids |-> e, portfolios |-> e,
           open_orders |-> e, current_dt |-> dt, raised |-> FALSE]
  BY DEF Broker0
<1> HIDE DEF e
<1>3. /\ b \in BrokerRows /\ b.portfolios = e /\ b.open_orders = e /\ b.portfolio_ids = e
      /\ b.cash_balance = funds /\ ~b.raised /\ b.current_dt = dt
  BY <1>1, <1>2 DEF BrokerRows
<1>4. IsFiniteSet({})
  BY FS_EmptySet
<1>5. SoundBroker(b, K)
  <2>1. \A i \in 1..0 : FALSE
    OBVIOUS
  <2> QED  BY <1>1, <1>3, <1>4, <2>1 DEF SoundBroker, SameKeys
<1>6. Paid(b) = funds
  <2>1. DOMAIN b.portfolios = {}
    BY <1>1, <1>3
  <2>2. SumFunctionOnSet(Payments(b), DOMAIN b.portfolios) = 0
    BY <2>1, SumEmpty
  <2> QED  BY <1>3, <2>2 DEF Paid
<1> QED  BY <1>1, <1>3, <1>5, <1>6

---------------------------------------------------------------------------
(* A rebalance.                                                            *)

(* Nothing is in the way of a rebalance of b.                              *)
Calm(b, t, p) == TimelyAt(b, t) /\ ~b.raised /\ AllEmpty(b) /\ AllPriced(b, p)

(* r is the outcome of a rebalance of b: a refusal to size that leaves     *)
(* everything as it was, or orders for the whole difference.               *)
Rebalanced(b, r, t, p, open) ==
  \/ /\ r.broker.raised /\ r.target = target
     /\ r.broker.portfolios = b.portfolios /\ r.broker.open_orders = b.open_orders
  \/ Calm(b, t, p) =>
       /\ ~r.broker.raised /\ TimelyAt(r.broker, t) /\ AllPriced(r.broker, p)
       /\ open => AllEmpty(r.broker)
       /\ \A a \in Assets : Due(r.broker, PortfolioId, a) = r.target[a]

(* The sizer refuses a decision.                                           *)
Refused(b, t, weights, p) ==
  sizing_raises(session.long_only, full_weights(Positions(b), get_assets(t), weights), p)

(* The weights a rebalance sizes with name every asset that is held.       *)
LEMMA FullWeights ==
  ASSUME NEW ps, DOMAIN ps \subseteq Assets, NEW t, NEW weights \in Decisions,
         NEW full, full = full_weights(ps, get_assets(t), weights)
  PROVE  /\ DOMAIN full \subseteq Assets /\ \A x \in DOMAIN full : full[x] \in Int
         /\ DOMAIN ps \subseteq DOMAIN full
<1>1. DOMAIN weights \subseteq Assets /\ weights \in [DOMAIN weights -> Int]
  BY BacktestAssumption
<1>2. get_assets(t) \subseteq Assets
  BY DEF get_assets
<1> QED  BY <1>1, <1>2 DEF full_weights

(* A rebalance, whether it raises or not.                                  *)
LEMMA SizeAndSubmit ==
  ASSUME NEW K, NEW b, SoundBroker(b, K), PortfolioId \in DOMAIN b.portfolios, NEW t \in Nat,
         NEW weights \in Decisions, NEW p, Priced(p, K, t), session \in Sessions,
         NEW r, r = size_and_submit(b, t, weights, p)
  PROVE  /\ SoundBroker(r.broker, K) /\ Kept(b, r.broker, t, is_open_at_datetime(t))
         /\ Rebalanced(b, r, t, p, is_open_at_datetime(t))
         /\ Calm(b, t, p) /\ ~Refused(b, t, weights, p) => ~r.broker.raised
<1> DEFINE pf == b.portfolios[PortfolioId]
           ps == Positions(b)
           full == full_weights(ps, get_assets(t), weights)
           sized == target_portfolio(session.long_only, pf, full, p)
           orders == generate_rebalance_orders(t, sized, ps)
           open == is_open_at_datetime(t)
           c == execution_handler(b, PortfolioId, t, orders, p, open)
           tg == [a \in Assets |-> IF a \in DOMAIN sized THEN sized[a] ELSE 0]
<1>1. b \in BrokerRows /\ pf \in PortfolioRows /\ ps = pf.positions
  BY BrokerFacts DEF SoundBroker, Positions
<1>2. DOMAIN ps \subseteq Assets
  BY <1>1, BooksAreFinite
<1>3. p \in [Assets -> Prices \cup {NaN}] /\ session.long_only \in BOOLEAN /\ open \in BOOLEAN
  BY BacktestAssumption DEF Priced, SessionType, is_open_at_datetime, IsBusinessDay
<1>4. /\ DOMAIN full \subseteq Assets /\ \A x \in DOMAIN full : full[x] \in Int
      /\ DOMAIN ps \subseteq DOMAIN full
  <2> HIDE DEF ps
  <2> QED  BY <1>2, FullWeights
<1>5. CASE sizing_raises(session.long_only, full, p)
  <2>1. r = [broker |-> [b EXCEPT !.raised = TRUE], target |-> target]
    BY <1>5 DEF size_and_submit
  <2>2. r.broker = Raise(b) /\ r.target = target
    BY <2>1 DEF Raise
  <2>3. /\ SoundBroker(r.broker, K) /\ r.broker.raised
        /\ r.broker.cash_balance = b.cash_balance /\ r.broker.portfolio_ids = b.portfolio_ids
        /\ r.broker.portfolios = b.portfolios /\ r.broker.open_orders = b.open_orders
        /\ r.broker.current_dt = b.current_dt
    BY <2>2, RaiseKeeps
  <2>4. Kept(b, r.broker, t, open)
    BY <2>3 DEF Kept, SameFunds, HeldIn
  <2>5. Refused(b, t, weights, p)
    BY <1>5 DEF Refused
  <2> QED  BY <2>2, <2>3, <2>4, <2>5 DEF Rebalanced
<1>6. CASE ~sizing_raises(session.long_only, full, p)
  <2>1. r = [broker |-> c, target |-> tg]
    BY <1>6 DEF size_and_submit
  <2>2. r.broker = c /\ r.target = tg
    BY <2>1
  <2> HIDE DEF full, pf, open
  <2>3. /\ DOMAIN sized = DOMAIN full
        /\ \A a \in DOMAIN full : sized[a] \in Int /\ held(pf.positions, a) \in Int /\ p[a] # NaN
    BY <1>1, <1>3, <1>4, <1>6, TargetIsWhole
  <2>4. \A a \in Assets : tg[a] = IF a \in DOMAIN full THEN sized[a] ELSE 0
    BY <2>3
  <2> HIDE DEF sized, ps, tg, c
  <2>5. Rebalances(orders, sized, ps)
    BY <1>1, <1>4, <2>3, OrdersRebalance
  <2>6. /\ orders \in Seq(OrderRows)
        /\ \A j \in 1..Len(orders) : orders[j].asset \in DOMAIN full
        /\ \A a \in Assets : queued(orders, a) = IF a \in DOMAIN full THEN sized[a] - held(ps, a) ELSE 0
    BY <2>3, <2>5 DEF Rebalances
  <2> HIDE DEF orders
  <2>7. /\ SoundBroker(c, K) /\ Kept(b, c, t, open)
        /\ Ready(b, t, orders, p) => Carried(b, c, PortfolioId, t, orders, p, open, Len(orders))
    BY <1>3, <2>6, HandlerKeeps DEF c
  <2>8. ASSUME Calm(b, t, p)
        PROVE  /\ ~c.raised /\ TimelyAt(c, t) /\ AllPriced(c, p)
               /\ open => AllEmpty(c)
               /\ \A a \in Assets : Due(c, PortfolioId, a) = tg[a]
    <3>1. Ready(b, t, orders, p)
      BY <2>3, <2>6, <2>8 DEF Ready, Calm
    <3>2. Carried(b, c, PortfolioId, t, orders, p, open, Len(orders))
      BY <2>7, <3>1
    <3>3. AllEmpty(b)
      BY <2>8 DEF Calm
    <3>4. ASSUME NEW a \in Assets PROVE Due(c, PortfolioId, a) = tg[a]
      <4>1. SumFunctionOnSet(Additions(orders, a), 1..Len(orders)) = queued(orders, a)
        BY <2>6, QueuedIs
      <4>2. Due(c, PortfolioId, a) = Due(b, PortfolioId, a) + queued(orders, a)
        BY <3>2, <4>1 DEF Carried
      <4>3. queued(b.open_orders[PortfolioId], a) = 0
        BY <3>3, NothingQueued DEF AllEmpty
      <4>4. HeldIn(b, PortfolioId, a) \in Int /\ HeldIn(b, PortfolioId, a) = held(ps, a)
        BY <1>1, HeldIsInt DEF HeldIn, pf
      <4>5. Due(b, PortfolioId, a) = held(ps, a) /\ held(ps, a) \in Int
        BY <4>3, <4>4 DEF Due
      <4>6. a \notin DOMAIN full => held(ps, a) = 0
        BY <1>4 DEF held
      <4>7. a \in DOMAIN full => sized[a] \in Int
        BY <2>3
      <4> QED  BY <2>4, <2>6, <4>2, <4>5, <4>6, <4>7
    <3> QED  BY <3>2, <3>3, <3>4 DEF Carried
  <2>9. Rebalanced(b, r, t, p, open) /\ (Calm(b, t, p) => ~r.broker.raised)
    BY <2>2, <2>8 DEF Rebalanced
  <2> QED  BY <2>2, <2>7, <2>9 DEF open
<1> QED  BY <1>5, <1>6

---------------------------------------------------------------------------
(* What is known of prices, and the invariant.                             *)

(* The assets and times with a price, as a session and as a caller by hand *)
(* know them.                                                              *)
SessionKnown(p) == {x \in Assets \X Nat : p[x[1]] # NaN}
HandKnown == {x \in Assets \X Nat : x[2] \in DOMAIN HandPrices /\ HandPrices[x[2]][x[1]] # NaN}
Known == IF phase = "by_hand" THEN HandKnown ELSE SessionKnown(price)

(* Books that add up: what was paid in, as they tell it, is what was.      *)
MoneyInv ==
  /\ phase \in {"running", "done", "failed", "by_hand"}
  /\ now \in Nat /\ price \in [Assets -> Prices \cup {NaN}]
  /\ InSession => session \in Sessions /\ PortfolioId \in DOMAIN broker.portfolios
  /\ SoundBroker(broker, Known)
  /\ Paid(broker) = funded

(* Books read with some prices are read with more.                         *)
LEMMA MoreKnown ==
  ASSUME NEW K, NEW L, K \subseteq L, NEW b, SoundBroker(b, K)
  PROVE  SoundBroker(b, L)
  BY DEF SoundBroker, Marked

(* The prices of a session's event.                                        *)
LEMMA SessionPriced ==
  ASSUME NEW p \in [Assets -> Prices \cup {NaN}], NEW t \in Nat
  PROVE  Priced(p, SessionKnown(p), t)
  BY DEF Priced, SessionKnown

(* The prices of an update by hand; padded bars do not forget a price.     *)
LEMMA HandPriced ==
  ASSUME NEW t \in DOMAIN HandPrices
  PROVE  t \in Nat /\ Priced(HandPrices[t], HandKnown, t)
<1>1. t \in Nat /\ HandPrices[t] \in [Assets -> Prices \cup {NaN}]
  BY HandAssumption
<1>2. ASSUME NEW a \in Assets, HandPrices[t][a] # NaN PROVE <<a, t>> \in HandKnown
  BY <1>1, <1>2 DEF HandKnown
<1>3. ASSUME NEW a \in Assets, NEW u \in Nat, <<a, u>> \in HandKnown, u <= t
      PROVE  HandPrices[t][a] # NaN
  <2>1. u \in DOMAIN HandPrices /\ HandPrices[u][a] # NaN
    BY <1>3 DEF HandKnown
  <2> QED  BY <1>3, <2>1, HandAssumption
<1> QED  BY <1>1, <1>2, <1>3 DEF Priced

(* Nor does a session.                                                     *)
LEMMA NextKnown ==
  ASSUME price \in [Assets -> Prices \cup {NaN}], NEW p \in NextPrices
  PROVE  p \in [Assets -> Prices \cup {NaN}] /\ SessionKnown(price) \subseteq SessionKnown(p)
  BY DEF NextPrices, SessionKnown

(* The account a session starts with.                                      *)
FirstBroker(F, dt) ==
  subscribe_funds_to_portfolio(create_portfolio(Broker0(F, dt), PortfolioId), PortfolioId, F)

(* It has the initial cash in its one portfolio and has not traded.        *)
Started(b, K, F, dt) ==
  /\ SoundBroker(b, K) /\ Paid(b) = F /\ ~b.raised /\ b.current_dt = dt
  /\ DOMAIN b.portfolios = {PortfolioId} /\ b.open_orders[PortfolioId] = <<>>
  /\ b.portfolios[PortfolioId].current_dt = dt
  /\ DOMAIN b.portfolios[PortfolioId].positions = {}
  /\ b.portfolios[PortfolioId].cash = F /\ b.portfolios[PortfolioId].closed_pnl = 0

(* What create_portfolio and the transfer of the initial cash make of a    *)
(* new broker.                                                             *)
LEMMA FirstAccount ==
  ASSUME NEW K, NEW dt \in Nat, NEW F \in Nat, NEW b, b = FirstBroker(F, dt)
  PROVE  Started(b, K, F, dt)
<1> DEFINE b0 == Broker0(F, dt)
           b1 == create_portfolio(b0, PortfolioId)
<1>1. /\ SoundBroker(b0, K) /\ Paid(b0) = F /\ DOMAIN b0.portfolios = {} /\ b0.cash_balance = F
      /\ ~b0.raised /\ b0.current_dt = dt
  <2>1. b0 = Broker0(F, dt) /\ F \in Int
    OBVIOUS
  <2> HIDE DEF b0
  <2> QED  BY <2>1, NewBroker
<1> HIDE DEF b0
<1>2. PortfolioId \in Ids
  BY DEF Ids
<1>3. b1 = create_portfolio(b0, PortfolioId)
  OBVIOUS
<1>4. b = subscribe_funds_to_portfolio(b1, PortfolioId, F)
  BY DEF b0, FirstBroker
<1> HIDE DEF b1
<1>5. /\ SoundBroker(b1, K) /\ Paid(b1) = F
      /\ DOMAIN b1.portfolios = {PortfolioId}
      /\ b1.portfolios[PortfolioId] = NewPortfolio(dt) /\ b1.open_orders[PortfolioId] = <<>>
      /\ b1.cash_balance = F /\ ~b1.raised /\ b1.current_dt = dt
  BY <1>1, <1>2, <1>3, CreateKeeps
<1> DEFINE p == b1.portfolios[PortfolioId]
<1>6. /\ p \in PortfolioRows /\ p.current_dt = dt /\ DOMAIN p.positions = {} /\ p.cash = 0
      /\ p.closed_pnl = 0
  <2>1. p = NewPortfolio(dt)
    BY <1>5
  <2> HIDE DEF p
  <2> QED  BY <2>1, NewPortfolioIs
<1>7. b = [b1 EXCEPT !.portfolios[PortfolioId] = subscribe_funds(@, b1.current_dt, F),
                     !.cash_balance = @ - F]
  BY <1>4, <1>5, <1>6 DEF subscribe_funds_to_portfolio, too_early
<1>8. b1 \in BrokerRows /\ b1.portfolios \in [DOMAIN b1.portfolios -> PortfolioRows]
  BY <1>5, BrokerFacts DEF SoundBroker
<1>9. subscribe_funds(p, b1.current_dt, F) = WithCash(p, p.cash + F, b1.current_dt)
  BY <1>6 DEF subscribe_funds, WithCash, PortfolioRows
<1>10. b = Transfer(b1, PortfolioId, F)
  BY <1>5, <1>7, <1>8, <1>9 DEF Transfer, BrokerRows
<1>11. /\ SoundBroker(b, K) /\ Paid(b) = Paid(b1) /\ b.open_orders = b1.open_orders
       /\ DOMAIN b.portfolios = DOMAIN b1.portfolios
       /\ b.portfolios[PortfolioId].positions = b1.portfolios[PortfolioId].positions
       /\ b.portfolios[PortfolioId].current_dt = b1.current_dt
       /\ b.raised = b1.raised /\ b.current_dt = b1.current_dt
  <2>1. PortfolioId \in DOMAIN b1.portfolios /\ F \in Int
    BY <1>5
  <2> QED  BY <1>5, <1>10, <2>1, TransferKeeps
<1>12. b.portfolios[PortfolioId].cash = F /\ b.portfolios[PortfolioId].closed_pnl = 0
  <2> DEFINE q == WithCash(p, p.cash + F, b1.current_dt)
  <2>1. q.cash = F /\ q.closed_pnl = 0
    <3> HIDE DEF p
    <3> QED  BY <1>6 DEF WithCash, PortfolioRows
  <2>2. b = [b1 EXCEPT !.portfolios[PortfolioId] = q, !.cash_balance = b1.cash_balance - F]
    BY <1>10 DEF Transfer
  <2> HIDE DEF q
  <2>3. b.portfolios[PortfolioId] = q
    BY <1>5, <1>8, <2>2 DEF BrokerRows
  <2> QED  BY <2>1, <2>3
<1> QED  BY <1>5, <1>6, <1>11, <1>12 DEF Started

(* The exchange is open or not.                                            *)
LEMMA OpenIsBoolean == \A t : is_open_at_datetime(t) \in BOOLEAN
  BY DEF is_open_at_datetime, IsBusinessDay

(* An event's update and, if there is one, its rebalance.                  *)
LEMMA EventKeeps ==
  ASSUME NEW K, NEW b, SoundBroker(b, K), PortfolioId \in DOMAIN b.portfolios, NEW t \in Nat,
         NEW p, Priced(p, K, t), NEW u, u = update(b, t, p, is_open_at_datetime(t))
  PROVE  /\ SoundBroker(u, K) /\ Updated(b, u, t, p, is_open_at_datetime(t))
         /\ Kept(b, u, t, is_open_at_datetime(t))
         /\ PortfolioId \in DOMAIN u.portfolios /\ u.current_dt = t
<1>1. SoundBroker(u, K) /\ Updated(b, u, t, p, is_open_at_datetime(t))
  BY OpenIsBoolean, UpdateKeeps
<1> QED  BY <1>1 DEF Updated, Kept, SameFunds

(* What an event of a session does to the broker.                          *)
EventOf(t, u, c) ==
  /\ u = update(broker, t, price', is_open_at_datetime(t))
  /\ \/ c = u
     \/ \E weights \in Decisions : c = size_and_submit(u, t, weights, price').broker

(* An event keeps the books in order, whatever it raises.                  *)
LEMMA SessionStep ==
  ASSUME phase = "running", MoneyInv, NEW t \in Nat, price' \in NextPrices,
         NEW u, NEW c, EventOf(t, u, c)
  PROVE  /\ price' \in [Assets -> Prices \cup {NaN}]
         /\ SoundBroker(broker, SessionKnown(price')) /\ Priced(price', SessionKnown(price'), t)
         /\ SoundBroker(c, SessionKnown(price')) /\ Kept(broker, c, t, is_open_at_datetime(t))
         /\ Paid(c) = Paid(broker) /\ PortfolioId \in DOMAIN c.portfolios
<1> DEFINE p == price'
           K == SessionKnown(p)
           open == is_open_at_datetime(t)
<1>1. session \in Sessions /\ PortfolioId \in DOMAIN broker.portfolios
      /\ SoundBroker(broker, SessionKnown(price)) /\ price \in [Assets -> Prices \cup {NaN}]
  BY DEF MoneyInv, InSession, Known
<1>2. p \in [Assets -> Prices \cup {NaN}] /\ SessionKnown(price) \subseteq K
  BY <1>1, NextKnown
<1>3. SoundBroker(broker, K)
  BY <1>1, <1>2, MoreKnown
<1>4. Priced(p, K, t)
  BY <1>2, SessionPriced
<1>5. u = update(broker, t, p, open)
      /\ (c = u \/ \E weights \in Decisions : c = size_and_submit(u, t, weights, p).broker)
  BY DEF EventOf
<1> HIDE DEF p, K
<1>6. /\ SoundBroker(u, K) /\ Kept(broker, u, t, open) /\ PortfolioId \in DOMAIN u.portfolios
  BY <1>1, <1>3, <1>4, <1>5, EventKeeps
<1>7. SoundBroker(c, K) /\ Kept(broker, c, t, open)
  <2>1. CASE c = u
    BY <1>6, <2>1
  <2>2. ASSUME NEW weights \in Decisions, c = size_and_submit(u, t, weights, p).broker
        PROVE  SoundBroker(c, K) /\ Kept(broker, c, t, open)
    <3> DEFINE r == size_and_submit(u, t, weights, p)
    <3>1. r = size_and_submit(u, t, weights, p) /\ c = r.broker
      BY <2>2
    <3> HIDE DEF r
    <3>2. SoundBroker(r.broker, K) /\ Kept(u, r.broker, t, open)
      BY <1>1, <1>4, <1>6, <3>1, SizeAndSubmit
    <3> HIDE DEF open
    <3>3. SoundBroker(c, K) /\ Kept(u, c, t, open)
      BY <3>1, <3>2
    <3> QED  BY <1>6, <3>3, KeptTrans
  <2> QED  BY <1>5, <2>1, <2>2
<1>8. SameFunds(broker, c)
  BY <1>7 DEF Kept
<1>9. Paid(c) = Paid(broker)
  BY <1>8, SameFundsSamePaid
<1>10. PortfolioId \in DOMAIN c.portfolios
  BY <1>1, <1>8 DEF SameFunds
<1> QED  BY <1>2, <1>3, <1>4, <1>7, <1>9, <1>10 DEF p, K

(* Every event is an update and perhaps a rebalance.                       *)
LEMMA EventsOfNext ==
  ASSUME session \in Sessions, NEW t \in sim_events(session)
  PROVE  /\ t \in Nat \ {0}
         /\ PlainEvent(t) => \E u, c : EventOf(t, u, c) /\ broker' = c
         /\ RebalanceEvent(t) => \E u, c : EventOf(t, u, c) /\ broker' = c
<1>1. t \in Nat \ {0}
  BY EventsArePositive, BacktestAssumption
<1>2. ASSUME PlainEvent(t) PROVE \E u, c : EventOf(t, u, c) /\ broker' = c
  BY <1>2 DEF PlainEvent, Finish, EventOf
<1>3. ASSUME RebalanceEvent(t) PROVE \E u, c : EventOf(t, u, c) /\ broker' = c
  <2> DEFINE u == update(broker, t, price', is_open_at_datetime(t))
  <2>1. PICK weights \in Decisions : broker' = rebalanced(u, t, weights, price').broker
    BY <1>3 DEF RebalanceEvent, Finish
  <2>2. EventOf(t, u, broker')
    <3>1. u = update(broker, t, price', is_open_at_datetime(t))
      OBVIOUS
    <3> HIDE DEF u
    <3>2. broker' = u \/ broker' = size_and_submit(u, t, weights, price').broker
      BY <2>1 DEF rebalanced
    <3> QED  BY <3>1, <3>2 DEF EventOf
  <2> QED  BY <2>2
<1> QED  BY <1>1, <1>2, <1>3

(* Through every session and every sequence of calls by hand, the broker   *)
(* stays a broker and its books tell what was paid in: cash, positions,    *)
(* realised profit and queues stay consistent over transfers, refused      *)
(* calls, partial sales, reversals, and drains that raise half way.        *)
THEOREM BooksBalance == UseSpec => []MoneyInv
<1>1. UseInit => MoneyInv
  <2>1. ASSUME SessionInit PROVE MoneyInv
    <3> DEFINE F == InitialCash * FeeUnit
               K == SessionKnown(price)
               dt == session.start_dt
    <3>1. session \in Sessions /\ dt \in Nat
      BY <2>1, BacktestAssumption DEF SessionInit, Init, SessionType
    <3>2. F \in Nat
      BY BacktestAssumption, FeeAssumption
    <3>3. broker = FirstBroker(F, dt)
      BY <2>1 DEF SessionInit, Init, FirstBroker
    <3>4. funded = F /\ phase = "running" /\ now = 0 /\ price = [a \in Assets |-> NaN]
      BY <2>1 DEF SessionInit, Init
    <3> HIDE DEF F, K, dt
    <3>5. SoundBroker(broker, K) /\ Paid(broker) = F /\ DOMAIN broker.portfolios = {PortfolioId}
      <4>1. Started(broker, K, F, dt)
        BY <3>1, <3>2, <3>3, FirstAccount
      <4> QED  BY <4>1 DEF Started
    <3> QED  BY <3>1, <3>4, <3>5 DEF MoneyInv, Known, K, InSession
  <2>2. ASSUME HandInit PROVE MoneyInv
    <3>1. broker = Broker0(0, 0) /\ funded = 0 /\ phase = "by_hand" /\ now = 0
          /\ price = [a \in Assets |-> NaN]
      BY <2>2 DEF HandInit
    <3>2. SoundBroker(broker, HandKnown) /\ Paid(broker) = 0
      BY <3>1, NewBroker
    <3> QED  BY <3>1, <3>2 DEF MoneyInv, Known, InSession
  <2> QED  BY <2>1, <2>2 DEF UseInit
<1>2. MoneyInv /\ [UseNext]_allVars => MoneyInv'
  <2> SUFFICES ASSUME MoneyInv, [UseNext]_allVars PROVE MoneyInv'
    OBVIOUS
  <2>1. CASE Next /\ UNCHANGED handVars
    <3>1. phase # "by_hand" /\ phase = "running" /\ session \in Sessions
      BY <2>1 DEF Next, PlainEvent, RebalanceEvent, End, MoneyInv, InSession
    <3>2. ASSUME NEW t \in sim_events(session), PlainEvent(t) \/ RebalanceEvent(t) PROVE MoneyInv'
      <4>1. t \in Nat /\ \E u, c : EventOf(t, u, c) /\ broker' = c
        BY <3>1, <3>2, EventsOfNext
      <4>2. price' \in NextPrices
        BY <3>2 DEF PlainEvent, RebalanceEvent
      <4>3. now' = t /\ phase' \in {"running", "failed"} /\ session' = session /\ funded' = funded
        BY <2>1, <3>2 DEF PlainEvent, RebalanceEvent, Finish, handVars
      <4>4. /\ price' \in [Assets -> Prices \cup {NaN}]
            /\ SoundBroker(broker', SessionKnown(price'))
            /\ Paid(broker') = Paid(broker) /\ PortfolioId \in DOMAIN broker'.portfolios
        BY <3>1, <4>1, <4>2, SessionStep
      <4> QED  BY <3>1, <4>1, <4>3, <4>4 DEF MoneyInv, Known, InSession, Paid, Payments
    <3>3. CASE End
      BY <2>1, <3>1, <3>3 DEF End, MoneyInv, Known, InSession, handVars, Paid, Payments
    <3> QED  BY <2>1, <3>2, <3>3 DEF Next
  <2>2. CASE HandNext
    <3> DEFINE b == Handled
    <3>0. phase = "by_hand" /\ phase' = "by_hand"
      BY <2>2 DEF HandNext, CreatePortfolio, SubscribeToAccount, WithdrawFromAccount,
                  SubscribeToPortfolio, WithdrawFromPortfolio, Submit, Update, Call
    <3>1. SoundBroker(broker, HandKnown) /\ now \in Nat /\ price \in [Assets -> Prices \cup {NaN}]
          /\ Paid(broker) = funded
      BY <3>0 DEF MoneyInv, Known
    <3>2. SoundBroker(b, HandKnown) /\ Paid(b) = funded /\ ~b.raised
      BY <3>1, HandledKeeps DEF Handled
    <3>3. ASSUME now' \in Nat, price' \in [Assets -> Prices \cup {NaN}],
                 SoundBroker(broker', HandKnown), Paid(broker') = funded'
          PROVE  MoneyInv'
      BY <3>0, <3>3 DEF MoneyInv, Known, InSession, Paid, Payments
    <3> HIDE DEF b
    <3>4. ASSUME NEW id \in HandIds, CreatePortfolio(id) PROVE MoneyInv'
      <4>1. broker' = create_portfolio(b, id) /\ UNCHANGED <<now, price, funded>>
        BY <3>4 DEF CreatePortfolio, Call, b
      <4>2. id \in Ids
        BY DEF Ids
      <4>3. SoundBroker(broker', HandKnown) /\ Paid(broker') = Paid(b)
        BY <3>2, <4>1, <4>2, CreateKeeps
      <4> QED  BY <3>1, <3>2, <3>3, <4>1, <4>3
    <3>5. ASSUME NEW amount \in HandAmounts, SubscribeToAccount(amount) PROVE MoneyInv'
      <4>1. /\ broker' = subscribe_funds_to_account(b, amount) /\ UNCHANGED <<now, price>>
            /\ funded' = IF broker'.raised THEN funded ELSE funded + amount
        BY <3>5 DEF SubscribeToAccount, Call, b
      <4>2. amount \in Int
        BY HandAssumption
      <4>3. SoundBroker(broker', HandKnown)
            /\ Paid(broker') = IF broker'.raised THEN Paid(b) ELSE Paid(b) + amount
        BY <3>2, <4>1, <4>2, SubscribeAccount
      <4> QED  BY <3>1, <3>2, <3>3, <4>1, <4>3
    <3>6. ASSUME NEW amount \in HandAmounts, WithdrawFromAccount(amount) PROVE MoneyInv'
      <4>1. /\ broker' = withdraw_funds_from_account(b, amount) /\ UNCHANGED <<now, price>>
            /\ funded' = IF broker'.raised THEN funded ELSE funded - amount
        BY <3>6 DEF WithdrawFromAccount, Call, b
      <4>2. amount \in Int
        BY HandAssumption
      <4>3. SoundBroker(broker', HandKnown)
            /\ Paid(broker') = IF broker'.raised THEN Paid(b) ELSE Paid(b) - amount
        BY <3>2, <4>1, <4>2, WithdrawAccount
      <4> QED  BY <3>1, <3>2, <3>3, <4>1, <4>3
    <3>7. ASSUME NEW id \in HandIds, NEW amount \in HandAmounts, SubscribeToPortfolio(id, amount)
          PROVE  MoneyInv'
      <4>1. broker' = subscribe_funds_to_portfolio(b, id, amount) /\ UNCHANGED <<now, price, funded>>
        BY <3>7 DEF SubscribeToPortfolio, Call, b
      <4>2. amount \in Int
        BY HandAssumption
      <4>3. SoundBroker(broker', HandKnown) /\ Paid(broker') = Paid(b)
        BY <3>2, <4>1, <4>2, SubscribePortfolio
      <4> QED  BY <3>1, <3>2, <3>3, <4>1, <4>3
    <3>8. ASSUME NEW id \in HandIds, NEW amount \in HandAmounts, WithdrawFromPortfolio(id, amount)
          PROVE  MoneyInv'
      <4>1. broker' = withdraw_funds_from_portfolio(b, id, amount) /\ UNCHANGED <<now, price, funded>>
        BY <3>8 DEF WithdrawFromPortfolio, Call, b
      <4>2. amount \in Int
        BY HandAssumption
      <4>3. SoundBroker(broker', HandKnown) /\ Paid(broker') = Paid(b)
        BY <3>2, <4>1, <4>2, WithdrawPortfolio
      <4> QED  BY <3>1, <3>2, <3>3, <4>1, <4>3
    <3>9. ASSUME NEW id \in HandIds, NEW o \in HandOrders, Submit(id, o) PROVE MoneyInv'
      <4> DEFINE order == [asset |-> o[1], quantity |-> o[2], created_dt |-> now]
      <4>1. broker' = submit_order(b, id, order) /\ UNCHANGED <<now, price, funded>>
        BY <3>9 DEF Submit, Call, b
      <4>2. order \in OrderRows
        BY <3>1, HandAssumption DEF OrderRows
      <4> HIDE DEF order
      <4>3. SoundBroker(broker', HandKnown) /\ Paid(broker') = Paid(b)
        BY <3>2, <4>1, <4>2, SubmitPaid
      <4> QED  BY <3>1, <3>2, <3>3, <4>1, <4>3
    <3>10. ASSUME NEW t \in DOMAIN HandPrices, Update(t) PROVE MoneyInv'
      <4>1. /\ broker' = update(b, t, HandPrices[t], is_open_at_datetime(t))
            /\ now' = t /\ price' = HandPrices[t] /\ funded' = funded
        BY <3>10 DEF Update, Call, b
      <4>2. t \in Nat /\ Priced(HandPrices[t], HandKnown, t)
        BY HandPriced
      <4>3. HandPrices[t] \in [Assets -> Prices \cup {NaN}]
        BY HandAssumption
      <4>4. SoundBroker(broker', HandKnown) /\ Paid(broker') = Paid(b)
        BY <3>2, <4>1, <4>2, OpenIsBoolean, UpdatePaid
      <4> QED  BY <3>2, <3>3, <4>1, <4>2, <4>3, <4>4
    <3> QED  BY <2>2, <3>4, <3>5, <3>6, <3>7, <3>8, <3>9, <3>10 DEF HandNext
  <2>3. CASE UNCHANGED allVars
    BY <2>3 DEF allVars, vars, handVars, MoneyInv, Known, InSession, Paid, Payments
  <2> QED  BY <2>1, <2>2, <2>3 DEF UseNext
<1> QED  BY <1>1, <1>2, PTL DEF UseSpec

(* No money appears or disappears: what the broker's accounts are worth is *)
(* what was paid in and the profit Position and Portfolio report, for any  *)
(* number of portfolios, assets and calls.                                 *)
THEOREM WorthIsProfit == UseSpec => []EquityIsProfit
<1>1. MoneyInv => EquityIsProfit
  <2> SUFFICES ASSUME MoneyInv PROVE EquityIsProfit
    OBVIOUS
  <2>1. SoundBroker(broker, Known) /\ Paid(broker) = funded
    BY DEF MoneyInv
  <2> QED  BY <2>1, ProfitIs DEF EquityIsProfit
<1> QED  BY <1>1, BooksBalance, PTL

(* Holdings of a session change at openings only: orders sized with a      *)
(* closing price wait in the queue for the next opening, however the       *)
(* schedule, the prices and the decisions fall.                            *)
THEOREM NoLookAhead == UseSpec => TradesAtOpenings
<1> DEFINE Act == InSession =>
                    \A a \in Assets : Holding(broker', a) # Holding(broker, a) => Slot(now') = 1
<1>1. MoneyInv /\ [UseNext]_allVars => [Act]_vars
  <2> SUFFICES ASSUME MoneyInv, [UseNext]_allVars, InSession,
                      NEW a \in Assets, Holding(broker', a) # Holding(broker, a)
               PROVE  Slot(now') = 1
    OBVIOUS
  <2>1. ASSUME broker' = broker PROVE FALSE
    BY <2>1 DEF Holding, Positions
  <2>2. Next /\ phase = "running" /\ session \in Sessions
    BY <2>1 DEF UseNext, HandNext, CreatePortfolio, SubscribeToAccount, WithdrawFromAccount,
                SubscribeToPortfolio, WithdrawFromPortfolio, Submit, Update, Call, allVars, vars,
                InSession, Next, PlainEvent, RebalanceEvent, End, MoneyInv
  <2>3. PICK t \in sim_events(session) : PlainEvent(t) \/ RebalanceEvent(t)
    BY <2>1, <2>2 DEF Next, End
  <2>4. t \in Nat \ {0} /\ \E u, c : EventOf(t, u, c) /\ broker' = c
    BY <2>2, <2>3, EventsOfNext
  <2>5. now' = t /\ price' \in NextPrices
    BY <2>3 DEF PlainEvent, RebalanceEvent, Finish
  <2>6. Kept(broker, broker', t, is_open_at_datetime(t))
    BY <2>2, <2>4, <2>5, SessionStep
  <2>7. PortfolioId \in DOMAIN broker.portfolios
    BY DEF MoneyInv
  <2>8. is_open_at_datetime(t)
    BY <2>6, <2>7 DEF Kept, HeldIn, Holding, Positions
  <2>9. Slot(t) \in 0..2
    BY <2>4, DayAndSlot
  <2> QED  BY <2>5, <2>8, <2>9 DEF is_open_at_datetime
<1> QED  BY <1>1, BooksBalance, PTL DEF UseSpec, TradesAtOpenings

(* An update by hand that does not raise executes each queued order        *)
(* exactly once in the portfolio it was submitted to, or leaves it queued. *)
THEOREM OrdersAreNotLost == UseSpec => OrdersLostOnlyByExceptions
<1> DEFINE Act == \A t \in DOMAIN HandPrices :
                    (Update(t) /\ ~broker'.raised) =>
                      \A id \in HandIds, a \in Assets :
                        Expected(broker', id, a) = Expected(broker, id, a)
<1>1. MoneyInv => [Act]_allVars
  <2> SUFFICES ASSUME MoneyInv, NEW t \in DOMAIN HandPrices, Update(t), ~broker'.raised,
                      NEW id \in HandIds, NEW a \in Assets
               PROVE  Expected(broker', id, a) = Expected(broker, id, a)
    OBVIOUS
  <2> DEFINE b == Handled
  <2>1. phase = "by_hand" /\ broker' = update(b, t, HandPrices[t], is_open_at_datetime(t))
    BY DEF Update, Call
  <2>2. SoundBroker(broker, HandKnown)
    BY <2>1 DEF MoneyInv, Known
  <2>3. SoundBroker(b, HandKnown) /\ b.portfolios = broker.portfolios /\ b.open_orders = broker.open_orders
    BY <2>2, HandledKeeps DEF Handled
  <2> HIDE DEF b
  <2>4. t \in Nat /\ Priced(HandPrices[t], HandKnown, t)
    BY HandPriced
  <2>5. Updated(b, broker', t, HandPrices[t], is_open_at_datetime(t))
    BY <2>1, <2>3, <2>4, OpenIsBoolean, UpdateKeeps
  <2>6. DOMAIN broker'.portfolios = DOMAIN broker.portfolios
    BY <2>3, <2>5 DEF Updated, SameFunds
  <2>7. id \in DOMAIN broker.portfolios => Due(broker', id, a) = Due(b, id, a)
    BY <2>3, <2>5 DEF Updated
  <2>8. Due(b, id, a) = Due(broker, id, a)
    BY <2>3 DEF Due, HeldIn
  <2> QED  BY <2>6, <2>7, <2>8 DEF Expected, Due, HeldIn
<1> QED  BY <1>1, BooksBalance, PTL DEF UseSpec, OrdersLostOnlyByExceptions

---------------------------------------------------------------------------
(* A session's events, in the order they come.                             *)

(* A broker with nothing held and nothing queued.                          *)
Idle(b) == AllEmpty(b) /\ \A id \in DOMAIN b.portfolios : DOMAIN b.portfolios[id].positions = {}

(* The timestamps of a business day.                                       *)
LEMMA SlotsOf ==
  ASSUME NEW d \in Nat
  PROVE  /\ Slot(OpenOf(d)) = 1 /\ Slot(CloseOf(d)) = 2
         /\ Day(OpenOf(d)) = d /\ Day(CloseOf(d)) = d
  BY DEF Slot, Day, OpenOf, CloseOf

(* An event is the opening of a business day, when the exchange is open,   *)
(* or its closing, when it is not; the opening is an event too.            *)
LEMMA EventSlots ==
  ASSUME NEW s \in SessionType, NEW t \in sim_events(s)
  PROVE  \E d \in Nat : /\ OpenOf(d) \in sim_events(s)
                        /\ \/ t = OpenOf(d) /\ Slot(t) = 1 /\ is_open_at_datetime(t)
                           \/ t = CloseOf(d) /\ Slot(t) = 2 /\ ~is_open_at_datetime(t)
<1>1. s.start_dt \in Nat /\ s.end_dt \in Nat
  BY DEF SessionType
<1>2. Day(s.start_dt) \in Nat /\ Day(s.end_dt) \in Nat
  BY <1>1, DayAndSlot
<1>3. PICK d \in date_range(s) : IsBusinessDay(d) /\ (t = OpenOf(d) \/ t = CloseOf(d))
  BY DEF sim_events
<1>4. d \in Nat
  BY <1>2 DEF date_range
<1>5. OpenOf(d) \in sim_events(s)
  BY <1>3 DEF sim_events
<1>6. t = OpenOf(d) => Slot(t) = 1 /\ is_open_at_datetime(t)
  BY <1>3, <1>4, SlotsOf DEF is_open_at_datetime
<1>7. t = CloseOf(d) => Slot(t) = 2 /\ ~is_open_at_datetime(t)
  BY <1>3, <1>4, SlotsOf DEF is_open_at_datetime
<1> QED  BY <1>3, <1>4, <1>5, <1>6, <1>7

(* Between two closings there is an opening.                               *)
LEMMA OpeningBetween ==
  ASSUME session \in Sessions, now = 0 \/ now \in sim_events(session), NEW t, Upcoming(t)
  PROVE  Slot(now) = 2 => is_open_at_datetime(t)
<1> SUFFICES ASSUME Slot(now) = 2, ~is_open_at_datetime(t) PROVE FALSE
  OBVIOUS
<1>1. session \in SessionType
  BY BacktestAssumption
<1>2. now # 0
  BY DEF Slot
<1>3. t \in sim_events(session) /\ t > now /\ \A u \in sim_events(session) : u > now => t <= u
  BY DEF Upcoming
<1>4. PICK d \in Nat : OpenOf(d) \in sim_events(session) /\ t = CloseOf(d)
  BY <1>1, <1>3, EventSlots
<1>5. PICK e \in Nat : now = CloseOf(e)
  BY <1>1, <1>2, EventSlots
<1>6. OpenOf(d) > now /\ OpenOf(d) < t
  BY <1>3, <1>4, <1>5 DEF OpenOf, CloseOf
<1>7. OpenOf(d) \in Nat /\ t \in Nat
  BY <1>4 DEF OpenOf, CloseOf
<1> QED  BY <1>3, <1>4, <1>6, <1>7

(* No schedule has a date before the session starts.                       *)
LEMMA RebalanceAfterStart ==
  ASSUME session \in Sessions, NEW t, is_rebalance_event(t)
  PROVE  t \in Nat /\ t >= session.start_dt
<1> DEFINE a == session.start_dt
           b == session.end_dt
<1>1. /\ a \in Nat /\ b \in Nat
      /\ session.rebalance \in {"buy_and_hold", "daily", "weekly", "end_of_month"}
  BY BacktestAssumption DEF SessionType
<1>2. /\ Day(a) \in Nat /\ Slot(a) \in 0..2 /\ a = 3 * Day(a) + Slot(a) /\ Day(b) \in Nat
  BY <1>1, DayAndSlot
<1>3. ASSUME NEW d \in Nat, Day(a) <= d, t = CloseOf(d) PROVE t \in Nat /\ t >= a
  BY <1>2, <1>3 DEF CloseOf
<1>4. CASE session.rebalance = "buy_and_hold"
  <2> DEFINE near == {d \in Day(a)..(Day(a) + 6) : IsBusinessDay(d)}
             day == Min(near)
  <2>1. near # {} /\ near \subseteq Int /\ IsFiniteSet(near)
    <3>1. near # {}
      BY <1>2, BusinessDayNear
    <3>2. near \subseteq Day(a)..(Day(a) + 6) /\ near \subseteq Int
      BY <1>2
    <3>3. IsFiniteSet(Day(a)..(Day(a) + 6))
      BY <1>2, FS_Interval
    <3> QED  BY <3>1, <3>2, <3>3, FS_Subset
  <2>2. day \in near
    BY <2>1, FiniteMin
  <2>3. day \in Nat /\ Day(a) <= day
    BY <1>2, <2>2
  <2>4. t \in buy_and_hold_rebalances(session)
    BY <1>4 DEF is_rebalance_event, rebalance_schedule
  <2>5. t = 3 * day + Slot(a)
    BY <2>4 DEF buy_and_hold_rebalances
  <2> HIDE DEF day
  <2> QED  BY <1>2, <2>3, <2>5
<1>5. CASE session.rebalance = "daily"
  <2>1. t \in daily_rebalances(session)
    BY <1>5 DEF is_rebalance_event, rebalance_schedule
  <2> QED  BY <1>2, <1>3, <2>1 DEF daily_rebalances
<1>6. \A d \in date_range(session) : d \in Nat /\ Day(a) <= d
  BY <1>2 DEF date_range
<1>7. CASE session.rebalance = "weekly"
  <2>1. t \in weekly_rebalances(session)
    BY <1>7 DEF is_rebalance_event, rebalance_schedule
  <2> QED  BY <1>3, <1>6, <2>1 DEF weekly_rebalances
<1>8. CASE session.rebalance = "end_of_month"
  <2>1. t \in end_of_month_rebalances(session)
    BY <1>8 DEF is_rebalance_event, rebalance_schedule
  <2> QED  BY <1>3, <1>6, <2>1 DEF end_of_month_rebalances
<1> QED  BY <1>1, <1>4, <1>5, <1>7, <1>8

(* An update of an idle broker only tells it the time.                     *)
LEMMA IdleUpdate ==
  ASSUME NEW K, NEW b, SoundBroker(b, K), Idle(b), NEW dt \in Nat, NEW prices,
         NEW open \in BOOLEAN, NEW u, u = update(b, dt, prices, open)
  PROVE  u.portfolios = b.portfolios /\ u.raised = b.raised /\ AllEmpty(u)
<1> DEFINE timed == [b EXCEPT !.current_dt = dt]
<1>1. b \in BrokerRows
  BY DEF SoundBroker
<1>2. /\ timed \in BrokerRows /\ timed.portfolios = b.portfolios
      /\ timed.open_orders = b.open_orders /\ timed.portfolio_ids = b.portfolio_ids
      /\ timed.raised = b.raised
  BY <1>1 DEF BrokerRows
<1>3. u = IF open /\ ~mark_portfolios(timed, prices).raised
          THEN execute_open_orders(mark_portfolios(timed, prices), prices)
          ELSE mark_portfolios(timed, prices)
  BY DEF update
<1> HIDE DEF timed
<1>4. SoundBroker(timed, K) /\ Idle(timed)
  BY <1>2 DEF SoundBroker, SameKeys, Idle, AllEmpty
<1> DEFINE V == {timed}
<1>5. ASSUME NEW id \in DOMAIN timed.portfolios PROVE mark_portfolio(timed, id, prices) \in V
  <2>1. DOMAIN timed.portfolios[id].positions = {}
    BY <1>4 DEF Idle
  <2>2. DOMAIN ToMark(timed, id) = 1..0
    <3>1. Cardinality({}) = 0 /\ IsFiniteSet({})
      BY FS_EmptySet
    <3>2. DOMAIN SetToSeq({}) = 1..Cardinality({})
      BY <3>1, SetToSeqIs
    <3> QED  BY <2>1, <3>1, <3>2 DEF ToMark
  <2>3. timed \in V /\ 0 \in Nat /\ 1..0 = {}
    OBVIOUS
  <2>4. \A v \in V, i \in 1..0 : mark_asset(v, id, ToMark(timed, id)[i], prices) \in V
    BY <2>3
  <2> HIDE DEF V
  <2> QED  BY <2>2, <2>3, <2>4, MarkStays
<1>6. mark_portfolios(timed, prices) = timed
  <2> DEFINE n == Len(timed.portfolio_ids)
  <2>1. n \in Nat /\ DOMAIN timed.portfolio_ids = 1..n
        /\ \A i \in 1..n : timed.portfolio_ids[i] \in DOMAIN timed.portfolios
    <3>1. timed \in BrokerRows /\ SameKeys(timed)
      BY <1>4 DEF SoundBroker
    <3> QED  BY <3>1, KeysAre
  <2>2. \A v \in V, i \in 1..n : mark_portfolio(v, timed.portfolio_ids[i], prices) \in V
    BY <1>5, <2>1
  <2>3. timed \in V
    OBVIOUS
  <2>4. mark_portfolios(timed, prices) \in V
    <3> HIDE DEF V, n
    <3> QED  BY <2>1, <2>2, <2>3, MarksStay
  <2> QED  BY <2>4
<1>7. execute_open_orders(timed, prices) = emptied(timed)
  <2>1. drained_orders(timed) \in Seq(Queued(timed))
    BY <1>4, DrainIsQueued
  <2>2. Queued(timed) = {}
    BY <1>4 DEF Queued, Idle, AllEmpty, Range
  <2>3. Queued(timed) \subseteq Entries
    BY DEF Queued
  <2>4. ToExecute(timed) \in Seq(Queued(timed))
    BY <2>1, <2>3, SortKeeps DEF ToExecute
  <2>5. DOMAIN ToExecute(timed) = 1..0
    BY <2>2, <2>4
  <2> DEFINE W == {emptied(timed)}
  <2>6. emptied(timed) \in W /\ 1..0 = {}
    OBVIOUS
  <2>7. \A v \in W, i \in 1..0 :
          execute_order(v, ToExecute(timed)[i].id, ToExecute(timed)[i].order, prices) \in W
    BY <2>6
  <2>8. execute_open_orders(timed, prices) \in W
    <3> HIDE DEF W
    <3> QED  BY <2>5, <2>6, <2>7, ExecuteStays
  <2> QED  BY <2>8
<1>8. AllEmpty(timed)
  BY <1>4 DEF Idle
<1>9. CASE u = timed
  BY <1>2, <1>8, <1>9
<1>10. CASE u = emptied(timed)
  <2>1. /\ u.portfolios = timed.portfolios /\ u.raised = timed.raised
        /\ \A id \in DOMAIN timed.portfolios : u.open_orders[id] = <<>>
    <3> DEFINE e == emptied(timed)
    <3>1. SoundBroker(timed, K)
      BY <1>4
    <3> HIDE DEF e
    <3>2. /\ e.portfolios = timed.portfolios /\ e.raised = timed.raised
          /\ \A id \in DOMAIN timed.portfolios : e.open_orders[id] = <<>>
      BY <3>1, EmptiedIs DEF e
    <3> QED  BY <1>10, <3>2 DEF e
  <2> QED  BY <1>2, <2>1 DEF AllEmpty
<1> QED  BY <1>3, <1>6, <1>7, <1>9, <1>10

(* What lets the next event of a session go well: orders are queued only   *)
(* from a closing to the opening after it, and have prices; nothing was    *)
(* booked after now, except that an account opened at a closing time is    *)
(* not touched by the opening of that day.                                 *)
Prepared ==
  /\ ~broker.raised /\ AllPriced(broker, price)
  /\ now = 0 \/ now \in sim_events(session)
  /\ Slot(now) # 2 => AllEmpty(broker)
  /\ \/ TimelyAt(broker, now)
     \/ Idle(broker) /\ now < session.start_dt /\ TimelyAt(broker, session.start_dt)

(* The books of a session head for its target.                             *)
HeadingInv ==
  InSession =>
    /\ DOMAIN broker.portfolios = {PortfolioId}
    /\ \A a \in Assets : Due(broker, PortfolioId, a) = target[a]
    /\ phase = "running" => Prepared

(* What is timely stays so.                                                *)
LEMMA TimelyLater ==
  ASSUME NEW K, NEW b, SoundBroker(b, K), NEW t \in Nat, NEW u \in Nat, t <= u, TimelyAt(b, t)
  PROVE  TimelyAt(b, u)
<1>1. b \in BrokerRows
  BY DEF SoundBroker
<1> SUFFICES ASSUME NEW id \in DOMAIN b.portfolios
             PROVE  /\ b.portfolios[id].current_dt <= u
                    /\ \A a \in DOMAIN b.portfolios[id].positions :
                         b.portfolios[id].positions[a].current_dt <= u
  BY DEF TimelyAt
<1> DEFINE p == b.portfolios[id]
<1>2. p \in PortfolioRows
  BY <1>1, BrokerFacts
<1>3. p.current_dt <= t /\ \A a \in DOMAIN p.positions : p.positions[a].current_dt <= t
  BY DEF TimelyAt
<1> HIDE DEF p
<1>4. p.current_dt \in Nat /\ \A a \in DOMAIN p.positions : p.positions[a].current_dt \in Nat
  BY <1>2, BooksAreFinite DEF OpenPositions, PositionRows
<1> QED  BY <1>3, <1>4 DEF p

(* What an event's update leaves to its rebalance.                         *)
Cleared(u, t) ==
  /\ DOMAIN u.portfolios = {PortfolioId} /\ ~u.raised /\ AllEmpty(u)
  /\ \A a \in Assets : Due(u, PortfolioId, a) = target[a]
  /\ \/ TimelyAt(u, t)
     \/ Idle(u) /\ t < session.start_dt /\ TimelyAt(u, session.start_dt)

(* An event's update leaves no order queued and does not raise: the orders *)
(* of a closing are executed at the opening after it, at prices that are   *)
(* known, before anything can be sized again.                              *)
LEMMA EventClears ==
  ASSUME phase = "running", MoneyInv, HeadingInv, NEW t, Upcoming(t), price' \in NextPrices,
         NEW u, u = update(broker, t, price', is_open_at_datetime(t))
  PROVE  Cleared(u, t)
<1> DEFINE p == price'
           K == SessionKnown(p)
           open == is_open_at_datetime(t)
<1>1. /\ session \in Sessions /\ session \in SessionType /\ session.start_dt \in Nat
      /\ t \in sim_events(session) /\ t > now /\ now \in Nat
  BY BacktestAssumption DEF MoneyInv, InSession, Upcoming, SessionType
<1>2. t \in Nat
  BY <1>1, EventsArePositive
<1>3. /\ DOMAIN broker.portfolios = {PortfolioId} /\ Prepared
      /\ \A a \in Assets : Due(broker, PortfolioId, a) = target[a]
  BY DEF HeadingInv, InSession
<1>4. SoundBroker(broker, K) /\ Priced(p, K, t)
  <2>1. EventOf(t, u, u)
    BY DEF EventOf
  <2> QED  BY <1>2, <2>1, SessionStep
<1>5. u = update(broker, t, p, open) /\ open \in BOOLEAN
  BY OpenIsBoolean
<1>6. AllPriced(broker, p)
  <2> SUFFICES ASSUME NEW id \in DOMAIN broker.portfolios, NEW o \in Range(broker.open_orders[id])
               PROVE  p[o.asset] # NaN
    BY DEF AllPriced
  <2>1. broker.open_orders[id] \in Seq(OrderRows)
    BY <1>4, QueueFacts
  <2>2. o \in OrderRows
    BY <2>1 DEF Range
  <2>3. o.asset \in Assets /\ price[o.asset] # NaN
    BY <1>3, <2>2 DEF OrderRows, Prepared, AllPriced
  <2> QED  BY <2>3 DEF NextPrices
<1> HIDE DEF p, K, open
<1>7. SoundBroker(u, K) /\ Updated(broker, u, t, p, open)
  BY <1>2, <1>4, <1>5, UpdateKeeps
<1>8. DOMAIN u.portfolios = {PortfolioId} /\ u.current_dt = t
  BY <1>3, <1>7 DEF Updated, SameFunds
<1>9. ASSUME TimelyAt(broker, t) PROVE Cleared(u, t)
  <2>1. ~u.raised /\ Timely(u)
    BY <1>3, <1>6, <1>7, <1>9 DEF Updated, Prepared
  <2>2. TimelyAt(u, t)
    BY <1>8, <2>1 DEF Timely, TimelyAt
  <2>3. \A a \in Assets : Due(u, PortfolioId, a) = target[a]
    BY <1>3, <1>7, <2>1 DEF Updated
  <2>4. CASE open
    <3>1. AllEmpty(u)
      BY <1>3, <1>7, <1>8, <2>1, <2>4 DEF Updated, AllEmpty
    <3> QED  BY <1>8, <2>1, <2>2, <2>3, <3>1 DEF Cleared
  <2>5. CASE ~open
    <3>1. Slot(now) # 2
      BY <1>1, <1>3, <2>5, OpeningBetween DEF Prepared, open
    <3>2. AllEmpty(broker) /\ u.open_orders = broker.open_orders
      BY <1>3, <1>7, <2>5, <3>1 DEF Updated, Prepared
    <3>3. AllEmpty(u)
      BY <1>3, <1>8, <3>2 DEF AllEmpty
    <3> QED  BY <1>8, <2>1, <2>2, <2>3, <3>3 DEF Cleared
  <2> QED  BY <2>4, <2>5
<1>10. ASSUME Idle(broker), t < session.start_dt, TimelyAt(broker, session.start_dt)
       PROVE  Cleared(u, t)
  <2>1. u.portfolios = broker.portfolios /\ u.raised = broker.raised /\ AllEmpty(u)
    BY <1>2, <1>4, <1>5, <1>10, IdleUpdate
  <2>2. ~u.raised /\ Idle(u) /\ TimelyAt(u, session.start_dt)
    BY <1>3, <1>10, <2>1 DEF Prepared, Idle, TimelyAt
  <2>3. \A a \in Assets : Due(u, PortfolioId, a) = target[a]
    BY <1>3, <1>7, <2>2 DEF Updated
  <2> QED  BY <1>8, <1>10, <2>1, <2>2, <2>3 DEF Cleared
<1>11. CASE TimelyAt(broker, now)
  BY <1>1, <1>2, <1>4, <1>9, <1>11, TimelyLater
<1>12. CASE Idle(broker) /\ TimelyAt(broker, session.start_dt)
  <2>1. CASE t < session.start_dt
    BY <1>10, <1>12, <2>1
  <2>2. CASE session.start_dt <= t
    <3>1. TimelyAt(broker, t)
      <4> DEFINE s == session.start_dt
      <4>1. s \in Nat /\ s <= t /\ TimelyAt(broker, s)
        BY <1>1, <1>12, <2>2
      <4> HIDE DEF s
      <4> QED  BY <1>2, <1>4, <4>1, TimelyLater
    <3> QED  BY <1>9, <3>1
  <2> QED  BY <1>1, <1>2, <2>1, <2>2
<1> QED  BY <1>3, <1>11, <1>12 DEF Prepared

(* An event without a rebalance leaves the cleared broker as it is.        *)
LEMMA PlainHeads ==
  ASSUME phase = "running", MoneyInv, HeadingInv, NEW t \in sim_events(session), PlainEvent(t)
  PROVE  HeadingInv'
<1>1. /\ Upcoming(t) /\ price' \in NextPrices /\ now' = t /\ session' = session /\ target' = target
      /\ broker' = update(broker, t, price', is_open_at_datetime(t)) /\ phase' = IF broker'.raised THEN "failed" ELSE "running"
  BY DEF PlainEvent, Finish
<1>2. Cleared(broker', t)
  BY <1>1, EventClears
<1>3. AllPriced(broker', price')
  BY <1>2 DEF Cleared, AllEmpty, AllPriced, Range
<1>4. /\ DOMAIN broker'.portfolios = {PortfolioId} /\ ~broker'.raised /\ AllEmpty(broker')
      /\ \A a \in Assets : Due(broker', PortfolioId, a) = target'[a]
      /\ \/ TimelyAt(broker', t)
         \/ Idle(broker') /\ t < session.start_dt /\ TimelyAt(broker', session.start_dt)
  BY <1>1, <1>2 DEF Cleared
<1>5. Prepared'
  BY <1>1, <1>3, <1>4 DEF Prepared, AllPriced, AllEmpty, TimelyAt, Idle
<1> QED  BY <1>4, <1>5 DEF HeadingInv, Due, HeldIn

(* A rebalance that raises submits nothing; one that does not submits the  *)
(* whole difference to its target.                                         *)
LEMMA RebalanceHeads ==
  ASSUME phase = "running", MoneyInv, HeadingInv, NEW t \in sim_events(session), RebalanceEvent(t)
  PROVE  HeadingInv'
<1> DEFINE p == price'
           K == SessionKnown(p)
           open == is_open_at_datetime(t)
           u == update(broker, t, p, open)
<1>1. /\ Upcoming(t) /\ is_rebalance_event(t) /\ p \in NextPrices /\ now' = t /\ session' = session
      /\ phase' = IF broker'.raised THEN "failed" ELSE "running"
  BY DEF RebalanceEvent, Finish
<1>4. Cleared(u, t) /\ ~u.raised
  BY <1>1, EventClears DEF Cleared
<1>2. PICK weights \in Decisions :
        LET r == size_and_submit(u, t, weights, p) IN broker' = r.broker /\ target' = r.target
  <2>1. PICK weights \in Decisions :
          LET r == rebalanced(u, t, weights, p) IN broker' = r.broker /\ target' = r.target
    BY DEF RebalanceEvent, Finish
  <2>2. rebalanced(u, t, weights, p) = size_and_submit(u, t, weights, p)
    BY <1>4 DEF rebalanced
  <2> QED  BY <2>1, <2>2
<1> DEFINE r == size_and_submit(u, t, weights, p)
<1>3. r = size_and_submit(u, t, weights, p) /\ broker' = r.broker /\ target' = r.target
  BY <1>2
<1>5. session \in Sessions /\ session \in SessionType /\ t \in Nat
  BY EventsArePositive, BacktestAssumption DEF MoneyInv, InSession
<1>6. ~(t < session.start_dt)
  BY <1>1, <1>5, RebalanceAfterStart, BacktestAssumption DEF SessionType
<1>7. SoundBroker(u, K) /\ Priced(p, K, t)
  <2>1. EventOf(t, u, u)
    BY DEF EventOf
  <2> QED  BY <1>1, <1>5, <2>1, SessionStep
<1> HIDE DEF r, u, p, K, open
<1>8. /\ DOMAIN u.portfolios = {PortfolioId} /\ TimelyAt(u, t) /\ ~u.raised /\ AllEmpty(u)
      /\ \A a \in Assets : Due(u, PortfolioId, a) = target[a]
  BY <1>4, <1>6 DEF Cleared
<1>9. Calm(u, t, p)
  BY <1>8 DEF Calm, AllPriced, AllEmpty, Range
<1>10. /\ SoundBroker(r.broker, K) /\ Kept(u, r.broker, t, open)
       /\ Rebalanced(u, r, t, p, open)
  <2>1. PortfolioId \in DOMAIN u.portfolios
    BY <1>8
  <2> QED  BY <1>3, <1>5, <1>7, <2>1, SizeAndSubmit DEF open
<1>11. DOMAIN broker'.portfolios = {PortfolioId}
  BY <1>3, <1>8, <1>10 DEF Kept, SameFunds
<1>12. CASE r.broker.raised /\ r.target = target
            /\ r.broker.portfolios = u.portfolios /\ r.broker.open_orders = u.open_orders
  <2>1. phase' = "failed"
    BY <1>1, <1>3, <1>12
  <2>2. \A a \in Assets : Due(broker', PortfolioId, a) = target'[a]
    BY <1>3, <1>8, <1>12 DEF Due, HeldIn
  <2> QED  BY <1>11, <2>1, <2>2 DEF HeadingInv, Due, HeldIn
<1>13. CASE /\ ~r.broker.raised /\ TimelyAt(r.broker, t) /\ AllPriced(r.broker, p)
            /\ open => AllEmpty(r.broker)
            /\ \A a \in Assets : Due(r.broker, PortfolioId, a) = r.target[a]
  <2>1. /\ ~broker'.raised /\ TimelyAt(broker', t) /\ AllPriced(broker', price')
        /\ open => AllEmpty(broker')
        /\ \A a \in Assets : Due(broker', PortfolioId, a) = target'[a]
    BY <1>3, <1>13 DEF p
  <2>2. Slot(t) # 2 => open
    BY <1>5, EventSlots DEF open
  <2>3. Prepared'
    BY <1>1, <2>1, <2>2 DEF Prepared, AllPriced, AllEmpty, TimelyAt
  <2> QED  BY <1>11, <2>1, <2>3 DEF HeadingInv, Due, HeldIn
<1> QED  BY <1>9, <1>10, <1>12, <1>13 DEF Rebalanced

(* A session starts with nothing held, nothing queued and no target.       *)
LEMMA HeadingStart == SessionInit => HeadingInv
<1> SUFFICES ASSUME SessionInit PROVE HeadingInv
  OBVIOUS
<1> DEFINE F == InitialCash * FeeUnit
           K == SessionKnown(price)
           dt == session.start_dt
<1>1. session \in Sessions /\ dt \in Nat
  BY BacktestAssumption DEF SessionInit, Init, SessionType
<1>2. F \in Nat
  BY BacktestAssumption, FeeAssumption
<1>3. broker = FirstBroker(F, dt)
  BY DEF SessionInit, Init, FirstBroker
<1>4. now = 0 /\ \A a \in Assets : target[a] = 0
  BY DEF SessionInit, Init
<1> HIDE DEF F, K, dt
<1>5. Started(broker, K, F, dt)
  BY <1>1, <1>2, <1>3, FirstAccount
<1>6. /\ DOMAIN broker.portfolios = {PortfolioId} /\ ~broker.raised
      /\ broker.open_orders[PortfolioId] = <<>>
      /\ broker.portfolios[PortfolioId].current_dt = dt
      /\ DOMAIN broker.portfolios[PortfolioId].positions = {}
  BY <1>5 DEF Started
<1>7. AllEmpty(broker) /\ Idle(broker) /\ TimelyAt(broker, dt)
  BY <1>1, <1>6 DEF AllEmpty, Idle, TimelyAt
<1>8. AllPriced(broker, price)
  BY <1>7 DEF AllEmpty, AllPriced, Range
<1>9. Prepared
  <2>1. CASE dt = 0
    BY <1>4, <1>6, <1>7, <1>8, <2>1 DEF Prepared
  <2>2. CASE dt # 0
    <3>1. now < dt
      BY <1>1, <1>4, <2>2
    <3> QED  BY <1>4, <1>6, <1>7, <1>8, <3>1 DEF Prepared, dt
  <2> QED  BY <2>1, <2>2
<1>10. ASSUME NEW a \in Assets PROVE Due(broker, PortfolioId, a) = target[a]
  <2>1. queued(broker.open_orders[PortfolioId], a) = 0
    BY <1>6, NothingQueued
  <2>2. HeldIn(broker, PortfolioId, a) = 0
    BY <1>6 DEF HeldIn, held
  <2> QED  BY <1>4, <2>1, <2>2 DEF Due
<1> QED  BY <1>6, <1>9, <1>10 DEF HeadingInv

(* A session's books head for its target for ever.                         *)
LEMMA HeadingInvariant == UseSpec => []HeadingInv
<1>1. UseInit => HeadingInv
  <2>1. HandInit => HeadingInv
    BY DEF HandInit, HeadingInv, InSession
  <2> QED  BY <2>1, HeadingStart DEF UseInit
<1>2. MoneyInv /\ HeadingInv /\ [UseNext]_allVars => HeadingInv'
  <2> SUFFICES ASSUME MoneyInv, HeadingInv, [UseNext]_allVars PROVE HeadingInv'
    OBVIOUS
  <2>1. CASE Next
    <3>1. phase = "running"
      BY <2>1 DEF Next, PlainEvent, RebalanceEvent, End
    <3>2. CASE End
      <4>1. InSession /\ phase' = "done" /\ broker' = broker /\ target' = target
        BY <3>1, <3>2 DEF End, InSession
      <4> QED  BY <4>1 DEF HeadingInv, Due, HeldIn
    <3> QED  BY <2>1, <3>1, <3>2, PlainHeads, RebalanceHeads DEF Next
  <2>2. CASE HandNext
    <3>1. phase' = "by_hand"
      BY <2>2 DEF HandNext, CreatePortfolio, SubscribeToAccount, WithdrawFromAccount,
                  SubscribeToPortfolio, WithdrawFromPortfolio, Submit, Update, Call
    <3> QED  BY <3>1 DEF HeadingInv, InSession
  <2>3. CASE UNCHANGED allVars
    BY <2>3 DEF allVars, vars, HeadingInv, InSession, Prepared, Due, HeldIn, AllPriced, AllEmpty,
                TimelyAt, Idle
  <2> QED  BY <2>1, <2>2, <2>3 DEF UseNext
<1> QED  BY <1>1, <1>2, BooksBalance, PTL DEF UseSpec

(* Holdings and open orders of a session always add up to the target of    *)
(* its last rebalance, though size_and_submit never looks at open orders:  *)
(* no order is submitted twice and none is forgotten.                      *)
THEOREM BooksHeadForTarget == UseSpec => []HeadsForTarget
<1>1. HeadingInv => HeadsForTarget
  BY DEF HeadingInv, HeadsForTarget, Due, HeldIn, Holding, Positions, Pending
<1> QED  BY <1>1, HeadingInvariant, PTL

---------------------------------------------------------------------------
(* The fee on a purchase is at most the price: always so when only sales   *)
(* are taxed.                                                              *)
FeesBelowPrice == PurchaseRate <= FeeUnit

(* What buying a share at x takes out of the cash, in 1/FeeUnit.           *)
UnitCost(x) == x * (FeeUnit + PurchaseRate)

(* The rate is a natural number.                                           *)
LEMMA RateIsNat == PurchaseRate \in Nat
  BY FeeAssumption DEF PurchaseRate

(* And so is what rounding can add to a fee.                               *)
LEMMA RoundingIsNat == RoundingFee \in Nat
<1>1. PriceUnit \div 2 \in Nat
  BY PriceAssumption
<1> QED  BY <1>1, RateIsNat DEF RoundingFee

(* The fee on a purchase of a value.                                       *)
LEMMA BuyFee ==
  ASSUME NEW q \in Nat, NEW y \in Nat
  PROVE  calc_total_cost(q, y) = PurchaseRate * y
<1>1. commission_pct \in Nat /\ tax_pct \in Nat /\ TaxOnSalesOnly \in BOOLEAN
  BY FeeAssumption
<1>2. Abs(y) = y
  BY DEF Abs
<1>3. CASE TaxOnSalesOnly
  <2>1. calc_total_cost(q, y) = commission_pct * y + 0
    BY <1>2, <1>3 DEF calc_total_cost, calc_commission, calc_tax
  <2> QED  BY <1>1, <1>3, <2>1 DEF PurchaseRate
<1>4. CASE ~TaxOnSalesOnly
  <2>1. calc_total_cost(q, y) = commission_pct * y + tax_pct * y
    BY <1>2, <1>4 DEF calc_total_cost, calc_commission, calc_tax
  <2> QED  BY <1>1, <1>4, <2>1 DEF PurchaseRate
<1> QED  BY <1>1, <1>3, <1>4

(* An executed purchase costs its quantity at the unit cost, and what the  *)
(* rounding adds to the fee.                                               *)
LEMMA BuyCost ==
  ASSUME NEW q \in Nat, NEW x \in Nat
  PROVE  q * x * FeeUnit + calc_total_cost(q, rounded(x * q)) <= q * UnitCost(x) + RoundingFee
<1> DEFINE R == PurchaseRate
           F == FeeUnit
           h == PriceUnit \div 2
           y == x * q
           z == rounded(y)
<1>1. R \in Nat /\ F \in Nat /\ h \in Nat
  BY RateIsNat, FeeAssumption, PriceAssumption
<1>2. y \in Nat
  OBVIOUS
<1>3. z \in Nat /\ z <= y + h
  <2> HIDE DEF y
  <2> QED  BY <1>2, RoundedIs
<1>4. calc_total_cost(q, z) = R * z
  <2> HIDE DEF z
  <2> QED  BY <1>3, BuyFee
<1>5. UnitCost(x) = x * (F + R) /\ RoundingFee = h * R
  BY DEF UnitCost, RoundingFee
<1>6. q * x * F + R * y + h * R = q * (x * (F + R)) + h * R
  <2> HIDE DEF R, F, h
  <2>1. q * x * F + R * (x * q) = q * (x * (F + R))
    BY <1>1
  <2> QED  BY <2>1
<1> HIDE DEF R, F, h, z, y
<1>7. R * z <= R * y + h * R
  <2>1. R * z <= R * (y + h)
    BY <1>1, <1>2, <1>3
  <2>2. R * (y + h) = R * y + h * R
    BY <1>1, <1>2
  <2> QED  BY <2>1, <2>2
<1>8. q * x * F \in Int /\ R * z \in Int /\ R * y \in Int /\ h * R \in Int
  BY <1>1, <1>2, <1>3
<1>9. q * x * F + R * z <= q * (x * (F + R)) + h * R
  BY <1>6, <1>7, <1>8
<1> QED  BY <1>4, <1>5, <1>9 DEF F, z, y

(* A positive factor on both sides cancels.                                *)
LEMMA Cancel ==
  ASSUME NEW m \in Int, NEW y \in Int, NEW n \in Nat \ {0}, m * n <= y * n
  PROVE  m <= y
<1> SUFFICES ASSUME m >= y + 1 PROVE FALSE
  OBVIOUS
<1>1. m * n >= (y + 1) * n
  OBVIOUS
<1>2. (y + 1) * n = y * n + n
  OBVIOUS
<1>3. m * n \in Int /\ y * n \in Int
  OBVIOUS
<1> QED  BY <1>1, <1>2, <1>3

(* Reserving the fee on the whole amount leaves enough for the fee on what *)
(* is bought with the rest: (1 - r)(1 + r) <= 1.                           *)
LEMMA ReserveIsEnough ==
  ASSUME NEW F \in Nat \ {0}, NEW R \in Nat, R <= F, NEW m \in Nat, NEW y \in Nat,
         m * F * F <= y * (F - R)
  PROVE  m * (F + R) <= y
<1> DEFINE d == F - R
           s == F + R
           FF == F * F
<1>1. d \in Nat /\ s \in Nat /\ FF \in Nat \ {0}
  OBVIOUS
<1>2. d * s <= FF
  <2>1. d * s = FF - R * R
    OBVIOUS
  <2>2. R * R \in Nat
    OBVIOUS
  <2> HIDE DEF d, s, FF
  <2> QED  BY <1>1, <2>1, <2>2
<1>3. m * FF <= y * d
  BY DEF FF, d
<1> HIDE DEF d, s, FF
<1>4. (m * FF) * s <= (y * d) * s
  <2>1. m * FF \in Nat /\ y * d \in Nat
    BY <1>1
  <2> QED  BY <1>1, <1>3, <2>1
<1>5. (m * s) * FF = (m * FF) * s /\ (y * d) * s = y * (d * s)
  BY <1>1
<1>6. y * (d * s) <= y * FF
  <2>1. d * s \in Nat
    BY <1>1
  <2> QED  BY <1>1, <1>2, <2>1
<1>7. (m * s) * FF <= y * FF
  <2>1. (m * FF) * s \in Nat /\ y * (d * s) \in Nat /\ y * FF \in Nat
    BY <1>1
  <2> QED  BY <1>4, <1>5, <1>6, <2>1
<1>8. m * s \in Int /\ y \in Int
  BY <1>1
<1>9. m * s <= y
  BY <1>1, <1>7, <1>8, Cancel
<1> QED  BY <1>9 DEF s

(* A floored quotient.                                                     *)
LEMMA QuotientFits ==
  ASSUME NEW m \in Nat, NEW d \in Nat \ {0}
  PROVE  m \div d \in Nat /\ (m \div d) * d <= m
  OBVIOUS

(* What the long-only sizer gives an asset that is not held, bought at the *)
(* price it was sized with, costs at most the asset's share of the equity. *)
LEMMA SizeFits ==
  ASSUME FeesBelowPrice, NEW equity \in Nat, NEW full, NEW a, NEW x, Sizable(full, x, a),
         \A y \in DOMAIN full : full[y] >= 0,
         NEW q, q = dollar_weighted(equity, full, a, 0, x)
  PROVE  q \in Nat /\ weight_sum(full) * (q * UnitCost(x)) <= equity * full[a]
<1> DEFINE W == weight_sum(full)
           F == FeeUnit
           R == PurchaseRate
           B == BufferUnit
           rest == B - cash_buffer_percentage
           w == full[a]
           unit == F * B * W
           pre == equity * rest * w
           d == x * unit * F
<1>0. /\ F \in Nat \ {0} /\ B \in Nat \ {0} /\ x \in Nat \ {0} /\ R \in Nat /\ R <= F
      /\ rest \in Nat /\ rest <= B /\ w \in Nat
  BY FeeAssumption, SizingAssumption, RateIsNat DEF Sizable, FeesBelowPrice
<1>1. W \in Nat \ {0}
  <2>1. \A y \in DOMAIN full : full[y] \in Nat
    BY DEF Sizable
  <2>2. SumFunctionOnSet(full, DOMAIN full) \in Nat
    BY <2>1, SumNat DEF Sizable
  <2> QED  BY <2>2 DEF weight_sum, SumFunction, NonZero
<1>2. q = (pre * F - estimate_trade_costs(pre, 0, x, unit)) \div d
  BY DEF dollar_weighted
<1>3. UnitCost(x) = x * (F + R)
  BY DEF UnitCost
<1> HIDE DEF W, F, R, B, w, rest
<1>4. unit \in Nat \ {0} /\ pre \in Nat
  <2>1. F * B \in Nat \ {0}
    BY <1>0, PositiveProduct
  <2>2. unit \in Nat \ {0}
    BY <1>1, <2>1, PositiveProduct
  <2>3. equity * rest \in Nat
    BY <1>0
  <2>4. pre \in Nat
    BY <1>0, <2>3
  <2> QED  BY <2>2, <2>4
<1> HIDE DEF unit, pre
<1>5. d \in Nat \ {0} /\ x * unit \in Nat \ {0}
  <2>1. x * unit \in Nat \ {0}
    BY <1>0, <1>4, PositiveProduct
  <2> QED  BY <1>0, <2>1, PositiveProduct
<1>6. estimate_trade_costs(pre, 0, x, unit) = R * pre
  <2>1. pre - 0 * x * unit = pre
    <3>1. 0 * x = 0
      BY <1>0
    <3>2. 0 * x * unit = 0
      BY <1>4, <3>1
    <3> QED  BY <1>4, <3>2
  <2>2. Abs(pre) = pre /\ pre >= 0
    BY <1>4 DEF Abs
  <2>3. estimate_trade_costs(pre, 0, x, unit) = calc_total_cost(pre \div (x * unit), pre)
    BY <2>1, <2>2 DEF estimate_trade_costs
  <2>4. pre \div (x * unit) \in Nat
    BY <1>4, <1>5, QuotientFits
  <2> QED  BY <1>4, <2>3, <2>4, BuyFee DEF R
<1>7. pre * F - R * pre = pre * (F - R) /\ pre * (F - R) \in Nat
  BY <1>0, <1>4
<1>8. q = (pre * (F - R)) \div d
  BY <1>2, <1>6, <1>7
<1> HIDE DEF d
<1>9. q \in Nat /\ q * d <= pre * (F - R)
  BY <1>5, <1>7, <1>8, QuotientFits
<1> DEFINE m == q * x * W
           y == equity * w
<1>10. m \in Nat /\ y \in Nat
  BY <1>0, <1>1, <1>9
<1>11. q * d = (m * F * F) * B
  BY <1>0, <1>1, <1>9 DEF d, unit
<1>12. pre * (F - R) <= (y * (F - R)) * B
  <2> DEFINE z == y * (F - R)
  <2>1. z \in Nat
    BY <1>0, <1>10
  <2>2. pre * (F - R) = z * rest
    BY <1>0 DEF pre
  <2> HIDE DEF z
  <2>3. z * rest <= z * B
    BY <1>0, <2>1
  <2> QED  BY <2>2, <2>3 DEF z
<1> HIDE DEF m, y
<1>13. m * F * F <= y * (F - R)
  <2> DEFINE l == m * F * F
             r == y * (F - R)
  <2>1. l \in Int /\ r \in Int
    <3>1. m * F \in Int /\ F - R \in Int
      BY <1>0, <1>10
    <3> QED  BY <1>0, <1>10, <3>1
  <2>2. l * B <= r * B
    <3>1. q * d = l * B /\ pre * (F - R) <= r * B
      BY <1>11, <1>12
    <3> HIDE DEF l, r
    <3>2. l * B \in Int /\ r * B \in Int
      BY <1>0, <2>1
    <3> QED  BY <1>7, <1>9, <3>1, <3>2
  <2> HIDE DEF l, r
  <2>3. l <= r
    BY <1>0, <2>1, <2>2, Cancel
  <2> QED  BY <2>3 DEF l, r
<1>14. m * (F + R) <= y
  BY <1>0, <1>10, <1>13, ReserveIsEnough
<1>15. W * (q * UnitCost(x)) = m * (F + R)
  BY <1>0, <1>1, <1>3, <1>9 DEF m
<1> QED  BY <1>9, <1>14, <1>15 DEF W, y, w

---------------------------------------------------------------------------
(* Buying.                                                                 *)

(* Everything a portfolio has ever traded, it bought and still holds; a    *)
(* position of no more shares than its goal was bought at once, at these   *)
(* prices, and its fee was rounded once.                                   *)
BoughtOnce(pos, x, goal) ==
  /\ net_quantity(pos) > 0
  /\ net_quantity(pos) >= goal
  /\ net_quantity(pos) = goal =>
       net_incl_commission(pos) >= -(net_quantity(pos) * UnitCost(x) + RoundingFee)

BoughtAt(p, prices, goals) ==
  /\ p.closed_pnl = 0
  /\ \A a \in DOMAIN p.positions : BoughtOnce(p.positions[a], prices[a], goals[a])

(* The same of every portfolio of a broker.                                *)
AllBought(b, prices, goals) ==
  \A id \in DOMAIN b.portfolios : BoughtAt(b.portfolios[id], prices, goals)

(* An order for the whole of an asset's goal.                              *)
BuysGoal(o, goals) == o.quantity > 0 /\ o.quantity = goals[o.asset]

(* Every queued order is such a purchase.                                  *)
AllBuys(b, goals) ==
  \A id \in DOMAIN b.portfolios : \A o \in Range(b.open_orders[id]) : BuysGoal(o, goals)

(* Marks do not change what was bought.                                    *)
LEMMA SameBooksBought ==
  ASSUME NEW p, NEW q, SameBooks(p, q), NEW prices, NEW goals, BoughtAt(p, prices, goals)
  PROVE  BoughtAt(q, prices, goals)
  BY DEF SameBooks, BoughtAt, BoughtOnce

(* A purchase of the whole goal at the price.                              *)
LEMMA BuyKeeps ==
  ASSUME NEW p \in PortfolioRows, NEW prices, NEW goals, BoughtAt(p, prices, goals),
         NEW txn \in Txns, txn.quantity > 0, txn.quantity = goals[txn.asset],
         cost_with_commission(txn) <= txn.quantity * UnitCost(prices[txn.asset]) + RoundingFee,
         UnitCost(prices[txn.asset]) \in Int
  PROVE  BoughtAt(transact_asset(p, txn), prices, goals)
<1> DEFINE S == DOMAIN p.positions
           x == txn.asset
           pos == position_after(p.positions, txn)
           q == transact_asset(p, txn)
           c == UnitCost(prices[x])
           k == txn.quantity
           cost == cost_with_commission(txn)
           h == held(p.positions, x)
           g == IF x \in S THEN net_incl_commission(p.positions[x]) ELSE 0
           ps == [a \in S \cup {x} |-> IF a = x THEN pos ELSE p.positions[a]]
<1>1. p.positions \in [S -> OpenPositions] /\ p.closed_pnl = 0
  BY BooksAreFinite DEF BoughtAt
<1>2. net_quantity(pos) = h + k /\ net_incl_commission(pos) = g - cost
  BY <1>1, PositionAfter
<1>3. /\ k \in Int /\ k > 0 /\ c \in Int /\ cost <= k * c + RoundingFee
      /\ RoundingFee \in Int /\ k = goals[x]
  BY RoundingIsNat DEF Txns
<1>4. cost \in Int
  BY FeeAssumption DEF Txns, cost_with_commission
<1>5. h \in Nat /\ (x \in S => h >= k)
  <2>1. CASE x \in S
    <3>1. h = net_quantity(p.positions[x]) /\ h > 0 /\ h >= k
      BY <1>3, <2>1 DEF held, BoughtAt, BoughtOnce
    <3>2. p.positions[x] \in PositionRows
      BY <1>1, <2>1 DEF OpenPositions
    <3> QED  BY <3>1, <3>2 DEF net_quantity, PositionRows
  <2>2. CASE x \notin S
    BY <2>2 DEF held
  <2> QED  BY <2>1, <2>2
<1>6. BoughtOnce(pos, prices[x], goals[x])
  <2> HIDE DEF pos, h, k, c, cost
  <2>1. net_quantity(pos) > 0 /\ net_quantity(pos) >= k
    BY <1>2, <1>3, <1>5
  <2>2. ASSUME net_quantity(pos) = k
        PROVE  net_incl_commission(pos) >= -(net_quantity(pos) * c + RoundingFee)
    <3>1. x \notin S
      BY <1>2, <1>3, <1>5, <2>2
    <3>2. net_incl_commission(pos) = 0 - cost
      BY <1>2, <3>1
    <3>3. k * c \in Int
      BY <1>3
    <3> QED  BY <1>3, <1>4, <2>2, <3>2, <3>3
  <2> QED  BY <1>3, <2>1, <2>2 DEF BoughtOnce, c
<1>7. net_quantity(pos) # 0
  BY <1>2, <1>3, <1>5
<1>8. q = [p EXCEPT !.positions = ps, !.cash = @ - cost_with_commission(txn),
                    !.current_dt = txn.dt, !.closed_pnl = @]
  BY <1>7 DEF transact_asset, transact_position
<1> HIDE DEF pos
<1>9. DOMAIN ps = S \cup {x} /\ ps[x] = pos /\ \A a \in S : a # x => ps[a] = p.positions[a]
  OBVIOUS
<1> HIDE DEF ps
<1>10. q.positions = ps /\ q.closed_pnl = 0
  BY <1>1, <1>8 DEF PortfolioRows
<1> HIDE DEF q, c
<1>11. ASSUME NEW a \in S \cup {x} PROVE BoughtOnce(ps[a], prices[a], goals[a])
  <2>1. CASE a = x
    BY <1>6, <1>9, <2>1
  <2>2. CASE a # x
    <3>1. a \in S /\ ps[a] = p.positions[a]
      BY <1>9, <2>2
    <3> QED  BY <3>1 DEF BoughtAt
  <2> QED  BY <2>1, <2>2
<1>12. BoughtAt(q, prices, goals)
  BY <1>9, <1>10, <1>11 DEF BoughtAt
<1> QED  BY <1>12 DEF q

(* _execute_order of a purchase.                                           *)
LEMMA ExecuteBuy ==
  ASSUME NEW K, NEW c, SoundBroker(c, K), NEW id \in DOMAIN c.portfolios, NEW order \in OrderRows,
         NEW goals, BuysGoal(order, goals), NEW prices, Priced(prices, K, c.current_dt),
         AllBought(c, prices, goals)
  PROVE  AllBought(execute_order(c, id, order, prices), prices, goals)
<1> DEFINE p == c.portfolios[id]
           d == execute_order(c, id, order, prices)
           x == prices[order.asset]
           k == order.quantity
           txn == [asset |-> order.asset, quantity |-> k, price |-> x,
                   dt |-> c.current_dt, commission |-> calc_total_cost(k, rounded(x * k))]
           q == transact_asset(p, txn)
<1>0. c \in BrokerRows /\ p \in PortfolioRows /\ c.current_dt \in Nat
      /\ c.portfolios \in [DOMAIN c.portfolios -> PortfolioRows]
  BY BrokerFacts DEF SoundBroker
<1>1. order.asset \in Assets /\ k \in Nat \ {0} /\ k = goals[order.asset]
  BY DEF OrderRows, BuysGoal
<1>2. CASE c.raised
  BY <1>2 DEF execute_order
<1>3. CASE ~c.raised /\ (x = NaN \/ too_early(p, c.current_dt))
  <2>1. d = Raise(c)
    BY <1>3 DEF execute_order
  <2>2. d.portfolios = c.portfolios
    BY <2>1, RaiseKeeps
  <2> QED  BY <2>2 DEF AllBought
<1>4. CASE ~c.raised /\ ~(x = NaN \/ too_early(p, c.current_dt))
  <2>1. d = [c EXCEPT !.portfolios[id] = q]
    BY <1>4 DEF execute_order
  <2>2. x \in Nat
    BY <1>1, <1>4, BacktestAssumption DEF Priced
  <2>3. calc_total_cost(k, rounded(x * k)) \in Int
    <3>1. k \in Int /\ x * k \in Int
      BY <1>1, <2>2
    <3> HIDE DEF k, x
    <3>2. rounded(x * k) \in Int
      BY <3>1, RoundedIs
    <3> QED  BY <3>1, <3>2, FeeIsInt
  <2>4. /\ txn \in Txns /\ txn.asset = order.asset /\ txn.quantity = k /\ txn.price = x
        /\ txn.commission = calc_total_cost(k, rounded(x * k))
    BY <1>0, <1>1, <2>2, <2>3 DEF Txns
  <2>5. cost_with_commission(txn) <= k * UnitCost(x) + RoundingFee
    <3> HIDE DEF txn, k, x
    <3>1. cost_with_commission(txn) = k * x * FeeUnit + calc_total_cost(k, rounded(x * k))
      BY <2>4 DEF cost_with_commission
    <3> QED  BY <1>1, <2>2, <3>1, BuyCost
  <2>6. UnitCost(x) \in Int
    BY <2>2, RateIsNat, FeeAssumption DEF UnitCost
  <2>7. BoughtAt(q, prices, goals)
    <3>1. /\ txn.quantity > 0 /\ txn.quantity = goals[txn.asset]
          /\ cost_with_commission(txn) <= txn.quantity * UnitCost(prices[txn.asset]) + RoundingFee
          /\ UnitCost(prices[txn.asset]) \in Int
      BY <1>1, <2>4, <2>5, <2>6
    <3>2. BoughtAt(p, prices, goals)
      BY DEF AllBought
    <3> HIDE DEF txn, p
    <3> QED  BY <1>0, <2>4, <3>1, <3>2, BuyKeeps
  <2> HIDE DEF q
  <2>8. /\ DOMAIN d.portfolios = DOMAIN c.portfolios /\ d.portfolios[id] = q
        /\ \A i \in DOMAIN c.portfolios : i # id => d.portfolios[i] = c.portfolios[i]
    BY <1>0, <2>1 DEF BrokerRows
  <2> HIDE DEF d
  <2>9. AllBought(d, prices, goals)
    BY <2>7, <2>8 DEF AllBought
  <2> QED  BY <2>9 DEF d
<1> QED  BY <1>2, <1>3, <1>4

(* A drain of purchases.                                                   *)
LEMMA DrainBuys ==
  ASSUME NEW K, NEW b, SoundBroker(b, K), NEW prices, Priced(prices, K, b.current_dt), NEW goals,
         AllBuys(b, goals), AllBought(b, prices, goals)
  PROVE  AllBought(execute_open_orders(b, prices), prices, goals)
<1> DEFINE e == emptied(b)
           todo == ToExecute(b)
           n == Len(todo)
           V == {c \in BrokerRows : /\ SoundBroker(c, K) /\ AllBought(c, prices, goals)
                                    /\ DOMAIN c.portfolios = DOMAIN b.portfolios
                                    /\ c.current_dt = b.current_dt}
<1>1. SoundBroker(e, K) /\ e.portfolios = b.portfolios /\ e.current_dt = b.current_dt
  <2>1. e = emptied(b)
    OBVIOUS
  <2> HIDE DEF e
  <2> QED  BY <2>1, EmptiedIs
<1> HIDE DEF e
<1>2. todo \in Seq(Queued(b))
  <2>1. drained_orders(b) \in Seq(Queued(b)) /\ Queued(b) \subseteq Entries
    BY DrainIsQueued DEF Queued
  <2> QED  BY <2>1, SortKeeps DEF ToExecute
<1> HIDE DEF todo
<1>3. n \in Nat /\ DOMAIN todo = 1..n
  BY <1>2
<1>4. e \in V
  BY <1>1 DEF AllBought, SoundBroker
<1>5. ASSUME NEW c \in V, NEW k \in 1..n
      PROVE  execute_order(c, todo[k].id, todo[k].order, prices) \in V
  <2> DEFINE i == todo[k].id
             o == todo[k].order
             d == execute_order(c, i, o, prices)
  <2>1. todo[k] \in Queued(b)
    BY <1>2
  <2>2. i \in DOMAIN b.portfolios /\ o \in OrderRows /\ o \in Range(b.open_orders[i])
    BY <2>1 DEF Queued, Entries
  <2>3. BuysGoal(o, goals)
    BY <2>2 DEF AllBuys
  <2>4. /\ SoundBroker(c, K) /\ Priced(prices, K, c.current_dt) /\ AllBought(c, prices, goals)
        /\ DOMAIN c.portfolios = DOMAIN b.portfolios /\ c.current_dt = b.current_dt
    OBVIOUS
  <2> HIDE DEF i, o, V
  <2>5. SoundBroker(d, K) /\ Executed(c, d, i, o, prices) /\ AllBought(d, prices, goals)
    BY <2>2, <2>3, <2>4, ExecuteOrderKeeps, ExecuteBuy
  <2> HIDE DEF d
  <2>6. DOMAIN d.portfolios = DOMAIN b.portfolios /\ d.current_dt = b.current_dt /\ d \in BrokerRows
    BY <2>4, <2>5 DEF Executed, SameFunds, SoundBroker
  <2>7. d \in V
    BY <2>5, <2>6 DEF V
  <2> QED  BY <2>7 DEF d, i, o
<1>6. execute_open_orders(b, prices) \in V
  <2> HIDE DEF V, n
  <2> QED  BY <1>3, <1>4, <1>5, ExecuteStays DEF todo, e
<1> QED  BY <1>6

(* update, of a broker with purchases to make.                             *)
LEMMA UpdateBuys ==
  ASSUME NEW K, NEW b, SoundBroker(b, K), NEW dt \in Nat, NEW prices, Priced(prices, K, dt),
         NEW open \in BOOLEAN, NEW goals, AllBuys(b, goals), AllBought(b, prices, goals),
         NEW c, c = update(b, dt, prices, open)
  PROVE  AllBuys(c, goals) /\ AllBought(c, prices, goals)
<1> DEFINE timed == [b EXCEPT !.current_dt = dt]
           marked == mark_portfolios(timed, prices)
<1>1. b \in BrokerRows
  BY DEF SoundBroker
<1>2. /\ timed \in BrokerRows /\ timed.portfolios = b.portfolios /\ timed.current_dt = dt
      /\ timed.open_orders = b.open_orders /\ timed.portfolio_ids = b.portfolio_ids
  BY <1>1 DEF BrokerRows
<1>3. c = IF open /\ ~marked.raised THEN execute_open_orders(marked, prices) ELSE marked
  BY DEF update
<1> HIDE DEF timed
<1>4. SoundBroker(timed, K)
  BY <1>2 DEF SoundBroker, SameKeys
<1>5. SoundBroker(marked, K) /\ OnlyMarked(timed, marked)
  BY <1>2, <1>4, MarkPortfoliosKeep
<1> HIDE DEF marked
<1>6. /\ DOMAIN marked.portfolios = DOMAIN b.portfolios /\ marked.open_orders = b.open_orders
      /\ marked.current_dt = dt
      /\ \A id \in DOMAIN b.portfolios : SameBooks(b.portfolios[id], marked.portfolios[id])
  BY <1>2, <1>5 DEF OnlyMarked
<1>7. AllBuys(marked, goals) /\ AllBought(marked, prices, goals)
  BY <1>6, SameBooksBought DEF AllBuys, AllBought
<1>8. CASE c = marked
  BY <1>7, <1>8
<1>9. CASE c = execute_open_orders(marked, prices)
  <2>1. AllBought(c, prices, goals)
    BY <1>5, <1>6, <1>7, <1>9, DrainBuys
  <2>2. SoundBroker(c, K) /\ Settled(marked, c, prices)
    BY <1>5, <1>6, <1>9, ExecuteOpenKeeps
  <2>3. \A id \in DOMAIN c.portfolios : c.open_orders[id] = <<>>
    BY <2>2 DEF Settled, SameFunds
  <2>4. AllBuys(c, goals)
    BY <2>3 DEF AllBuys, Range
  <2> QED  BY <2>1, <2>4
<1> QED  BY <1>3, <1>8, <1>9

(* submit_order of a purchase.                                             *)
LEMMA SubmitBuys ==
  ASSUME NEW K, NEW b, SoundBroker(b, K), NEW id \in DOMAIN b.portfolios, NEW o \in OrderRows,
         NEW goals, BuysGoal(o, goals), AllBuys(b, goals), NEW c, c = submit_order(b, id, o)
  PROVE  AllBuys(c, goals)
<1> DEFINE r == b.open_orders[id]
           q == Append(r, o)
<1>1. b \in BrokerRows /\ DOMAIN b.open_orders = DOMAIN b.portfolios
  BY DEF SoundBroker, SameKeys
<1>2. r \in Seq(OrderRows)
  BY QueueFacts
<1>3. c = [b EXCEPT !.open_orders[id] = q]
  BY DEF submit_order
<1>4. /\ c.portfolios = b.portfolios /\ c.open_orders[id] = q
      /\ \A i \in DOMAIN b.portfolios : i # id => c.open_orders[i] = b.open_orders[i]
  <2> HIDE DEF q
  <2>1. b.open_orders \in [DOMAIN b.open_orders -> Seq(OrderRows)]
    BY <1>1, BrokerFacts
  <2> QED  BY <1>1, <1>3, <2>1 DEF BrokerRows
<1>5. \A x \in Range(r) : BuysGoal(x, goals)
  BY DEF AllBuys
<1>6. \A x \in Range(q) : BuysGoal(x, goals)
  <2> HIDE DEF r
  <2>1. /\ DOMAIN q = 1..(Len(r) + 1) /\ Len(r) \in Nat /\ DOMAIN r = 1..Len(r)
        /\ q[Len(r) + 1] = o /\ \A j \in 1..Len(r) : q[j] = r[j]
    BY <1>2
  <2> HIDE DEF q
  <2>2. ASSUME NEW j \in DOMAIN q PROVE BuysGoal(q[j], goals)
    <3>1. j \in 1..Len(r) \/ j = Len(r) + 1
      BY <2>1
    <3> QED  BY <1>5, <2>1, <3>1 DEF Range
  <2> QED  BY <2>2 DEF Range
<1> HIDE DEF q
<1> QED  BY <1>4, <1>6 DEF AllBuys

(* The execution handler with a list of purchases.                         *)
LEMMA HandlerBuys ==
  ASSUME NEW K, NEW b, SoundBroker(b, K), NEW id \in DOMAIN b.portfolios, NEW dt \in Nat,
         NEW orders \in Seq(OrderRows), NEW goals, \A j \in 1..Len(orders) : BuysGoal(orders[j], goals),
         NEW prices, Priced(prices, K, dt), NEW open \in BOOLEAN,
         AllBuys(b, goals), AllBought(b, prices, goals)
  PROVE  AllBought(execution_handler(b, id, dt, orders, prices, open), prices, goals)
<1> DEFINE n == Len(orders)
           V == {v \in BrokerRows : /\ SoundBroker(v, K) /\ id \in DOMAIN v.portfolios
                                    /\ AllBuys(v, goals) /\ AllBought(v, prices, goals)}
<1>1. n \in Nat /\ DOMAIN orders = 1..n /\ \A i \in 1..n : orders[i] \in OrderRows
  OBVIOUS
<1>2. b \in V
  BY DEF SoundBroker
<1>3. ASSUME NEW v \in V, NEW i \in 1..n
      PROVE  submit_and_update(v, id, dt, orders[i], prices, open) \in V
  <2> DEFINE o == orders[i]
             d == submit_and_update(v, id, dt, o, prices, open)
             s == submit_order(v, id, o)
  <2>1. /\ SoundBroker(v, K) /\ id \in DOMAIN v.portfolios /\ AllBuys(v, goals) /\ AllBought(v, prices, goals)
        /\ o \in OrderRows /\ BuysGoal(o, goals)
    BY <1>1
  <2> HIDE DEF o, V
  <2>2. SoundBroker(d, K) /\ Kept(v, d, dt, open)
    <3> HIDE DEF d
    <3> QED  BY <2>1, SubmitAndUpdate DEF d
  <2>3. AllBuys(d, goals) /\ AllBought(d, prices, goals)
    <3>1. CASE v.raised
      BY <2>1, <3>1 DEF submit_and_update
    <3>2. CASE ~v.raised
      <4>1. d = update(s, dt, prices, open)
        BY <3>2 DEF submit_and_update
      <4>2. s = submit_order(v, id, o)
        OBVIOUS
      <4> HIDE DEF s, d
      <4>3. SoundBroker(s, K) /\ Submitted(v, s, id, o, prices) /\ AllBuys(s, goals)
        BY <2>1, <4>2, SubmitKeeps, SubmitBuys
      <4>4. AllBought(s, prices, goals)
        BY <2>1, <4>3 DEF Submitted, AllBought
      <4> QED  BY <4>1, <4>3, <4>4, UpdateBuys
    <3> QED  BY <3>1, <3>2
  <2> HIDE DEF d
  <2>4. id \in DOMAIN d.portfolios /\ d \in BrokerRows
    BY <2>1, <2>2 DEF Kept, SameFunds, SoundBroker
  <2>5. d \in V
    BY <2>2, <2>3, <2>4 DEF V
  <2> QED  BY <2>5 DEF d, o
<1>4. execution_handler(b, id, dt, orders, prices, open) \in V
  <2> HIDE DEF V, n
  <2> QED  BY <1>1, <1>2, <1>3, HandlerStays
<1> QED  BY <1>4

---------------------------------------------------------------------------
(* A rebalance that only buys.                                             *)

(* An account that has never traded.                                       *)
Fresh(b) ==
  \A id \in DOMAIN b.portfolios :
    DOMAIN b.portfolios[id].positions = {} /\ b.portfolios[id].closed_pnl = 0

(* A portfolio that lacks no more than what rounding adds to its fees.     *)
Covered(b) ==
  b.portfolios[PortfolioId].cash >= -(RoundingFee * Cardinality(DOMAIN Positions(b)))

(* The books of an account that has never traded are its cash.             *)
LEMMA FreshBooks ==
  ASSUME NEW p \in PortfolioRows, DOMAIN p.positions = {}, p.closed_pnl = 0
  PROVE  /\ PaidIn(p) = p.cash /\ total_equity(p) = p.cash /\ p.cash \in Int
         /\ \A prices, goals : BoughtAt(p, prices, goals)
<1>1. p.cash \in Int
  BY BooksAreFinite
<1> DEFINE m == [a \in DOMAIN p.positions |-> market_value(p.positions[a])]
           n == [a \in DOMAIN p.positions |-> net_incl_commission(p.positions[a])]
<1>2. SumFunctionOnSet(m, {}) = 0 /\ SumFunctionOnSet(n, {}) = 0
  BY SumEmpty
<1>3. SumFunction(m) = 0 /\ SumFunction(n) = 0
  BY <1>2 DEF SumFunction
<1> HIDE DEF m, n
<1>4. PaidIn(p) = p.cash - 0 - 0 /\ total_equity(p) = 0 + p.cash
  BY <1>3 DEF PaidIn, total_equity, total_market_value, m, n
<1> QED  BY <1>1, <1>4 DEF BoughtAt

(* Orders of an account that holds nothing buy the whole target.           *)
LEMMA OrdersBuy ==
  ASSUME NEW dt \in Nat, NEW sized, NEW ps, NEW orders, orders = generate_rebalance_orders(dt, sized, ps),
         Rebalances(orders, sized, ps), \A a \in DOMAIN sized : sized[a] \in Nat /\ held(ps, a) = 0
  PROVE  \A j \in 1..Len(orders) : orders[j].asset \in DOMAIN sized /\ BuysGoal(orders[j], sized)
<1> DEFINE diff == [a \in DOMAIN sized |-> sized[a] - held(ps, a)]
           s == by_symbol({a \in DOMAIN diff : diff[a] # 0})
<1>1. orders = [i \in DOMAIN s |-> [asset |-> s[i], quantity |-> diff[s[i]], created_dt |-> dt]]
  BY DEF generate_rebalance_orders
<1> HIDE DEF s
<1> SUFFICES ASSUME NEW j \in 1..Len(orders)
             PROVE  orders[j].asset \in DOMAIN sized /\ BuysGoal(orders[j], sized)
  OBVIOUS
<1>2. orders[j] \in OrderRows /\ orders[j].asset \in DOMAIN sized /\ DOMAIN orders = 1..Len(orders)
  BY DEF Rebalances
<1>3. orders[j].quantity = diff[orders[j].asset]
  <2> HIDE DEF diff
  <2> QED  BY <1>1, <1>2
<1>4. orders[j].quantity = sized[orders[j].asset] - 0 /\ sized[orders[j].asset] \in Nat
  BY <1>2, <1>3
<1>5. orders[j].quantity # 0
  BY <1>2 DEF OrderRows
<1> QED  BY <1>2, <1>4, <1>5 DEF BuysGoal

(* What positions bought within their shares leave in the cash.            *)
LEMMA CashLeft ==
  ASSUME NEW p \in PortfolioRows, NEW prices, NEW goals, BoughtAt(p, prices, goals),
         NEW e \in Nat, PaidIn(p) = e,
         NEW full, IsFiniteSet(DOMAIN full), \A a \in DOMAIN full : full[a] \in Nat,
         DOMAIN p.positions \subseteq DOMAIN full,
         \A a \in DOMAIN p.positions :
           /\ net_quantity(p.positions[a]) = goals[a] /\ UnitCost(prices[a]) \in Int
           /\ weight_sum(full) * (net_quantity(p.positions[a]) * UnitCost(prices[a])) <= e * full[a]
  PROVE  p.cash >= -(RoundingFee * Cardinality(DOMAIN p.positions))
<1> DEFINE T == DOMAIN p.positions
           S == DOMAIN full
           W == weight_sum(full)
           R == RoundingFee
           k == [a \in T |-> net_quantity(p.positions[a]) * UnitCost(prices[a])]
           n == [a \in T |-> net_incl_commission(p.positions[a])]
           c == [a \in T |-> R]
           o == [a \in T |-> (-1) * n[a]]
           z == [a \in T |-> k[a] + c[a]]
<1>1. IsFiniteSet(T) /\ p.cash \in Int /\ R \in Int /\ \A a \in T : p.positions[a] \in OpenPositions
  BY BooksAreFinite, RoundingIsNat
<1>2. \A a \in T : /\ net_quantity(p.positions[a]) \in Int
                   /\ net_incl_commission(p.positions[a]) \in Int
  BY <1>1, FeeAssumption DEF OpenPositions, PositionRows, net_quantity, net_incl_commission
<1>3. ASSUME NEW a \in T
      PROVE  /\ k[a] \in Int /\ n[a] \in Int /\ c[a] = R /\ o[a] = (-1) * n[a] /\ z[a] = k[a] + c[a]
             /\ o[a] \in Int /\ z[a] \in Int /\ o[a] <= z[a] /\ W * k[a] <= e * full[a]
  <2>1. k[a] = net_quantity(p.positions[a]) * UnitCost(prices[a]) /\ k[a] \in Int /\ n[a] \in Int
    BY <1>2
  <2>2. n[a] >= -(k[a] + R)
    BY <2>1 DEF BoughtAt, BoughtOnce
  <2>3. W * k[a] <= e * full[a] /\ c[a] = R /\ o[a] = (-1) * n[a] /\ z[a] = k[a] + c[a]
    BY <2>1
  <2> HIDE DEF k, n, W, R, c, o, z
  <2> QED  BY <1>1, <2>1, <2>2, <2>3
<1>4. PaidIn(p) = p.cash - 0 - SumFunctionOnSet(n, T)
  BY DEF PaidIn, SumFunction, BoughtAt
<1>5. W \in Nat \ {0} /\ SumFunctionOnSet(full, S) <= W
  <2>1. SumFunctionOnSet(full, S) \in Nat
    BY SumNat
  <2> QED  BY <2>1 DEF weight_sum, SumFunction, NonZero
<1> HIDE DEF k, n, c, o, z, W, S, T, R
<1>6. /\ SumFunctionOnSet(o, T) = (-1) * SumFunctionOnSet(n, T)
      /\ SumFunctionOnSet(n, T) \in Int /\ SumFunctionOnSet(k, T) \in Int
  <2>1. \A a \in T : n[a] \in Int /\ o[a] = (-1) * n[a] /\ k[a] \in Int
    BY <1>3
  <2> QED  BY <1>1, <2>1, SumScale, SumInt
<1>7. SumFunctionOnSet(c, T) = R * Cardinality(T) /\ R * Cardinality(T) \in Int
  <2>1. \A a \in T : c[a] = R
    BY <1>3
  <2>2. Cardinality(T) \in Nat
    BY <1>1, FS_CardinalityType
  <2> QED  BY <1>1, <2>1, <2>2, SumConstant
<1>8. SumFunctionOnSet(z, T) = SumFunctionOnSet(k, T) + SumFunctionOnSet(c, T)
  BY <1>1, <1>3, SumPlus
<1>9. SumFunctionOnSet(o, T) <= SumFunctionOnSet(z, T)
  BY <1>1, <1>3, SumLess
<1>10. SumFunctionOnSet(k, T) <= e
  <2>1. T \subseteq S /\ IsFiniteSet(S) /\ \A a \in S : full[a] \in Nat
    BY DEF S, T
  <2> QED  BY <1>3, <1>5, <2>1, SharesOfWhole
<1>11. p.cash >= -(R * Cardinality(T))
  BY <1>1, <1>4, <1>6, <1>7, <1>8, <1>9, <1>10
<1> QED  BY <1>11 DEF R, T

(* A long-only rebalance in market hours of an account that has never      *)
(* traded: whatever the decision and the prices, the cash is enough but    *)
(* for the rounding.                                                       *)
LEMMA RebalanceFits ==
  ASSUME FeesBelowPrice, NEW K, NEW b, SoundBroker(b, K), DOMAIN b.portfolios = {PortfolioId},
         NEW t \in Nat, NEW weights \in Decisions, NEW p, Priced(p, K, t), session \in Sessions,
         session.long_only, is_open_at_datetime(t), Calm(b, t, p), Fresh(b),
         b.portfolios[PortfolioId].cash >= 0, NEW r, r = size_and_submit(b, t, weights, p)
  PROVE  Covered(r.broker)
<1> DEFINE pf == b.portfolios[PortfolioId]
           ps == Positions(b)
           full == full_weights(ps, get_assets(t), weights)
           sized == target_portfolio(session.long_only, pf, full, p)
           orders == generate_rebalance_orders(t, sized, ps)
           open == is_open_at_datetime(t)
           c == execution_handler(b, PortfolioId, t, orders, p, open)
           tg == [a \in Assets |-> IF a \in DOMAIN sized THEN sized[a] ELSE 0]
           q == c.portfolios[PortfolioId]
<1>1. /\ PortfolioId \in DOMAIN b.portfolios /\ b \in BrokerRows /\ pf \in PortfolioRows
      /\ ps = pf.positions /\ DOMAIN ps = {} /\ pf.closed_pnl = 0
  BY BrokerFacts DEF SoundBroker, Positions, Fresh
<1>2. PaidIn(pf) = pf.cash /\ total_equity(pf) = pf.cash /\ pf.cash \in Nat
      /\ \A goals : BoughtAt(pf, p, goals)
  <2>1. pf.cash >= 0
    OBVIOUS
  <2> HIDE DEF pf
  <2> QED  BY <1>1, <2>1, FreshBooks
<1>3. p \in [Assets -> Prices \cup {NaN}] /\ session.long_only \in BOOLEAN /\ open \in BOOLEAN
  BY BacktestAssumption DEF Priced, SessionType, is_open_at_datetime, IsBusinessDay
<1>4. /\ DOMAIN full \subseteq Assets /\ \A x \in DOMAIN full : full[x] \in Int
  <2>1. DOMAIN ps \subseteq Assets
    BY <1>1
  <2> HIDE DEF ps
  <2> QED  BY <2>1, FullWeights
<1>5. SoundBroker(r.broker, K) /\ Kept(b, r.broker, t, open) /\ Rebalanced(b, r, t, p, open)
  BY <1>1, SizeAndSubmit
<1>6. CASE r.broker.portfolios = b.portfolios
  <2>0. DOMAIN Positions(r.broker) = {}
    BY <1>1, <1>6 DEF Positions
  <2>1. Cardinality(DOMAIN Positions(r.broker)) \in Nat
    BY <2>0, FS_EmptySet, FS_CardinalityType
  <2>2. RoundingFee * Cardinality(DOMAIN Positions(r.broker)) >= 0
    BY <2>1, RoundingIsNat
  <2>3. pf.cash \in Nat /\ r.broker.portfolios[PortfolioId].cash = pf.cash
    BY <1>2, <1>6
  <2> QED  BY <2>1, <2>2, <2>3, RoundingIsNat DEF Covered
<1>7. CASE sizing_raises(session.long_only, full, p)
  <2>1. r.broker = Raise(b)
    BY <1>7 DEF size_and_submit, Raise
  <2> QED  BY <1>6, <2>1, RaiseKeeps
<1>8. CASE /\ ~sizing_raises(session.long_only, full, p)
           /\ ~(r.broker.portfolios = b.portfolios)
  <2>1. r = [broker |-> c, target |-> tg]
    BY <1>8 DEF size_and_submit
  <2>2. r.broker = c /\ r.target = tg
    BY <2>1
  <2> HIDE DEF full, pf, open
  <2>3. /\ DOMAIN sized = DOMAIN full
        /\ \A a \in DOMAIN full : sized[a] \in Int /\ held(pf.positions, a) \in Int /\ p[a] # NaN
    BY <1>1, <1>3, <1>4, <1>8, TargetIsWhole
  <2>4. \A a \in Assets : tg[a] = IF a \in DOMAIN full THEN sized[a] ELSE 0
    BY <2>3
  <2>5. \A a : held(ps, a) = 0
    BY <1>1 DEF held
  <2>6. IsFiniteSet(DOMAIN full) /\ \A a \in DOMAIN full : full[a] >= 0 /\ full[a] \in Nat
    BY <1>4, <1>8, BacktestAssumption, FS_Subset DEF sizing_raises
  <2>7. ASSUME NEW a \in DOMAIN full
        PROVE  /\ sized[a] \in Nat /\ UnitCost(p[a]) \in Int
               /\ weight_sum(full) * (sized[a] * UnitCost(p[a])) <= pf.cash * full[a]
    <3>1. p[a] \in Nat \ {0}
      BY <1>3, <1>4, <2>3, BacktestAssumption
    <3>2. Sizable(full, p[a], a)
      BY <1>4, <2>6, <3>1 DEF Sizable
    <3>3. held(pf.positions, a) = 0
      BY <1>1, <2>5
    <3>4. sized[a] = dollar_weighted(pf.cash, full, a, 0, p[a])
      BY <1>2, <3>3 DEF target_portfolio
    <3> HIDE DEF sized
    <3>5. UnitCost(p[a]) \in Int
      BY <3>1, RateIsNat, FeeAssumption DEF UnitCost
    <3> QED  BY <1>2, <2>6, <3>2, <3>4, <3>5, SizeFits
  <2> HIDE DEF sized, ps, tg, c
  <2>8. Rebalances(orders, sized, ps)
    BY <1>1, <1>4, <2>3, OrdersRebalance
  <2>9. orders \in Seq(OrderRows) /\ \A j \in 1..Len(orders) : BuysGoal(orders[j], sized)
    <3>1. \A a \in DOMAIN sized : sized[a] \in Nat /\ held(ps, a) = 0
      BY <2>3, <2>5, <2>7
    <3>2. orders = generate_rebalance_orders(t, sized, ps)
      OBVIOUS
    <3> HIDE DEF orders
    <3> QED  BY <2>8, <3>1, <3>2, OrdersBuy DEF Rebalances
  <2> HIDE DEF orders
  <2>10. AllBought(c, p, sized)
    <3>1. AllBought(b, p, sized)
      BY <1>2 DEF AllBought, pf
    <3>2. AllBuys(b, sized)
      BY DEF Calm, AllEmpty, AllBuys, Range
    <3> QED  BY <1>1, <1>3, <2>9, <3>1, <3>2, HandlerBuys DEF c
  <2>11. /\ SoundBroker(c, K) /\ DOMAIN c.portfolios = DOMAIN b.portfolios
         /\ PaidIn(q) = PaidIn(pf)
    BY <1>1, <1>5, <2>2 DEF Kept, SameFunds, pf
  <2>12. AllEmpty(c) /\ \A a \in Assets : Due(c, PortfolioId, a) = tg[a]
    BY <1>5, <1>8, <2>2 DEF Rebalanced, open
  <2>13. q \in PortfolioRows /\ BoughtAt(q, p, sized) /\ c \in BrokerRows /\ PortfolioId \in DOMAIN c.portfolios
    BY <1>1, <2>10, <2>11, BrokerFacts DEF SoundBroker, AllBought
  <2>14. DOMAIN q.positions \subseteq Assets
    BY <2>13, BooksAreFinite
  <2>15. ASSUME NEW a \in DOMAIN q.positions
         PROVE  a \in DOMAIN full /\ net_quantity(q.positions[a]) = sized[a]
    <3>1. queued(c.open_orders[PortfolioId], a) = 0
      BY <2>12, <2>13, NothingQueued DEF AllEmpty
    <3>2. HeldIn(c, PortfolioId, a) = net_quantity(q.positions[a]) /\ HeldIn(c, PortfolioId, a) \in Int
      BY <2>13, HeldIsInt DEF HeldIn, held
    <3>3. net_quantity(q.positions[a]) = tg[a]
      BY <2>12, <2>14, <3>1, <3>2 DEF Due
    <3>4. net_quantity(q.positions[a]) > 0
      BY <2>13 DEF BoughtAt, BoughtOnce
    <3> QED  BY <2>4, <2>14, <3>3, <3>4
  <2> HIDE DEF q
  <2>16. \A a \in DOMAIN q.positions :
           /\ net_quantity(q.positions[a]) = sized[a] /\ UnitCost(p[a]) \in Int
           /\ weight_sum(full) * (net_quantity(q.positions[a]) * UnitCost(p[a])) <= pf.cash * full[a]
    BY <2>7, <2>15
  <2>17. DOMAIN q.positions \subseteq DOMAIN full
    BY <2>15
  <2>18. q.cash >= -(RoundingFee * Cardinality(DOMAIN q.positions))
    BY <1>2, <2>6, <2>11, <2>13, <2>16, <2>17, CashLeft
  <2> QED  BY <2>2, <2>18 DEF q, Covered, Positions
<1> QED  BY <1>6, <1>7, <1>8

---------------------------------------------------------------------------
(* A buy-and-hold session.                                                 *)

(* An update without open orders only marks.                               *)
LEMMA QuietUpdate ==
  ASSUME NEW K, NEW b, SoundBroker(b, K), AllEmpty(b), NEW dt \in Nat, NEW prices,
         Priced(prices, K, dt), NEW open \in BOOLEAN, NEW u, u = update(b, dt, prices, open)
  PROVE  /\ DOMAIN u.portfolios = DOMAIN b.portfolios
         /\ \A id \in DOMAIN b.portfolios : SameBooks(b.portfolios[id], u.portfolios[id])
<1> DEFINE timed == [b EXCEPT !.current_dt = dt]
           marked == mark_portfolios(timed, prices)
<1>1. b \in BrokerRows
  BY DEF SoundBroker
<1>2. /\ timed \in BrokerRows /\ timed.portfolios = b.portfolios /\ timed.current_dt = dt
      /\ timed.open_orders = b.open_orders /\ timed.portfolio_ids = b.portfolio_ids
  BY <1>1 DEF BrokerRows
<1>3. u = IF open /\ ~marked.raised THEN execute_open_orders(marked, prices) ELSE marked
  BY DEF update
<1> HIDE DEF timed
<1>4. SoundBroker(timed, K)
  BY <1>2 DEF SoundBroker, SameKeys
<1>5. SoundBroker(marked, K) /\ OnlyMarked(timed, marked)
  BY <1>2, <1>4, MarkPortfoliosKeep
<1> HIDE DEF marked
<1>6. /\ DOMAIN marked.portfolios = DOMAIN b.portfolios /\ AllEmpty(marked)
      /\ \A id \in DOMAIN b.portfolios : SameBooks(b.portfolios[id], marked.portfolios[id])
  BY <1>2, <1>5 DEF OnlyMarked, AllEmpty
<1>7. execute_open_orders(marked, prices) = emptied(marked)
  <2>1. drained_orders(marked) \in Seq(Queued(marked))
    BY <1>5, DrainIsQueued
  <2>2. Queued(marked) = {}
    BY <1>6 DEF Queued, AllEmpty, Range
  <2>3. Queued(marked) \subseteq Entries
    BY DEF Queued
  <2>4. ToExecute(marked) \in Seq(Queued(marked))
    BY <2>1, <2>3, SortKeeps DEF ToExecute
  <2>5. DOMAIN ToExecute(marked) = 1..0
    BY <2>2, <2>4
  <2> DEFINE V == {emptied(marked)}
  <2>6. emptied(marked) \in V /\ 1..0 = {}
    OBVIOUS
  <2>7. \A v \in V, i \in 1..0 :
          execute_order(v, ToExecute(marked)[i].id, ToExecute(marked)[i].order, prices) \in V
    BY <2>6
  <2>8. execute_open_orders(marked, prices) \in V
    <3> HIDE DEF V
    <3> QED  BY <2>5, <2>6, <2>7, ExecuteStays
  <2> QED  BY <2>8
<1>8. emptied(marked).portfolios = marked.portfolios
  BY <1>5, EmptiedIs
<1> QED  BY <1>3, <1>6, <1>7, <1>8

(* A long-only buy-and-hold session that starts at an opening time.        *)
Frugal ==
  InSession /\ session.long_only /\ session.rebalance = "buy_and_hold" /\ Slot(session.start_dt) = 1

(* The rebalance of a buy-and-hold session is still to come.               *)
StillToBuy == \E t \in buy_and_hold_rebalances(session) : now < t

(* Such a session buys once: until then it has not traded, and after it    *)
(* nothing is queued.                                                      *)
ThriftInv ==
  Frugal =>
    /\ Covered(broker)
    /\ phase = "running" => AllEmpty(broker)
    /\ phase = "running" /\ StillToBuy => Fresh(broker)

(* The one date of a buy-and-hold schedule.                                *)
LEMMA BuyAndHoldDate ==
  ASSUME NEW s \in Sessions
  PROVE  /\ \A t \in buy_and_hold_rebalances(s) : t \in Int /\ Slot(t) = Slot(s.start_dt)
         /\ \A t \in buy_and_hold_rebalances(s) : buy_and_hold_rebalances(s) = {t}
<1> DEFINE a == s.start_dt
           near == {d \in Day(a)..(Day(a) + 6) : IsBusinessDay(d)}
           day == Min(near)
<1>1. a \in Nat
  BY BacktestAssumption DEF SessionType
<1>2. Day(a) \in Nat /\ Slot(a) \in 0..2
  BY <1>1, DayAndSlot
<1>3. near # {} /\ near \subseteq Int /\ IsFiniteSet(near)
  <2>1. near # {}
    BY <1>2, BusinessDayNear
  <2>2. near \subseteq Day(a)..(Day(a) + 6) /\ near \subseteq Int
    BY <1>2
  <2>3. IsFiniteSet(Day(a)..(Day(a) + 6))
    BY <1>2, FS_Interval
  <2> QED  BY <2>1, <2>2, <2>3, FS_Subset
<1>4. day \in near
  BY <1>3, FiniteMin
<1>5. day \in Nat
  BY <1>2, <1>4
<1>6. buy_and_hold_rebalances(s) = {3 * day + Slot(a)}
  BY DEF buy_and_hold_rebalances
<1> HIDE DEF day
<1> DEFINE z == Slot(a)
<1>7. z \in 0..2
  BY <1>2
<1> HIDE DEF z
<1>8. 3 * day + z \in Int /\ (3 * day + z) % 3 = z
  BY <1>5, <1>7
<1> QED  BY <1>6, <1>8 DEF Slot, z

(* The update of any event of such a session only marks.                   *)
LEMMA ThriftyUpdate ==
  ASSUME phase = "running", MoneyInv, HeadingInv, ThriftInv, Frugal, NEW t \in sim_events(session),
         Upcoming(t), price' \in NextPrices,
         NEW u, u = update(broker, t, price', is_open_at_datetime(t))
  PROVE  /\ Cleared(u, t) /\ t \in Nat /\ now < t /\ session \in Sessions
         /\ SoundBroker(u, SessionKnown(price')) /\ Priced(price', SessionKnown(price'), t)
         /\ Covered(u)
         /\ StillToBuy => Fresh(u)
<1> DEFINE p == price'
           K == SessionKnown(p)
           open == is_open_at_datetime(t)
<1>1. /\ Cleared(u, t) /\ session \in Sessions /\ now < t /\ now \in Nat
  BY EventClears DEF MoneyInv, InSession, Upcoming
<1>2. t \in Nat
  BY <1>1, EventsArePositive, BacktestAssumption
<1>3. SoundBroker(broker, K) /\ SoundBroker(u, K) /\ Priced(p, K, t)
  <2>1. EventOf(t, u, u)
    BY DEF EventOf
  <2> QED  BY <1>2, <2>1, SessionStep
<1>4. u = update(broker, t, p, open) /\ open \in BOOLEAN
  BY OpenIsBoolean
<1>5. /\ Covered(broker) /\ AllEmpty(broker)
      /\ StillToBuy => Fresh(broker)
  BY DEF ThriftInv
<1>6. DOMAIN broker.portfolios = {PortfolioId}
  BY DEF HeadingInv, Frugal
<1> HIDE DEF p, K, open
<1>7. /\ DOMAIN u.portfolios = {PortfolioId}
      /\ SameBooks(broker.portfolios[PortfolioId], u.portfolios[PortfolioId])
  BY <1>2, <1>3, <1>4, <1>5, <1>6, QuietUpdate
<1>8. Covered(u) /\ (StillToBuy => Fresh(u))
  BY <1>5, <1>6, <1>7 DEF SameBooks, Fresh, Covered, Positions
<1> QED  BY <1>1, <1>2, <1>3, <1>8 DEF p, K

(* An event outside the schedule.                                          *)
LEMMA PlainThrift ==
  ASSUME phase = "running", MoneyInv, HeadingInv, ThriftInv, NEW t \in sim_events(session),
         PlainEvent(t)
  PROVE  ThriftInv'
<1>1. /\ Upcoming(t) /\ price' \in NextPrices /\ now' = t /\ session' = session
      /\ broker' = update(broker, t, price', is_open_at_datetime(t))
  BY DEF PlainEvent, Finish
<1> SUFFICES ASSUME Frugal PROVE ThriftInv'
  BY <1>1 DEF ThriftInv, Frugal, InSession
<1>2. /\ Cleared(broker', t) /\ t \in Nat /\ now < t /\ session \in Sessions
      /\ Covered(broker') /\ (StillToBuy => Fresh(broker'))
  BY <1>1, ThriftyUpdate
<1>3. AllEmpty(broker')
  BY <1>2 DEF Cleared
<1>4. StillToBuy' => StillToBuy
  <2>1. session \in SessionType
    BY <1>2, BacktestAssumption
  <2>2. \A x \in buy_and_hold_rebalances(session) : x \in Int
    BY <1>2, BuyAndHoldDate
  <2>3. now \in Nat
    BY DEF MoneyInv
  <2>4. StillToBuy' <=> \E x \in buy_and_hold_rebalances(session) : t < x
    BY <1>1 DEF StillToBuy
  <2> QED  BY <1>2, <2>2, <2>3, <2>4 DEF StillToBuy
<1> QED  BY <1>2, <1>3, <1>4 DEF ThriftInv, AllEmpty, Fresh

(* The rebalance: at an opening, of an account that has not traded, and    *)
(* the only one.                                                           *)
LEMMA RebalanceThrift ==
  ASSUME FeesBelowPrice, phase = "running", MoneyInv, HeadingInv, ThriftInv,
         NEW t \in sim_events(session), RebalanceEvent(t)
  PROVE  ThriftInv'
<1> DEFINE p == price'
           K == SessionKnown(p)
           open == is_open_at_datetime(t)
           u == update(broker, t, p, open)
<1>1. /\ Upcoming(t) /\ is_rebalance_event(t) /\ p \in NextPrices /\ now' = t /\ session' = session
      /\ phase' = IF broker'.raised THEN "failed" ELSE "running"
  BY DEF RebalanceEvent, Finish
<1>0. ~u.raised
  BY <1>1, EventClears DEF Cleared
<1>2. PICK weights \in Decisions :
        LET r == size_and_submit(u, t, weights, p) IN broker' = r.broker /\ target' = r.target
  <2>1. PICK weights \in Decisions :
          LET r == rebalanced(u, t, weights, p) IN broker' = r.broker /\ target' = r.target
    BY DEF RebalanceEvent, Finish
  <2>2. rebalanced(u, t, weights, p) = size_and_submit(u, t, weights, p)
    BY <1>0 DEF rebalanced
  <2> QED  BY <2>1, <2>2
<1> DEFINE r == size_and_submit(u, t, weights, p)
<1>3. r = size_and_submit(u, t, weights, p) /\ broker' = r.broker
  BY <1>2
<1> SUFFICES ASSUME Frugal PROVE ThriftInv'
  BY <1>1 DEF ThriftInv, Frugal, InSession
<1>4. /\ Cleared(u, t) /\ t \in Nat /\ now < t /\ session \in Sessions
      /\ SoundBroker(u, K) /\ Priced(p, K, t)
      /\ Covered(u) /\ (StillToBuy => Fresh(u))
  BY <1>1, ThriftyUpdate
<1>5. buy_and_hold_rebalances(session) = {t} /\ Slot(t) = 1
  <2>1. t \in buy_and_hold_rebalances(session)
    BY <1>1 DEF Frugal, is_rebalance_event, rebalance_schedule
  <2> QED  BY <1>4, <2>1, BuyAndHoldDate DEF Frugal
<1>6. open /\ Fresh(u)
  <2>1. Slot(t) # 2
    BY <1>5
  <2>2. session \in SessionType
    BY <1>4, BacktestAssumption
  <2>3. open
    BY <2>1, <2>2, EventSlots
  <2> QED  BY <1>4, <1>5, <2>3 DEF StillToBuy
<1>7. ~(t < session.start_dt)
  BY <1>1, <1>4, RebalanceAfterStart, BacktestAssumption DEF SessionType
<1> HIDE DEF u, p, K, open, r
<1>8. DOMAIN u.portfolios = {PortfolioId} /\ Calm(u, t, p)
  <2>1. /\ DOMAIN u.portfolios = {PortfolioId} /\ TimelyAt(u, t) /\ ~u.raised /\ AllEmpty(u)
    BY <1>4, <1>7 DEF Cleared
  <2> QED  BY <2>1 DEF Calm, AllPriced, AllEmpty, Range
<1>9. Covered(r.broker)
  <2>1. DOMAIN Positions(u) = {} /\ Cardinality({}) = 0
    BY <1>6, <1>8, FS_EmptySet DEF Fresh, Positions
  <2>2. u.portfolios[PortfolioId].cash >= 0
    BY <1>4, <2>1, RoundingIsNat DEF Covered
  <2> QED  BY <1>3, <1>4, <1>6, <1>8, <2>2, RebalanceFits DEF Frugal, open
<1>10. SoundBroker(r.broker, K) /\ Rebalanced(u, r, t, p, open)
  <2>1. PortfolioId \in DOMAIN u.portfolios
    BY <1>8
  <2> QED  BY <1>3, <1>4, <2>1, SizeAndSubmit DEF open
<1>11. phase' = "running" => AllEmpty(broker')
  BY <1>1, <1>3, <1>6, <1>8, <1>10 DEF Rebalanced
<1>12. ~StillToBuy'
  BY <1>1, <1>4, <1>5 DEF StillToBuy
<1> QED  BY <1>3, <1>9, <1>11, <1>12 DEF ThriftInv, AllEmpty

(* A session starts with its initial cash and has not traded.              *)
LEMMA ThriftStart == SessionInit => ThriftInv
<1> SUFFICES ASSUME SessionInit PROVE ThriftInv
  OBVIOUS
<1> DEFINE F == InitialCash * FeeUnit
           K == SessionKnown(price)
           dt == session.start_dt
<1>1. session \in Sessions /\ dt \in Nat
  BY BacktestAssumption DEF SessionInit, Init, SessionType
<1>2. F \in Nat
  BY BacktestAssumption, FeeAssumption
<1>3. broker = FirstBroker(F, dt)
  BY DEF SessionInit, Init, FirstBroker
<1> HIDE DEF F, K, dt
<1>4. Started(broker, K, F, dt)
  BY <1>1, <1>2, <1>3, FirstAccount
<1>5. /\ DOMAIN broker.portfolios = {PortfolioId} /\ broker.open_orders[PortfolioId] = <<>>
      /\ DOMAIN broker.portfolios[PortfolioId].positions = {}
      /\ broker.portfolios[PortfolioId].cash = F /\ broker.portfolios[PortfolioId].closed_pnl = 0
  BY <1>4 DEF Started
<1>6. Covered(broker)
  <2>1. Cardinality(DOMAIN Positions(broker)) = 0
    BY <1>5, FS_EmptySet DEF Positions
  <2> QED  BY <1>2, <1>5, <2>1, RoundingIsNat DEF Covered
<1> QED  BY <1>5, <1>6 DEF ThriftInv, AllEmpty, Fresh

(* A long-only buy-and-hold session that starts at an opening time lacks   *)
(* at most half a unit's fee for each of its positions, and no cash at all *)
(* when prices are whole, whatever it decides and whatever the prices:     *)
(* _execute_order would let it be overdrawn.  The sizer reserves the fee   *)
(* on all the dollars of an asset, buys at the price it sized with, and    *)
(* buys once; what it does not reserve is the rounding of the              *)
(* consideration the fee is charged on.  The fee on a purchase must not    *)
(* exceed its price; nothing in the fee models checks that.                *)
THEOREM CashIsEnough ==
  ASSUME FeesBelowPrice
  PROVE  UseSpec => []OverdraftIsRounding
<1>1. UseInit => ThriftInv
  <2>1. HandInit => ThriftInv
    BY DEF HandInit, ThriftInv, Frugal, InSession
  <2> QED  BY <2>1, ThriftStart DEF UseInit
<1>2. MoneyInv /\ HeadingInv /\ ThriftInv /\ [UseNext]_allVars => ThriftInv'
  <2> SUFFICES ASSUME MoneyInv, HeadingInv, ThriftInv, [UseNext]_allVars PROVE ThriftInv'
    OBVIOUS
  <2>1. CASE Next
    <3>1. phase = "running"
      BY <2>1 DEF Next, PlainEvent, RebalanceEvent, End
    <3>2. CASE End
      <4>1. /\ InSession /\ phase' = "done" /\ broker' = broker /\ session' = session
        BY <3>1, <3>2 DEF End, InSession
      <4> QED  BY <4>1 DEF ThriftInv, Frugal, InSession
    <3> QED  BY <2>1, <3>1, <3>2, PlainThrift, RebalanceThrift DEF Next
  <2>2. CASE HandNext
    <3>1. phase' = "by_hand"
      BY <2>2 DEF HandNext, CreatePortfolio, SubscribeToAccount, WithdrawFromAccount,
                  SubscribeToPortfolio, WithdrawFromPortfolio, Submit, Update, Call
    <3> QED  BY <3>1 DEF ThriftInv, Frugal, InSession
  <2>3. CASE UNCHANGED allVars
    BY <2>3 DEF allVars, vars, ThriftInv, Frugal, InSession, StillToBuy, AllEmpty, Fresh,
                Covered, Positions
  <2> QED  BY <2>1, <2>2, <2>3 DEF UseNext
<1>3. ThriftInv => OverdraftIsRounding
  BY DEF ThriftInv, Frugal, Covered, OverdraftIsRounding
<1> QED  BY <1>1, <1>2, <1>3, BooksBalance, HeadingInvariant, PTL DEF UseSpec

---------------------------------------------------------------------------
(* The rebalance of a session, as its broker comes out of it.              *)

(* The target a decision that is not refused is sized to.                  *)
SizedTo(b, t, weights, p) ==
  LET sized == target_portfolio(session.long_only, b.portfolios[PortfolioId],
                                full_weights(Positions(b), get_assets(t), weights), p)
  IN [a \in Assets |-> IF a \in DOMAIN sized THEN sized[a] ELSE 0]

(* Either the sizer refuses and nothing but the time changes, or the       *)
(* broker goes on without an exception.                                    *)
RefusedOrSized(u, t, weights) ==
  \/ /\ Refused(u, t, weights, price')
     /\ phase' = "failed" /\ target' = target /\ command' = command
  \/ /\ ~Refused(u, t, weights, price')
     /\ phase' = "running" /\ command' = weights
     /\ target' = SizedTo(u, t, weights, price')

LEMMA RebalanceOutcome ==
  ASSUME phase = "running", MoneyInv, HeadingInv, NEW t \in sim_events(session), RebalanceEvent(t)
  PROVE  /\ t \in Nat /\ now' = t /\ is_rebalance_event(t) /\ session' = session
         /\ price' \in [Assets -> Prices \cup {NaN}]
         /\ \E weights \in Decisions : \E u :
              /\ SoundBroker(u, SessionKnown(price')) /\ PortfolioId \in DOMAIN u.portfolios
              /\ RefusedOrSized(u, t, weights)
<1> DEFINE p == price'
           K == SessionKnown(p)
           open == is_open_at_datetime(t)
           u == update(broker, t, p, open)
<1>1. /\ Upcoming(t) /\ is_rebalance_event(t) /\ p \in NextPrices /\ now' = t /\ session' = session
      /\ phase' = IF broker'.raised THEN "failed" ELSE "running"
  BY DEF RebalanceEvent, Finish
<1>4. Cleared(u, t) /\ ~u.raised
  BY <1>1, EventClears DEF Cleared
<1>2. PICK weights \in Decisions :
        LET r == size_and_submit(u, t, weights, p)
        IN /\ broker' = r.broker /\ target' = r.target
           /\ command' = IF r.broker.raised THEN command ELSE weights
  <2>1. PICK weights \in Decisions :
          LET r == rebalanced(u, t, weights, p)
          IN /\ broker' = r.broker /\ target' = r.target
             /\ command' = IF r.broker.raised THEN command ELSE weights
    BY DEF RebalanceEvent, Finish
  <2>2. rebalanced(u, t, weights, p) = size_and_submit(u, t, weights, p)
    BY <1>4 DEF rebalanced
  <2> QED  BY <2>1, <2>2
<1> DEFINE r == size_and_submit(u, t, weights, p)
<1>3. /\ r = size_and_submit(u, t, weights, p) /\ broker' = r.broker /\ target' = r.target
      /\ command' = IF r.broker.raised THEN command ELSE weights
  BY <1>2
<1>5. session \in Sessions /\ session \in SessionType /\ t \in Nat
  BY EventsArePositive, BacktestAssumption DEF MoneyInv, InSession
<1>6. ~(t < session.start_dt)
  BY <1>1, <1>5, RebalanceAfterStart, BacktestAssumption DEF SessionType
<1>7. SoundBroker(u, K) /\ Priced(p, K, t) /\ p \in [Assets -> Prices \cup {NaN}]
  <2>1. EventOf(t, u, u)
    BY DEF EventOf
  <2> QED  BY <1>1, <1>5, <2>1, SessionStep
<1> HIDE DEF r, u, p, K, open
<1>8. /\ DOMAIN u.portfolios = {PortfolioId} /\ TimelyAt(u, t) /\ ~u.raised /\ AllEmpty(u)
  BY <1>4, <1>6 DEF Cleared
<1>9. Calm(u, t, p)
  BY <1>8 DEF Calm, AllPriced, AllEmpty, Range
<1>10. PortfolioId \in DOMAIN u.portfolios
  BY <1>8
<1>11. ~Refused(u, t, weights, p) => ~r.broker.raised
  BY <1>3, <1>5, <1>7, <1>9, <1>10, SizeAndSubmit
<1>12. SoundBroker(u, SessionKnown(price')) /\ price' \in [Assets -> Prices \cup {NaN}]
  BY <1>7 DEF p, K
<1>13. CASE Refused(u, t, weights, p)
  <2>1. r = [broker |-> [u EXCEPT !.raised = TRUE], target |-> target]
    BY <1>3, <1>13 DEF size_and_submit, Refused
  <2>2. r.broker = Raise(u) /\ r.target = target
    BY <2>1 DEF Raise
  <2>3. r.broker.raised
    BY <1>7, <2>2, RaiseKeeps
  <2>4. RefusedOrSized(u, t, weights)
    BY <1>1, <1>3, <1>13, <2>2, <2>3 DEF RefusedOrSized, p
  <2> QED  BY <1>1, <1>5, <1>12, <1>10, <2>4
<1>14. CASE ~Refused(u, t, weights, p)
  <2>1. r.target = SizedTo(u, t, weights, p)
    BY <1>3, <1>14 DEF size_and_submit, Refused, SizedTo
  <2>2. RefusedOrSized(u, t, weights)
    BY <1>1, <1>3, <1>11, <1>14, <2>1 DEF RefusedOrSized, p
  <2> QED  BY <1>1, <1>5, <1>12, <1>10, <2>2
<1> QED  BY <1>13, <1>14

(* A running session fails only at a rebalance, and only because of the    *)
(* decision: it has a negative weight that the long-only sizer does not    *)
(* take, or it, or the universe, names an asset that has no price yet.     *)
(* What is held never stands in the way, and no execution raises           *)
(* (BacktestTradingSession.run, the sizers' checks).                       *)
FailsOnlyOnDecisions ==
  [][(phase = "running" /\ phase' = "failed") =>
       /\ is_rebalance_event(now')
       /\ \E weights \in Decisions :
            \/ session.long_only /\ \E a \in DOMAIN weights : weights[a] < 0
            \/ \E a \in get_assets(now') \cup DOMAIN weights : price'[a] = NaN]_allVars

(* Why a decision is refused.                                              *)
LEMMA WhyRefused ==
  ASSUME NEW p \in [Assets -> Prices \cup {NaN}], NEW u, SoundBroker(u, SessionKnown(p)),
         PortfolioId \in DOMAIN u.portfolios, NEW t, NEW weights \in Decisions,
         Refused(u, t, weights, p)
  PROVE  \/ session.long_only /\ \E a \in DOMAIN weights : weights[a] < 0
         \/ \E a \in get_assets(t) \cup DOMAIN weights : p[a] = NaN
<1> DEFINE ps == Positions(u)
           full == full_weights(ps, get_assets(t), weights)
<1>1. Marked(u.portfolios[PortfolioId], SessionKnown(p))
  BY DEF SoundBroker
<1>2. \A a \in DOMAIN ps : p[a] # NaN
  BY <1>1 DEF Marked, SessionKnown, Positions
<1>3. /\ DOMAIN full = DOMAIN ps \cup get_assets(t) \cup DOMAIN weights
      /\ \A a \in DOMAIN full : full[a] = IF a \in DOMAIN weights THEN weights[a] ELSE 0
  BY DEF full_weights
<1>4. \/ session.long_only /\ \E a \in DOMAIN full : full[a] < 0
      \/ \E a \in DOMAIN full : p[a] = NaN
  BY DEF Refused, sizing_raises
<1> HIDE DEF ps, full
<1> QED  BY <1>2, <1>3, <1>4

(* An event without a rebalance does not fail.                             *)
LEMMA PlainGoesOn ==
  ASSUME phase = "running", MoneyInv, HeadingInv, NEW t \in sim_events(session), PlainEvent(t)
  PROVE  phase' = "running" /\ UNCHANGED <<command, target>>
<1>1. /\ Upcoming(t) /\ price' \in NextPrices /\ UNCHANGED <<command, target>>
      /\ broker' = update(broker, t, price', is_open_at_datetime(t))
      /\ phase' = IF broker'.raised THEN "failed" ELSE "running"
  BY DEF PlainEvent, Finish
<1>2. Cleared(broker', t)
  BY <1>1, EventClears
<1> QED  BY <1>1, <1>2 DEF Cleared

(* A backtest that is given decisions its sizer takes, on assets with      *)
(* prices, runs to its end: an exception never comes from the broker.      *)
(* Decisions is any set; what a refused decision leaves behind is the same *)
(* for all of them, so that the one named here is as good as the one made. *)
THEOREM SessionsRunThrough == UseSpec => FailsOnlyOnDecisions
<1> DEFINE Blamed ==
             (phase = "running" /\ phase' = "failed") =>
               /\ is_rebalance_event(now')
               /\ \E weights \in Decisions :
                    \/ session.long_only /\ \E a \in DOMAIN weights : weights[a] < 0
                    \/ \E a \in get_assets(now') \cup DOMAIN weights : price'[a] = NaN
<1>1. MoneyInv /\ HeadingInv /\ [UseNext]_allVars => Blamed
  <2> SUFFICES ASSUME MoneyInv, HeadingInv, [UseNext]_allVars, phase = "running", phase' = "failed"
               PROVE  Blamed
    OBVIOUS
  <2>1. CASE Next
    <3>1. ~End
      BY DEF End
    <3>2. ASSUME NEW t \in sim_events(session), PlainEvent(t) PROVE FALSE
      BY <3>2, PlainGoesOn
    <3>3. ASSUME NEW t \in sim_events(session), RebalanceEvent(t) PROVE Blamed
      <4>1. /\ now' = t /\ is_rebalance_event(t) /\ price' \in [Assets -> Prices \cup {NaN}]
            /\ \E weights \in Decisions : \E u :
                 /\ SoundBroker(u, SessionKnown(price')) /\ PortfolioId \in DOMAIN u.portfolios
                 /\ RefusedOrSized(u, t, weights)
        BY <3>3, RebalanceOutcome
      <4>2. PICK weights \in Decisions : \E u :
              /\ SoundBroker(u, SessionKnown(price')) /\ PortfolioId \in DOMAIN u.portfolios
              /\ RefusedOrSized(u, t, weights)
        BY <4>1
      <4>3. PICK u : /\ SoundBroker(u, SessionKnown(price')) /\ PortfolioId \in DOMAIN u.portfolios
                     /\ RefusedOrSized(u, t, weights)
        BY <4>2
      <4>4. Refused(u, t, weights, price')
        BY <4>3 DEF RefusedOrSized
      <4>5. \/ session.long_only /\ \E a \in DOMAIN weights : weights[a] < 0
            \/ \E a \in get_assets(t) \cup DOMAIN weights : price'[a] = NaN
        <5> DEFINE p == price'
        <5>1. /\ p \in [Assets -> Prices \cup {NaN}] /\ SoundBroker(u, SessionKnown(p))
              /\ PortfolioId \in DOMAIN u.portfolios /\ Refused(u, t, weights, p)
          BY <4>1, <4>3, <4>4
        <5> HIDE DEF p
        <5>2. \/ session.long_only /\ \E a \in DOMAIN weights : weights[a] < 0
              \/ \E a \in get_assets(t) \cup DOMAIN weights : p[a] = NaN
          BY <5>1, WhyRefused
        <5> QED  BY <5>2 DEF p
      <4> QED  BY <4>1, <4>5
    <3> QED  BY <2>1, <3>1, <3>2, <3>3 DEF Next
  <2>2. CASE HandNext
    <3>1. phase = "by_hand"
      BY <2>2 DEF HandNext, CreatePortfolio, SubscribeToAccount, WithdrawFromAccount,
                  SubscribeToPortfolio, WithdrawFromPortfolio, Submit, Update, Call
    <3> QED  BY <3>1
  <2>3. CASE UNCHANGED allVars
    BY <2>3 DEF allVars, vars
  <2> QED  BY <2>1, <2>2, <2>3 DEF UseNext
<1> QED  BY <1>1, BooksBalance, HeadingInvariant, PTL DEF UseSpec, FailsOnlyOnDecisions

---------------------------------------------------------------------------
(* Selling out.                                                            *)

(* ZeroFeeModel, the simulated broker's default.                           *)
FreeTrading == commission_pct = 0 /\ tax_pct = 0

(* A decision that does not name an asset never leaves a long position in  *)
(* it, whatever the fees: what the sizer gets wrong (see                   *)
(* UnreferencedIsSoldOut) is only that it may sell too much.               *)
UnreferencedIsNeverKept ==
  \A a \in Assets \ DOMAIN command : target[a] <= 0

(* A fee is not negative, and there is none when both rates are zero.      *)
LEMMA FeeSign ==
  ASSUME NEW q \in Int, NEW x \in Int
  PROVE  calc_total_cost(q, x) \in Nat /\ (FreeTrading => calc_total_cost(q, x) = 0)
<1> DEFINE y == Abs(x)
<1>1. y \in Nat
  BY DEF Abs
<1>2. commission_pct \in Nat /\ tax_pct \in Nat
  BY FeeAssumption
<1>3. calc_total_cost(q, x) = commission_pct * y + (IF TaxOnSalesOnly /\ q >= 0 THEN 0 ELSE tax_pct * y)
  BY DEF calc_total_cost, calc_commission, calc_tax
<1> HIDE DEF y
<1>4. /\ commission_pct * y \in Nat /\ tax_pct * y \in Nat
      /\ FreeTrading => commission_pct * y = 0 /\ tax_pct * y = 0
  BY <1>1, <1>2 DEF FreeTrading
<1> QED  BY <1>3, <1>4

(* So is the sizer's estimate.                                             *)
LEMMA CostSign ==
  ASSUME NEW x \in Int, NEW q \in Int, NEW prices \in Nat \ {0}, NEW unit \in Nat \ {0},
         NEW cost, cost = estimate_trade_costs(x, q, prices, unit)
  PROVE  cost \in Nat /\ (FreeTrading => cost = 0)
<1> DEFINE td == x - q * prices * unit
           d == prices * unit
           w == Abs(td) \div d
           tq == IF td >= 0 THEN w ELSE -w
<1>1. td \in Int
  <2>1. q * prices \in Int
    OBVIOUS
  <2>2. q * prices * unit \in Int
    BY <2>1
  <2> QED  BY <2>2
<1>2. d \in Nat \ {0}
  BY PositiveProduct
<1>3. estimate_trade_costs(x, q, prices, unit) = calc_total_cost(tq, td)
  BY DEF estimate_trade_costs
<1> HIDE DEF td, d
<1>4. Abs(td) \in Int
  BY <1>1 DEF Abs
<1>5. w \in Int
  BY <1>2, <1>4, QuotientIsInt
<1> HIDE DEF w
<1>6. tq \in Int
  BY <1>5
<1> HIDE DEF tq
<1> QED  BY <1>1, <1>3, <1>6, FeeSign

(* Dividing, rounding down or towards zero, keeps the sign.                *)
LEMMA QuotientSign ==
  ASSUME NEW m \in Nat, NEW d \in Nat \ {0}
  PROVE  /\ (-m) \div d \in Int /\ (-m) \div d <= 0
         /\ -(m \div d) \in Int /\ -(m \div d) <= 0
         /\ m = 0 => (-m) \div d = 0 /\ -(m \div d) = 0
  OBVIOUS

LEMMA TruncateSign ==
  ASSUME NEW m \in Int, m <= 0, NEW d \in Nat \ {0}
  PROVE  /\ Truncate(m, d) \in Int /\ Truncate(m, d) <= 0
         /\ m = 0 => Truncate(m, d) = 0
<1>1. -m \in Nat
  OBVIOUS
<1>2. m = 0 => m \div d = 0
  OBVIOUS
<1>3. -((-m) \div d) \in Int /\ -((-m) \div d) <= 0
  BY <1>1, QuotientSign
<1> QED  BY <1>2, <1>3 DEF Truncate

(* The target for an asset of weight zero: the fee of selling it, floored, *)
(* or truncated twice.                                                     *)
LEMMA WeightlessDollars ==
  ASSUME NEW equity \in Int, NEW full, NEW a, NEW q \in Int, NEW x, Sizable(full, x, a),
         full[a] = 0, \A y \in DOMAIN full : full[y] >= 0,
         NEW n, n = dollar_weighted(equity, full, a, q, x)
  PROVE  n <= 0 /\ (FreeTrading => n = 0)
<1> DEFINE ws == weight_sum(full)
           unit == FeeUnit * BufferUnit * ws
           pre == equity * (BufferUnit - cash_buffer_percentage) * full[a]
           cost == estimate_trade_costs(pre, q, x, unit)
           after == pre * FeeUnit - cost
           d == x * unit * FeeUnit
<1>0. /\ FeeUnit \in Nat \ {0} /\ BufferUnit \in Nat \ {0} /\ x \in Nat \ {0}
      /\ BufferUnit - cash_buffer_percentage \in Int
  BY FeeAssumption, SizingAssumption DEF Sizable
<1>1. ws \in Nat \ {0}
  <2>1. \A y \in DOMAIN full : full[y] \in Nat
    BY DEF Sizable
  <2>2. SumFunctionOnSet(full, DOMAIN full) \in Nat
    BY <2>1, SumNat DEF Sizable
  <2> QED  BY <2>2 DEF weight_sum, SumFunction, NonZero
<1>2. n = after \div d
  BY DEF dollar_weighted
<1> HIDE DEF ws
<1>3. unit \in Nat \ {0}
  <2>1. FeeUnit * BufferUnit \in Nat \ {0}
    BY <1>0, PositiveProduct
  <2> QED  BY <1>1, <2>1, PositiveProduct
<1>4. pre = 0
  <2>1. equity * (BufferUnit - cash_buffer_percentage) \in Int
    BY <1>0
  <2> QED  BY <2>1
<1> HIDE DEF unit, pre
<1>5. cost \in Nat /\ (FreeTrading => cost = 0)
  <2>1. pre \in Int /\ cost = estimate_trade_costs(pre, q, x, unit)
    BY <1>4
  <2> HIDE DEF cost
  <2> QED  BY <1>0, <1>3, <2>1, CostSign
<1> HIDE DEF cost
<1>6. after = -cost
  BY <1>0, <1>4, <1>5
<1>7. d \in Nat \ {0}
  <2>1. x * unit \in Nat \ {0}
    BY <1>0, <1>3, PositiveProduct
  <2> QED  BY <1>0, <2>1, PositiveProduct
<1> HIDE DEF after, d
<1>8. (-cost) \div d <= 0 /\ (cost = 0 => (-cost) \div d = 0)
  BY <1>5, <1>7, QuotientSign
<1> QED  BY <1>2, <1>5, <1>6, <1>8

LEMMA WeightlessShares ==
  ASSUME NEW equity \in Int, NEW full, NEW a, NEW q \in Int, NEW x, Sizable(full, x, a),
         full[a] = 0, NEW n, n = long_short(equity, full, a, q, x)
  PROVE  n <= 0 /\ (FreeTrading => n = 0)
<1> DEFINE ge == gross_exposure(full)
           abs == [y \in DOMAIN full |-> Abs(full[y])]
           unit == FeeUnit * ge
           pre == equity * gross_leverage * full[a]
           cost == estimate_trade_costs(pre, q, x, unit)
           after == pre * FeeUnit - cost
           d == unit * FeeUnit * PriceUnit
           m == Truncate(after, d)
<1>0. /\ FeeUnit \in Nat \ {0} /\ gross_leverage \in Nat \ {0} /\ x \in Nat \ {0}
      /\ PriceUnit \in Nat \ {0}
  BY FeeAssumption, SizingAssumption, PriceAssumption DEF Sizable
<1>1. ge \in Nat \ {0}
  <2>1. \A y \in DOMAIN full : abs[y] \in Nat
    BY DEF Sizable, Abs
  <2>2. SumFunctionOnSet(abs, DOMAIN full) \in Nat
    <3> HIDE DEF abs
    <3> QED  BY <2>1, SumNat DEF Sizable
  <2> QED  BY <2>2 DEF gross_exposure, SumFunction, NonZero
<1>2. n = Truncate(PriceUnit * m, x)
  BY DEF long_short
<1> HIDE DEF ge
<1>3. unit \in Nat \ {0}
  BY <1>0, <1>1, PositiveProduct
<1>4. pre = 0
  <2>1. equity * gross_leverage \in Int
    BY <1>0
  <2> QED  BY <2>1
<1> HIDE DEF unit, pre
<1>5. cost \in Nat /\ (FreeTrading => cost = 0)
  <2>1. pre \in Int /\ cost = estimate_trade_costs(pre, q, x, unit)
    BY <1>4
  <2> HIDE DEF cost
  <2> QED  BY <1>0, <1>3, <2>1, CostSign
<1> HIDE DEF cost
<1>6. after \in Int /\ after <= 0 /\ (FreeTrading => after = 0)
  BY <1>0, <1>4, <1>5
<1>7. d \in Nat \ {0}
  <2>1. unit * FeeUnit \in Nat \ {0}
    BY <1>0, <1>3, PositiveProduct
  <2> QED  BY <1>0, <2>1, PositiveProduct
<1> HIDE DEF after, d
<1>8. m \in Int /\ m <= 0 /\ (FreeTrading => m = 0)
  BY <1>6, <1>7, TruncateSign
<1> HIDE DEF m
<1>9. PriceUnit * m \in Int /\ PriceUnit * m <= 0 /\ (m = 0 => PriceUnit * m = 0)
  BY <1>0, <1>8
<1> QED  BY <1>0, <1>2, <1>8, <1>9, TruncateSign

(* The target for an asset that the decision does not name.                *)
LEMMA UnreferencedTarget ==
  ASSUME NEW p \in [Assets -> Prices \cup {NaN}], NEW u, SoundBroker(u, SessionKnown(p)),
         PortfolioId \in DOMAIN u.portfolios, session \in Sessions, NEW t,
         NEW weights \in Decisions, ~Refused(u, t, weights, p),
         NEW a \in Assets, a \notin DOMAIN weights
  PROVE  LET n == SizedTo(u, t, weights, p)[a] IN n <= 0 /\ (FreeTrading => n = 0)
<1> DEFINE pf == u.portfolios[PortfolioId]
           ps == Positions(u)
           full == full_weights(ps, get_assets(t), weights)
           sized == target_portfolio(session.long_only, pf, full, p)
           e == total_equity(pf)
           q == held(pf.positions, a)
<1>1. u \in BrokerRows /\ pf \in PortfolioRows /\ ps = pf.positions
  BY BrokerFacts DEF SoundBroker, Positions
<1>2. DOMAIN ps \subseteq Assets
  BY <1>1, BooksAreFinite
<1>3. session.long_only \in BOOLEAN /\ e \in Int
  BY <1>1, BacktestAssumption, BooksAddUp DEF SessionType
<1>4. DOMAIN full \subseteq Assets /\ \A y \in DOMAIN full : full[y] \in Int
  <2> HIDE DEF ps
  <2> QED  BY <1>2, FullWeights
<1>5. a \in DOMAIN full => full[a] = 0
  BY DEF full_weights
<1>6. /\ DOMAIN sized = DOMAIN full
      /\ a \in DOMAIN full =>
           sized[a] = IF session.long_only THEN dollar_weighted(e, full, a, q, p[a])
                      ELSE long_short(e, full, a, q, p[a])
  BY DEF target_portfolio
<1>7. SizedTo(u, t, weights, p)[a] = IF a \in DOMAIN sized THEN sized[a] ELSE 0
  BY DEF SizedTo
<1>8. ~sizing_raises(session.long_only, full, p)
  BY DEF Refused
<1> HIDE DEF full, ps, pf
<1>9. /\ a \in DOMAIN full => q \in Int /\ p[a] # NaN
      /\ session.long_only => \A y \in DOMAIN full : full[y] >= 0
  BY <1>1, <1>3, <1>4, <1>8, TargetIsWhole DEF sizing_raises
<1> HIDE DEF sized, e, q
<1>10. CASE a \in DOMAIN full
  <2>1. p[a] \in Nat \ {0} /\ IsFiniteSet(DOMAIN full)
    BY <1>4, <1>9, <1>10, BacktestAssumption, FS_Subset
  <2>2. Sizable(full, p[a], a)
    BY <1>4, <1>10, <2>1 DEF Sizable
  <2>3. CASE session.long_only
    BY <1>3, <1>5, <1>6, <1>7, <1>9, <1>10, <2>2, <2>3, WeightlessDollars
  <2>4. CASE ~session.long_only
    BY <1>3, <1>5, <1>6, <1>7, <1>9, <1>10, <2>2, <2>4, WeightlessShares
  <2> QED  BY <2>3, <2>4
<1>11. CASE a \notin DOMAIN full
  BY <1>6, <1>7, <1>11
<1> QED  BY <1>10, <1>11

(* Nothing that the last decision does not name is to be held long, and    *)
(* nothing at all without fees.                                            *)
SellOutInv ==
  \A a \in Assets \ DOMAIN command : target[a] <= 0 /\ (FreeTrading => target[a] = 0)

LEMMA SellOutRebalance ==
  ASSUME phase = "running", MoneyInv, HeadingInv, SellOutInv,
         NEW t \in sim_events(session), RebalanceEvent(t)
  PROVE  SellOutInv'
<1> DEFINE p == price'
<1>1. /\ p \in [Assets -> Prices \cup {NaN}]
      /\ \E weights \in Decisions : \E u :
           /\ SoundBroker(u, SessionKnown(p)) /\ PortfolioId \in DOMAIN u.portfolios
           /\ RefusedOrSized(u, t, weights)
  BY RebalanceOutcome
<1>2. PICK weights \in Decisions : \E u :
           /\ SoundBroker(u, SessionKnown(p)) /\ PortfolioId \in DOMAIN u.portfolios
           /\ RefusedOrSized(u, t, weights)
  BY <1>1
<1>3. PICK u : /\ SoundBroker(u, SessionKnown(p)) /\ PortfolioId \in DOMAIN u.portfolios
               /\ RefusedOrSized(u, t, weights)
  BY <1>2
<1>4. \/ target' = target /\ command' = command
      \/ /\ ~Refused(u, t, weights, p) /\ command' = weights
         /\ target' = SizedTo(u, t, weights, p)
  BY <1>3 DEF RefusedOrSized
<1>5. session \in Sessions
  BY DEF MoneyInv, InSession
<1> HIDE DEF p
<1>6. CASE target' = target /\ command' = command
  BY <1>6 DEF SellOutInv
<1>7. CASE /\ ~Refused(u, t, weights, p) /\ command' = weights
           /\ target' = SizedTo(u, t, weights, p)
  <2>1. ASSUME NEW a \in Assets, a \notin DOMAIN weights
        PROVE  LET n == SizedTo(u, t, weights, p)[a] IN n <= 0 /\ (FreeTrading => n = 0)
    BY <1>1, <1>3, <1>5, <1>7, <2>1, UnreferencedTarget
  <2> QED  BY <1>7, <2>1 DEF SellOutInv
<1> QED  BY <1>4, <1>6, <1>7

LEMMA SellOutInvariant == UseSpec => []SellOutInv
<1>1. UseInit => SellOutInv
  BY DEF UseInit, SessionInit, Init, HandInit, SellOutInv
<1>2. MoneyInv /\ HeadingInv /\ SellOutInv /\ [UseNext]_allVars => SellOutInv'
  <2> SUFFICES ASSUME MoneyInv, HeadingInv, SellOutInv, [UseNext]_allVars PROVE SellOutInv'
    OBVIOUS
  <2>1. CASE Next
    <3>1. phase = "running"
      BY <2>1 DEF Next, PlainEvent, RebalanceEvent, End
    <3>2. CASE End
      BY <3>2 DEF End, SellOutInv
    <3>3. ASSUME NEW t \in sim_events(session), PlainEvent(t) PROVE SellOutInv'
      BY <3>3 DEF PlainEvent, SellOutInv
    <3> QED  BY <2>1, <3>1, <3>2, <3>3, SellOutRebalance DEF Next
  <2>2. CASE HandNext
    <3>1. UNCHANGED <<command, target>>
      BY <2>2 DEF HandNext, CreatePortfolio, SubscribeToAccount, WithdrawFromAccount,
                  SubscribeToPortfolio, WithdrawFromPortfolio, Submit, Update, Call
    <3> QED  BY <3>1 DEF SellOutInv
  <2>3. CASE UNCHANGED allVars
    BY <2>3 DEF allVars, vars, SellOutInv
  <2> QED  BY <2>1, <2>2, <2>3 DEF UseNext
<1> QED  BY <1>1, <1>2, BooksBalance, HeadingInvariant, PTL DEF UseSpec

(* Whatever the fees, a rebalance leaves no long position in an asset that *)
(* its decision does not name.                                             *)
THEOREM NothingIsKept == UseSpec => []UnreferencedIsNeverKept
<1>1. SellOutInv => UnreferencedIsNeverKept
  BY DEF SellOutInv, UnreferencedIsNeverKept
<1> QED  BY <1>1, SellOutInvariant, PTL

(* With ZeroFeeModel what build_orders promises is true: what a decision   *)
(* does not name is sold out, neither more nor less.  The counterexample   *)
(* of found_not_sold_out needs a fee.                                      *)
THEOREM SoldOutWithoutFees ==
  ASSUME FreeTrading
  PROVE  UseSpec => []UnreferencedIsSoldOut
<1>1. SellOutInv => UnreferencedIsSoldOut
  BY DEF SellOutInv, UnreferencedIsSoldOut
<1> QED  BY <1>1, SellOutInvariant, PTL
=============================================================================
