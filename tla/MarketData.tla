----------------------------- MODULE MarketData ------------------------------
(***************************************************************************)
(* What reaches the strategy from the market: a launch reads the holiday   *)
(* calendar and asks its gate, its main thread walks the venue's daily     *)
(* chart backwards through the gateway, warms the signal buffers and       *)
(* decides or refuses; a launch without signals goes straight to trading,  *)
(* where several threads call the gateway; a backtest feeds the same       *)
(* buffers day by day over a universe that grows.  The universe has assets *)
(* and the signals a lookback: without them warm_up_signals has nothing to *)
(* do and the launch is one that goes straight to trading.                 *)
(*                                                                         *)
(* Days are consecutive integers up to Today.  An asset's history is the   *)
(* set of days it has a bar for and the bars among them without a usable   *)
(* close; it is chosen once and does not change while it is read.          *)
(***************************************************************************)
EXTENDS Gateway, SignalBuffers, TradingCalendar

CONSTANTS
  Main,       \* the session's thread
  Universe,   \* the sorted assets of the signals
  Histories,  \* the histories an asset may have
  Entries,    \* the days on which an asset may enter a DynamicUniverse
  Today,
  PageSize,   \* CHART_PAGE_SIZE
  MaxPages    \* MAX_CHART_PAGES

Assets == Range(Universe)

ASSUME MarketDataAssumption ==
  /\ Main \in Threads
  /\ Universe \in Seq(Assets) \ {<<>>} /\ longest_lookback > 0
  /\ Entries \subseteq Nat
  /\ PageSize \in Nat \ {0} /\ MaxPages \in Nat \ {0} /\ Today \in Nat \ {0}
  /\ \A h \in Histories : h.listed \subseteq 1..Today /\ h.unusable \subseteq h.listed

VARIABLES
  job,      \* what the process is doing
  history,  \* external: what the venue knows of each asset
  entry,    \* the day on which each asset enters the universe
  day,      \* the last day a backtest has fed to the signals
  walk,     \* get_daily_closes: assets left, cursor, pages read, closes collected
  cut,      \* history: the assets one of whose pages came back without rows
  closes,   \* get_assets_historical_range_close_price: what each asset has
  buffers,  \* the signals' buffers
  warmup,   \* SignalsCollection.warmup
  warmed    \* warm_up_signals' counts

signalVars == <<history, entry, day, walk, cut, closes, buffers, warmup, warmed>>
dataVars == <<job, calendar, signalVars>>
vars == <<gatewayVars, dataVars>>

StartDay == Today - required_calendar_days(longest_lookback)
FirstWalk(left) == [left |-> left, cursor |-> Today, pages |-> 0, collected |-> {}]

usable(asset) == history[asset].listed \ history[asset].unusable

(* DynamicUniverse.get_assets                                              *)
get_assets(d) == { a \in Assets : d >= entry[a] }

(* A launch's universe is static, so every asset is there from the start.  *)
Init ==
  /\ GatewayInit
  /\ job \in {"gate", "trade", "backtest"}
  /\ IF job = "gate" THEN CalendarInit ELSE calendar = PastTheGate
  /\ history \in [Assets -> Histories]
  /\ entry \in [Assets -> IF job = "backtest" THEN Entries ELSE {0}]
  /\ job = "trade" => history = [a \in Assets |-> CHOOSE h \in Histories : TRUE]
  /\ day = 0
  /\ walk = FirstWalk(Universe)
  /\ cut = {}
  /\ closes = [a \in Assets |-> {}]
  /\ buffers = empty_buffers(get_assets(0))
  /\ warmup = 0
  /\ warmed = [a \in Assets |-> 0]

---------------------------------------------------------------------------
(* Cron's fetches and launches, until one of them is let through.          *)
Wait ==
  /\ job = "gate" /\ CalendarStep
  /\ UNCHANGED <<gatewayVars, job, signalVars>>

PassGate ==
  /\ job = "gate" /\ \E time \in Times : GateOpens(time)
  /\ job' = "walk"
  /\ UNCHANGED <<gatewayVars, signalVars>>

(* The bars the venue's chart endpoint answers with: external.             *)
chart_page(asset, cursor) ==
  last_days(history[asset].listed \cap (StartDay..cursor), PageSize)

parse_daily_closes(asset, rows) == rows \cap usable(asset)

AskPage ==
  /\ job = "walk" /\ walk.left # <<>>
  /\ Begin(Main, "query")
  /\ UNCHANGED dataVars

(* Where the next page ends.                                               *)
page_cursor(page) == Min(page) - 1

(* Mutant: a full page ends the walk.                                      *)
last_page_early(page) ==
  \/ Cardinality(page) <= PageSize
  \/ walk.pages + 1 = MaxPages

(* Whether the walk backwards ends with this page: it is empty or short,   *)
(* or there is no page left, or no day.                                    *)
last_page(page) ==
  \/ Cardinality(page) < PageSize
  \/ walk.pages + 1 = MaxPages
  \/ page_cursor(page) < StartDay

(* One turn of get_daily_closes' loop, with what its call came back with.  *)
(* An exception leaves the symbol out, the pages already read included.    *)
TakePage ==
  /\ job = "walk"
  /\ Return(Main)
  /\ LET asset == Head(walk.left)
         page  == IF answer[Main] = "rows"
                  THEN parse_daily_closes(asset, chart_page(asset, walk.cursor)) ELSE {}
         collected == IF answer[Main] = "error" THEN {} ELSE walk.collected \cup page
     IN IF last_page(page)
        THEN /\ closes' = [closes EXCEPT ![asset] = collected]
             /\ walk' = FirstWalk(Tail(walk.left))
        ELSE /\ walk' = [walk EXCEPT !.cursor = page_cursor(page), !.pages = @ + 1,
                                     !.collected = collected]
             /\ UNCHANGED closes
  /\ cut' = IF answer[Main] = "rows" THEN cut ELSE cut \cup {Head(walk.left)}
  /\ UNCHANGED <<job, calendar, history, entry, day, buffers, warmup, warmed>>

(* Mutant: the launch trades if any asset has history.                     *)
WarmUpAny ==
  /\ job = "walk" /\ walk.left = <<>>
  /\ buffers' = warm_assets(buffers, closes)
  /\ warmed' = [a \in Assets |-> warmed_count(closes[a])]
  /\ warmup' = warmup + Min(Range(warmed'))
  /\ job' = IF Range(warmed') = {0} THEN "refused" ELSE "decided"
  /\ UNCHANGED <<gatewayVars, calendar, history, entry, day, walk, cut, closes>>

(* warm_up_signals once every asset was fetched, and run_rebalance's       *)
(* refusal to trade on an asset without history.                           *)
WarmUp ==
  /\ job = "walk" /\ walk.left = <<>>
  /\ buffers' = warm_assets(buffers, closes)
  /\ warmed' = [a \in Assets |-> warmed_count(closes[a])]
  /\ warmup' = warmup + Min(Range(warmed'))
  /\ job' = IF 0 \in Range(warmed') THEN "refused" ELSE "decided"
  /\ UNCHANGED <<gatewayVars, calendar, history, entry, day, walk, cut, closes>>

(* BacktestDataHandler.get_asset_latest_mid_price: the last close so far.  *)
latest_price(asset, d) == Max({NoPrice} \cup (usable(asset) \cap (1..d)))

(* SignalsCollection.update: newcomers get buffers, every asset a price.   *)
UpdateSignals ==
  /\ job = "backtest" /\ day < Today
  /\ day' = day + 1
  /\ buffers' = append(add_asset(buffers, get_assets(day + 1)),
                       [a \in get_assets(day + 1) |-> latest_price(a, day + 1)])
  /\ warmup' = warmup + 1
  /\ UNCHANGED <<gatewayVars, job, calendar, history, entry, walk, cut, closes, warmed>>

(* The threads of a launch that trades: queries, reports and orders.       *)
Call(t) ==
  /\ job = "trade"
  /\ \/ \E k \in Kinds : Begin(t, k)
     \/ Return(t)
  /\ UNCHANGED dataVars

Gateways(t) == GatewayStep(t) /\ UNCHANGED dataVars
Time == Tick /\ UNCHANGED dataVars

Next ==
  \/ Wait \/ PassGate
  \/ AskPage \/ TakePage \/ WarmUp \/ UpdateSignals
  \/ \E t \in Threads : Call(t) \/ Gateways(t)
  \/ Time

(* A thread that can run does, and time passes.                            *)
Fairness ==
  /\ WF_vars(Time)
  /\ WF_vars(AskPage) /\ WF_vars(TakePage) /\ WF_vars(WarmUp)
  /\ \A t \in Threads : WF_vars(Gateways(t))

Spec == Init /\ [][Next]_vars /\ Fairness

---------------------------------------------------------------------------
(* Whatever pages were empty, short or failed, the prices a launch's       *)
(* signal holds are the asset's most recent closes, oldest first and       *)
(* without a hole: the walk backwards is cut, never pierced                *)
(* (get_daily_closes, warm_up_signals, AssetPriceBuffers.append).          *)
BuffersAreLatest ==
  job \in {"decided", "refused"} =>
    \A s \in Signals, a \in Assets : \A l \in stored_lookbacks(s) :
      buffers[s][a][l] = in_order(last_days(usable(a), Len(buffers[s][a][l])))

(* When every page came back with rows and no bar was unusable, the walk   *)
(* found every close of the window that its pages can hold                 *)
(* (get_daily_closes).                                                     *)
HistoryIsComplete ==
  job \in {"decided", "refused"} =>
    \A a \in Assets \ cut :
      history[a].unusable = {} =>
        closes[a] = last_days(usable(a) \cap (StartDay..Today), PageSize * MaxPages)

(* "Used for 'burn in'": when the count reaches a lookback, every asset    *)
(* that was in the universe from the start has filled its buffers of up to *)
(* that lookback, in a launch and in a backtest, and a launch that has     *)
(* less never decides without a price for one of its assets                *)
(* (SignalsCollection.update, warm_up_signals, run_rebalance's refusal).   *)
SignalsAreWarm ==
  \A s \in Signals : \A a \in get_assets(0) : \A l \in stored_lookbacks(s) :
    /\ warmup >= l => Len(buffers[s][a][l]) = l
    /\ job = "decided" => Len(buffers[s][a][l]) > 0

(* The walk ends in a decision or a refusal: the pages, the attempts and   *)
(* the wait for an answer are all bounded, and the throttle is always let  *)
(* go of.                                                                  *)
WarmUpEnds == (job = "walk") ~> (job \in {"decided", "refused"})
==============================================================================
