--------------------------- MODULE TradingCalendar ---------------------------
(***************************************************************************)
(* The holiday calendar: fetch_holidays.py walks the venue's calendar      *)
(* forwards and writes a file, and every launch reads that file, as the    *)
(* operations manual's launch script does, before the session's gate asks  *)
(* the KrxExchange.  The two are separate cron jobs without a common lock. *)
(*                                                                         *)
(* Days are integers, times of day too.  The venue's calendar is external  *)
(* and does not change; a fetch ends on the day it began.                  *)
(***************************************************************************)
EXTENDS Integers, FiniteSets, FiniteSetsExt

CONSTANTS
  LastDay,          \* bound on days
  Weekend,          \* the days whose weekday() is 5 or 6
  Closures,         \* external: the sets of weekdays the venue may be closed on
  FetchDays,        \* --days
  CalendarPage,     \* external: rows chk_holiday answers with
  Times,            \* when a launch may run
  OpenTime, CloseTime,
  RebalanceDates    \* the session's rebalance_dates, {} for None

ASSUME CalendarAssumption ==
  /\ LastDay \in Nat \ {0} /\ FetchDays \in Nat /\ CalendarPage \in Nat \ {0}
  /\ Times \subseteq Int /\ OpenTime \in Int /\ CloseTime \in Int
  /\ Weekend \subseteq Int /\ Closures \subseteq SUBSET Int

VARIABLE calendar

NoFile == [state |-> "none"]
CutShort == [state |-> "cut"]     \* opened for writing and not written yet
NotFetching == [pc |-> "none"]
NotLaunched == [pc |-> "none"]

CalendarInit ==
  \E closure \in Closures :
    calendar = [closed |-> Weekend \cup closure, today |-> 1,
                file |-> NoFile, fetch |-> NotFetching, launch |-> NotLaunched]

(* A launch that is past its gate does not look at the calendar again.     *)
PastTheGate == [launch |-> [pc |-> "passed"]]

Fetch == calendar.fetch
File == calendar.file

---------------------------------------------------------------------------
(* fetch_holidays.py                                                       *)

FetchBegins ==
  /\ Fetch.pc = "none"
  /\ calendar' = [calendar EXCEPT !.fetch =
       [pc |-> "page", end |-> calendar.today + FetchDays, cursor |-> calendar.today,
        seen |-> {}, holidays |-> {}]]

(* chk_holiday answers from the day asked for, past the range wanted.      *)
chk_holiday(day) == day..(day + CalendarPage - 1)

(* Mutant: the rows past the range count as covered.                       *)
examine_all(fetch, rows) ==
  [fetch EXCEPT !.seen = @ \cup rows,
                !.holidays = @ \cup { d \in rows \cap calendar.closed : d <= fetch.end }]

(* A page's rows: dates past the range are neither covered nor holidays.   *)
examine(fetch, rows) ==
  LET wanted == { d \in rows : d <= fetch.end } IN
  [fetch EXCEPT !.seen = @ \cup wanted, !.holidays = @ \cup (wanted \cap calendar.closed)]

(* One turn of fetch's loop.  It ends with the range, with a page that is  *)
(* empty and with one that brings it no further.                           *)
FetchPage ==
  /\ Fetch.pc = "page"
  /\ \E rows \in {{}, chk_holiday(Fetch.cursor)} :
       LET examined == examine(Fetch, rows)
           latest == Max({Fetch.cursor} \cup examined.seen)
           more == rows # {} /\ latest > Fetch.cursor /\ latest + 1 <= Fetch.end
       IN calendar' = [calendar EXCEPT !.fetch =
            IF more THEN [examined EXCEPT !.cursor = latest + 1]
            ELSE IF examined.seen = {} THEN NotFetching
            ELSE [examined EXCEPT !.pc = "write"]]

(* open(path, 'w') empties the file that is there.                         *)
OpenFile ==
  /\ Fetch.pc = "write"
  /\ calendar' = [calendar EXCEPT !.file = CutShort, !.fetch.pc = "dump"]

WriteFile ==
  /\ Fetch.pc = "dump"
  /\ calendar' = [calendar EXCEPT
       !.file = [state |-> "written", start |-> Min(Fetch.seen), end |-> Max(Fetch.seen),
                 holidays |-> Fetch.holidays],
       !.fetch = NotFetching]

(* A call raises, or the process dies.                                     *)
FetchFails ==
  /\ Fetch.pc # "none"
  /\ calendar' = [calendar EXCEPT !.fetch = NotFetching]

---------------------------------------------------------------------------
(* A launch: two readings of the file, then the gate.                      *)

(* holiday_file_covers; a file that is missing or cut short raises.        *)
holiday_file_covers(day) == File.state = "written" /\ File.start <= day /\ day <= File.end

ReadRange ==
  /\ calendar.launch.pc = "none"
  /\ holiday_file_covers(calendar.today)
  /\ calendar' = [calendar EXCEPT !.launch = [pc |-> "covered"]]

(* load_holidays reads the file a second time, or fails to.                *)
LoadHolidays ==
  /\ calendar.launch.pc = "covered"
  /\ calendar' = [calendar EXCEPT !.launch =
       IF File.state = "written" THEN [pc |-> "loaded", holidays |-> File.holidays]
                                 ELSE NotLaunched]

is_trading_day(day) == day \notin Weekend /\ day \notin calendar.launch.holidays
is_rebalance_day(day) == is_trading_day(day) /\ (RebalanceDates = {} \/ day \in RebalanceDates)
is_open_at_datetime(day, time) == is_trading_day(day) /\ OpenTime <= time /\ time < CloseTime

(* run_rebalance's two questions; a refused launch exits.                  *)
GateOpens(time) ==
  /\ calendar.launch.pc = "loaded"
  /\ is_rebalance_day(calendar.today) /\ is_open_at_datetime(calendar.today, time)
  /\ calendar' = PastTheGate

GateRefuses(time) ==
  /\ calendar.launch.pc = "loaded"
  /\ ~(is_rebalance_day(calendar.today) /\ is_open_at_datetime(calendar.today, time))
  /\ calendar' = [calendar EXCEPT !.launch = NotLaunched]

Tomorrow ==
  /\ Fetch.pc = "none" /\ calendar.launch.pc = "none" /\ calendar.today < LastDay
  /\ calendar' = [calendar EXCEPT !.today = @ + 1]

CalendarStep ==
  \/ FetchBegins \/ FetchPage \/ OpenFile \/ WriteFile \/ FetchFails
  \/ ReadRange \/ LoadHolidays
  \/ \E time \in Times : GateRefuses(time)
  \/ Tomorrow

---------------------------------------------------------------------------
(* Whether the venue is open, and the strategy due, at that time.          *)
Due(day, time) ==
  /\ day \notin calendar.closed /\ OpenTime <= time /\ time < CloseTime
  /\ RebalanceDates = {} \/ day \in RebalanceDates

(* A launch passes its gate only when the venue is open, and is refused by *)
(* it only when the venue is closed or no rebalance is due: however many   *)
(* pages the calendar came in, whichever of them was the last, however old *)
(* the file is, and although the file is read twice while a fetch may be   *)
(* rewriting it (fetch, holiday_file_covers, load_holidays,                *)
(* _is_rebalance_day, is_open_at_datetime).                                *)
GateFollowsTheVenue ==
  [][\A time \in Times : /\ GateOpens(time) => Due(calendar.today, time)
                         /\ GateRefuses(time) => ~Due(calendar.today, time)]_calendar
==============================================================================
