-------------------------- MODULE MarketData_proofs --------------------------
(***************************************************************************)
(* The market's side of a launch and of a backtest, for any universe,      *)
(* histories, calendars, page sizes and lookbacks: what is proved of the   *)
(* gateway holds for all that use it; the gate follows the venue; the      *)
(* walk backwards loses no close; the buffers hold the latest prices and   *)
(* the warm-up count does not promise more than they hold; a call and the  *)
(* walk are bounded.                                                       *)
(*                                                                         *)
(* What a set of days is in order, and what a deque holds after any number *)
(* of appends, is proved by the inductions of DataLemmas.                  *)
(***************************************************************************)
EXTENDS MarketData, DataLemmas, SequenceTheorems, TLAPS

---------------------------------------------------------------------------
(* The gateway: its spacing, for any threads and any intervals.            *)

(* Only the holder of the lock is between its acquisition and its release, *)
(* and what it has still to sleep completes the interval.                  *)
ThrottleInv ==
  \A t \in Threads :
    /\ pc[t] \in {"inside", "passed"} => lock = t
    /\ pc[t] = "inside" => since_pass + wait[t] >= MinCallInterval

GatewayInv == GatewayTypeOK /\ ThrottleInv

(* A backoff is a time to sleep.                                           *)
LEMMA BackoffIsNat == \A n \in Nat : Backoff * (n + 1) \in Nat
<1>1. Backoff \in Nat
  BY GatewayAssumption
<1>2. SUFFICES ASSUME NEW n \in Nat PROVE Backoff * (n + 1) \in Nat
  OBVIOUS
<1>3. n + 1 \in Nat
  OBVIOUS
<1>4. \A m \in Nat : Backoff * m \in Nat
  BY <1>1, SMT
<1> QED
  BY <1>3, <1>4

(* Every step of the gateway keeps the types: the waits are never          *)
(* negative.                                                               *)
LEMMA TypeStep == GatewayTypeOK /\ [GatewayNext]_gatewayVars => GatewayTypeOK'
<1> SUFFICES ASSUME GatewayTypeOK, [GatewayNext]_gatewayVars PROVE GatewayTypeOK'
  OBVIOUS
<1> USE GatewayAssumption
<1>1. CASE Tick
  BY <1>1 DEF Tick, Older, GatewayTypeOK
<1>2. ASSUME NEW t \in Threads, NEW k \in Kinds, Begin(t, k) PROVE GatewayTypeOK'
  BY <1>2 DEF Begin, GatewayTypeOK
<1>3. ASSUME NEW t \in Threads, Acquire(t) PROVE GatewayTypeOK'
  BY <1>3 DEF Acquire, GatewayTypeOK
<1>4. ASSUME NEW t \in Threads, Pass(t) PROVE GatewayTypeOK'
  BY <1>4 DEF Pass, GatewayTypeOK
<1>5. ASSUME NEW t \in Threads, Release(t) PROVE GatewayTypeOK'
  BY <1>5 DEF Release, GatewayTypeOK
<1>6. ASSUME NEW t \in Threads, VenueCall(t) PROVE GatewayTypeOK'
  <2>1. PICK a \in VenueAnswers :
          /\ answer' = [answer EXCEPT ![t] = a]
          /\ pc' = [pc EXCEPT ![t] = IF retried(t, a) THEN "call" ELSE "answered"]
          /\ wait' = [wait EXCEPT ![t] = IF retried(t, a)
                                         THEN Backoff * (attempt[t] + 1) ELSE 0]
    BY <1>6 DEF VenueCall
  <2>2. attempt[t] \in Nat
    BY DEF GatewayTypeOK
  <2>3. Backoff * (attempt[t] + 1) \in Nat
    BY <2>2, BackoffIsNat
  <2>4. wait' \in [Threads -> Nat]
    BY <2>1, <2>3 DEF GatewayTypeOK
  <2>5. /\ answer' \in [Threads -> {"none", "rows", "empty", "error"}]
        /\ pc' \in [Threads -> {"idle", "throttle", "inside", "passed", "call", "answered"}]
    BY <2>1 DEF VenueAnswers, GatewayTypeOK
  <2>6. /\ lock' \in Threads \cup {NoThread} /\ since_pass' \in 0..MaxAge
        /\ since_call' \in 0..MaxAge /\ kind' \in [Threads -> Kinds]
        /\ attempt' \in [Threads -> Nat]
    BY <1>6 DEF VenueCall, GatewayTypeOK
  <2> QED
    BY <2>4, <2>5, <2>6 DEF GatewayTypeOK
<1>7. ASSUME NEW t \in Threads, Return(t) PROVE GatewayTypeOK'
  BY <1>7 DEF Return, GatewayTypeOK
<1>8. CASE UNCHANGED gatewayVars
  BY <1>8 DEF gatewayVars, GatewayTypeOK
<1> QED
  BY <1>1, <1>2, <1>3, <1>4, <1>5, <1>6, <1>7, <1>8 DEF GatewayNext, GatewayStep

(* The lock makes the throttle's read, sleep and write one step.           *)
LEMMA ThrottleStep ==
  GatewayTypeOK /\ ThrottleInv /\ [GatewayNext]_gatewayVars => ThrottleInv'
<1> SUFFICES ASSUME GatewayTypeOK, ThrottleInv, [GatewayNext]_gatewayVars,
                    NEW u \in Threads
             PROVE  /\ pc'[u] \in {"inside", "passed"} => lock' = u
                    /\ pc'[u] = "inside" => since_pass' + wait'[u] >= MinCallInterval
  BY DEF ThrottleInv
<1> USE GatewayAssumption DEF ThrottleInv, GatewayTypeOK
<1>1. CASE Tick
  BY <1>1 DEF Tick, Older
<1>2. ASSUME NEW t \in Threads, NEW k \in Kinds, Begin(t, k)
      PROVE  /\ pc'[u] \in {"inside", "passed"} => lock' = u
             /\ pc'[u] = "inside" => since_pass' + wait'[u] >= MinCallInterval
  BY <1>2 DEF Begin
<1>3. ASSUME NEW t \in Threads, Acquire(t)
      PROVE  /\ pc'[u] \in {"inside", "passed"} => lock' = u
             /\ pc'[u] = "inside" => since_pass' + wait'[u] >= MinCallInterval
  BY <1>3 DEF Acquire
<1>4. ASSUME NEW t \in Threads, Pass(t)
      PROVE  /\ pc'[u] \in {"inside", "passed"} => lock' = u
             /\ pc'[u] = "inside" => since_pass' + wait'[u] >= MinCallInterval
  BY <1>4 DEF Pass
<1>5. ASSUME NEW t \in Threads, Release(t)
      PROVE  /\ pc'[u] \in {"inside", "passed"} => lock' = u
             /\ pc'[u] = "inside" => since_pass' + wait'[u] >= MinCallInterval
  BY <1>5 DEF Release
<1>6. ASSUME NEW t \in Threads, VenueCall(t)
      PROVE  /\ pc'[u] \in {"inside", "passed"} => lock' = u
             /\ pc'[u] = "inside" => since_pass' + wait'[u] >= MinCallInterval
  <2>1. CASE u = t
    <3>1. pc'[t] \in {"call", "answered"}
      BY <1>6 DEF VenueCall
    <3> QED
      BY <2>1, <3>1
  <2>2. CASE u # t
    <3>1. pc'[u] = pc[u] /\ wait'[u] = wait[u] /\ lock' = lock /\ since_pass' = since_pass
      BY <1>6, <2>2 DEF VenueCall
    <3> QED
      BY <3>1
  <2> QED
    BY <2>1, <2>2
<1>7. ASSUME NEW t \in Threads, Return(t)
      PROVE  /\ pc'[u] \in {"inside", "passed"} => lock' = u
             /\ pc'[u] = "inside" => since_pass' + wait'[u] >= MinCallInterval
  BY <1>7 DEF Return
<1>8. CASE UNCHANGED gatewayVars
  BY <1>8 DEF gatewayVars
<1> QED
  BY <1>1, <1>2, <1>3, <1>4, <1>5, <1>6, <1>7, <1>8 DEF GatewayNext, GatewayStep

(* Both parts hold from the start and are kept by every step.              *)
LEMMA GatewayInvariant == GatewaySpec => []GatewayInv
<1>1. GatewayInit => GatewayInv
  BY GatewayAssumption
     DEF GatewayInit, GatewayInv, GatewayTypeOK, ThrottleInv, Kinds
<1>2. GatewayInv /\ [GatewayNext]_gatewayVars => GatewayInv'
  BY TypeStep, ThrottleStep DEF GatewayInv
<1> QED
  BY <1>1, <1>2, PTL DEF GatewaySpec

(* For any number of threads and any interval, two calls pass the throttle *)
(* at least MIN_CALL_INTERVAL apart (_throttle).                           *)
THEOREM Spacing == GatewaySpec => PassesAreSpaced
<1>1. GatewayInv /\ [GatewayNext]_gatewayVars
        => [\A t \in Threads : Pass(t) => since_pass >= MinCallInterval]_gatewayVars
  <2> SUFFICES ASSUME GatewayInv, NEW t \in Threads, Pass(t)
               PROVE  since_pass >= MinCallInterval
    OBVIOUS
  <2> QED
    BY GatewayAssumption DEF GatewayInv, GatewayTypeOK, ThrottleInv, Pass
<1> QED
  BY <1>1, GatewayInvariant, PTL DEF GatewaySpec, PassesAreSpaced

(* Behind CallsAreFew: a thread on its way to the venue has a call left.   *)
CallsInv ==
  /\ \A t \in Threads : attempt[t] <= MostCalls(t)
  /\ \A t \in Threads :
       pc[t] \in {"throttle", "inside", "passed", "call"} => attempt[t] < MostCalls(t)
  /\ lock # NoThread => pc[lock] \in {"inside", "passed"}

(* Every step of the gateway keeps a call's bound.                         *)
LEMMA CallsStep == GatewayInv /\ CallsInv /\ [GatewayNext]_gatewayVars => CallsInv'
<1> SUFFICES ASSUME GatewayInv, CallsInv, [GatewayNext]_gatewayVars PROVE CallsInv'
  OBVIOUS
<1> USE GatewayAssumption
<1>0. GatewayTypeOK /\ ThrottleInv
  BY DEF GatewayInv
<1>1. CASE Tick \/ UNCHANGED gatewayVars
  BY <1>1 DEF Tick, gatewayVars, CallsInv, MostCalls
<1>2. ASSUME NEW t \in Threads, NEW k \in Kinds, Begin(t, k) PROVE CallsInv'
  BY <1>0, <1>2 DEF Begin, GatewayTypeOK, CallsInv, MostCalls
<1>3. ASSUME NEW t \in Threads, Acquire(t) PROVE CallsInv'
  BY <1>0, <1>3 DEF Acquire, GatewayTypeOK, CallsInv, MostCalls
<1>4. ASSUME NEW t \in Threads, Pass(t) PROVE CallsInv'
  BY <1>0, <1>4 DEF Pass, GatewayTypeOK, CallsInv, MostCalls
<1>5. ASSUME NEW t \in Threads, Release(t) PROVE CallsInv'
  BY <1>0, <1>5 DEF Release, GatewayTypeOK, CallsInv, MostCalls
<1>6. ASSUME NEW t \in Threads, VenueCall(t) PROVE CallsInv'
  <2>1. PICK a \in VenueAnswers :
          pc' = [pc EXCEPT ![t] = IF retried(t, a) THEN "call" ELSE "answered"]
    BY <1>6 DEF VenueCall
  <2>2. /\ attempt' = [attempt EXCEPT ![t] = @ + 1] /\ pc[t] = "call"
        /\ UNCHANGED <<kind, lock>>
    BY <1>6 DEF VenueCall
  <2>3. attempt[t] < MostCalls(t) /\ \A u \in Threads : attempt[u] \in Nat
    BY <1>0, <2>2 DEF CallsInv, GatewayTypeOK
  <2>4. MostCalls(t) \in Nat /\ \A u \in Threads : MostCalls(u)' = MostCalls(u)
    BY <2>2 DEF MostCalls
  <2>5. pc'[t] = "call" => attempt[t] + 1 < MostCalls(t)
    BY <1>0, <2>1 DEF GatewayTypeOK, retried, MostCalls
  <2>6. pc'[t] \in {"call", "answered"} /\ \A u \in Threads : u # t => pc'[u] = pc[u]
    BY <1>0, <2>1 DEF GatewayTypeOK
  <2>7. attempt'[t] = attempt[t] + 1 /\ \A u \in Threads : u # t => attempt'[u] = attempt[u]
    BY <1>0, <2>2 DEF GatewayTypeOK
  <2>8. lock' # NoThread => pc'[lock'] \in {"inside", "passed"}
    BY <1>0, <2>2, <2>6 DEF CallsInv, GatewayTypeOK
  <2> QED  BY <2>3, <2>4, <2>5, <2>6, <2>7, <2>8 DEF CallsInv
<1>7. ASSUME NEW t \in Threads, Return(t) PROVE CallsInv'
  BY <1>0, <1>7 DEF Return, GatewayTypeOK, CallsInv, MostCalls
<1> QED
  BY <1>1, <1>2, <1>3, <1>4, <1>5, <1>6, <1>7 DEF GatewayNext, GatewayStep

(* However many threads call and whatever the venue answers: an order is   *)
(* sent at most once for one place_market_order and an enquiry about it at *)
(* most once, because only queries are retried (call_with_retry), and no   *)
(* thread keeps the throttle's lock on its way to the venue (_throttle).   *)
THEOREM NoOrderIsRetried == GatewaySpec => []CallsAreFew
<1>1. GatewayInit => CallsInv
  BY GatewayAssumption DEF GatewayInit, CallsInv, MostCalls
<1>2. CallsInv => CallsAreFew
  BY DEF CallsInv, CallsAreFew
<1> QED
  BY <1>1, <1>2, CallsStep, GatewayInvariant, PTL DEF GatewaySpec

---------------------------------------------------------------------------
(* A step of the process is a step of the gateway or leaves it alone.      *)
LEMMA UsesTheGateway == [Next]_vars => [GatewayNext]_gatewayVars
<1> SUFFICES ASSUME [Next]_vars PROVE GatewayNext \/ UNCHANGED gatewayVars
  OBVIOUS
<1>0. Main \in Threads
  BY MarketDataAssumption
<1>1. CASE AskPage
  BY <1>0, <1>1 DEF AskPage, GatewayNext, Kinds
<1>2. CASE TakePage
  BY <1>0, <1>2, Zenon DEF TakePage, GatewayNext
<1>3. CASE WarmUp
  BY <1>3, Zenon DEF WarmUp
<1>4. CASE UpdateSignals
  BY <1>4, Zenon DEF UpdateSignals
<1>5. ASSUME NEW t \in Threads, Call(t) PROVE GatewayNext
  BY <1>5, Zenon DEF Call, GatewayNext
<1>6. ASSUME NEW t \in Threads, Gateways(t) PROVE GatewayNext
  BY <1>6, Zenon DEF Gateways, GatewayNext
<1>7. CASE Time
  BY <1>7 DEF Time, GatewayNext
<1>8. CASE UNCHANGED vars
  BY <1>8 DEF vars
<1>9. CASE Wait \/ PassGate
  BY <1>9, Zenon DEF Wait, PassGate
<1> QED
  BY <1>1, <1>2, <1>3, <1>4, <1>5, <1>6, <1>7, <1>8, <1>9 DEF Next

(* Whatever a launch or a backtest does with the gateway, and whoever      *)
(* calls it, two calls pass the throttle MIN_CALL_INTERVAL apart, no order *)
(* is sent twice, and the lock is never kept on the way to the venue       *)
(* (_throttle, call_with_retry, place_market_order).                       *)
THEOREM CallsKeepTheirDistance == Spec => PassesAreSpaced /\ []CallsAreFew
<1>1. Init => GatewayInit
  BY DEF Init
<1>2. Spec => GatewaySpec
  BY <1>1, UsesTheGateway, PTL DEF Spec, GatewaySpec
<1> QED
  BY <1>2, Spacing, NoOrderIsRetried, PTL

-----------------------------------------------------------------------------
(* The calendar at the gate. *)

Files == {NoFile, CutShort}
           \cup [state : {"written"}, start : Int, end : Int, holidays : SUBSET Int]
Fetches == {NotFetching}
           \cup [pc : {"page", "write", "dump"}, end : Int, cursor : Int,
                 seen : SUBSET Int, holidays : SUBSET Int]
Launches == {NotLaunched} \cup [pc : {"covered"}]
            \cup [pc : {"loaded"}, holidays : SUBSET Int]

CalendarType ==
    calendar \in [closed : SUBSET Int, today : Int, file : Files, fetch : Fetches,
                  launch : Launches]

(* The walk forwards has covered the days from the one it began on to the  *)
(* one before its cursor, and holds the closed days among them.            *)
FetchInv ==
    Fetch.pc # "none" =>
      /\ Fetch.holidays = Fetch.seen \cap calendar.closed
      /\ IF Fetch.pc = "page"
         THEN /\ Fetch.seen = calendar.today..(Fetch.cursor - 1)
              /\ calendar.today <= Fetch.cursor /\ Fetch.cursor <= Fetch.end
         ELSE \E last \in Int : /\ Fetch.seen = calendar.today..last
                                /\ calendar.today <= last

(* A written file knows every closed day of its range.  It still covers    *)
(* the day of a launch that has found it covered: a fetch that replaces it *)
(* began on that day.                                                      *)
FileInv ==
    File.state = "written" =>
      /\ File.holidays = (File.start..File.end) \cap calendar.closed
      /\ calendar.launch.pc = "covered" => holiday_file_covers(calendar.today)

LaunchInv ==
    calendar.launch.pc = "loaded" =>
      (calendar.today \in calendar.launch.holidays <=> calendar.today \in calendar.closed)

CalendarInv ==
    /\ CalendarType /\ Weekend \subseteq calendar.closed
    /\ FetchInv /\ FileInv /\ LaunchInv

GateInv == job = "gate" => CalendarInv
-----------------------------------------------------------------------------
(* What a step of the fetch leaves alone. *)
LEMMA FetchMoves ==
    ASSUME CalendarType, NEW f \in Fetches, calendar' = [calendar EXCEPT !.fetch = f]
    PROVE  /\ CalendarType' /\ calendar'.fetch = f
           /\ calendar'.closed = calendar.closed /\ calendar'.today = calendar.today
           /\ calendar'.file = calendar.file /\ calendar'.launch = calendar.launch
  BY DEF CalendarType

(* A step of a launch changes nothing else of the calendar.                *)
LEMMA LaunchMoves ==
    ASSUME CalendarType, NEW l \in Launches, calendar' = [calendar EXCEPT !.launch = l]
    PROVE  /\ CalendarType' /\ calendar'.launch = l
           /\ calendar'.closed = calendar.closed /\ calendar'.today = calendar.today
           /\ calendar'.file = calendar.file /\ calendar'.fetch = calendar.fetch
  BY DEF CalendarType

(* What a fetch is that has begun.                                         *)
LEMMA FetchPc ==
    ASSUME CalendarType
    PROVE  \/ Fetch = NotFetching /\ Fetch.pc = "none"
           \/ /\ Fetch.pc \in {"page", "write", "dump"}
              /\ Fetch \in [pc : {"page", "write", "dump"}, end : Int, cursor : Int,
                            seen : SUBSET Int, holidays : SUBSET Int]
  BY DEF CalendarType, Fetches, NotFetching, Fetch

(* What a file is that was written.                                        *)
LEMMA FilePc ==
    ASSUME CalendarType
    PROVE  \/ File.state \in {"none", "cut"}
           \/ /\ File.state = "written"
              /\ File \in [state : {"written"}, start : Int, end : Int, holidays : SUBSET Int]
  BY DEF CalendarType, Files, NoFile, CutShort, File

(* A fetch that fails leaves the file as it is.                            *)
LEMMA FetchFailsKeeps == ASSUME CalendarInv, FetchFails PROVE CalendarInv'
<1>1. NotFetching \in Fetches /\ NotFetching.pc = "none"
  BY DEF Fetches, NotFetching
<1>2. /\ CalendarType' /\ calendar'.fetch = NotFetching
      /\ calendar'.closed = calendar.closed /\ calendar'.today = calendar.today
      /\ calendar'.file = calendar.file /\ calendar'.launch = calendar.launch
  BY <1>1, FetchMoves DEF FetchFails, CalendarInv
<1> QED  BY <1>1, <1>2
     DEF CalendarInv, FetchInv, FileInv, LaunchInv, Fetch, File, holiday_file_covers

(* A fetch begins with nothing seen, on the day it is.                     *)
LEMMA FetchBeginsKeeps == ASSUME CalendarInv, FetchBegins PROVE CalendarInv'
<1> DEFINE f == [pc |-> "page", end |-> calendar.today + FetchDays, cursor |-> calendar.today,
                 seen |-> {}, holidays |-> {}]
<1>1. calendar.today \in Int /\ FetchDays \in Nat
  BY CalendarAssumption DEF CalendarInv, CalendarType
<1>2. f \in Fetches
  BY <1>1 DEF Fetches
<1>3. /\ CalendarType' /\ calendar'.fetch = f
      /\ calendar'.closed = calendar.closed /\ calendar'.today = calendar.today
      /\ calendar'.file = calendar.file /\ calendar'.launch = calendar.launch
  BY <1>2, FetchMoves DEF FetchBegins, CalendarInv
<1>4. FetchInv'
  BY <1>1, <1>3 DEF FetchInv, Fetch
<1> QED  BY <1>3, <1>4 DEF CalendarInv, FileInv, LaunchInv, File, holiday_file_covers

(* A page brings the days from the cursor on; what is past the range is    *)
(* dropped.                                                                *)
LEMMA FetchPageKeeps == ASSUME CalendarInv, FetchPage PROVE CalendarInv'
<1> DEFINE f == Fetch  t == calendar.today
<1>1. /\ CalendarType /\ FetchInv /\ t \in Int /\ f.pc = "page"
      /\ f \in [pc : {"page", "write", "dump"}, end : Int, cursor : Int,
                 seen : SUBSET Int, holidays : SUBSET Int]
  BY FetchPc DEF CalendarInv, FetchPage, CalendarType
<1>2. /\ f.seen = t..(f.cursor - 1) /\ t <= f.cursor /\ f.cursor <= f.end
      /\ f.holidays = f.seen \cap calendar.closed /\ f.cursor \in Int /\ f.end \in Int
  BY <1>1 DEF FetchInv
<1>3. PICK rows \in {{}, chk_holiday(f.cursor)} :
       LET examined == examine(f, rows)
           latest == Max({f.cursor} \cup examined.seen)
           more == rows # {} /\ latest > f.cursor /\ latest + 1 <= f.end
       IN calendar' = [calendar EXCEPT !.fetch =
            IF more THEN [examined EXCEPT !.cursor = latest + 1]
            ELSE IF examined.seen = {} THEN NotFetching
            ELSE [examined EXCEPT !.pc = "write"]]
  BY DEF FetchPage
<1> DEFINE x == examine(f, rows)
           latest == Max({f.cursor} \cup x.seen)
           more == rows # {} /\ latest > f.cursor /\ latest + 1 <= f.end
           g == IF more THEN [x EXCEPT !.cursor = latest + 1]
                ELSE IF x.seen = {} THEN NotFetching
                ELSE [x EXCEPT !.pc = "write"]
<1>4. \E last \in Int : x.seen = t..last /\ last >= f.cursor - 1 /\ last <= f.end
  <2>1. x.seen = f.seen \cup {d \in rows : d <= f.end}
    BY <1>1 DEF examine
  <2>2. CASE rows = {}
    BY <1>2, <2>1, <2>2
  <2>3. CASE rows = chk_holiday(f.cursor)
    <3>1. CalendarPage \in Nat \ {0}
      BY CalendarAssumption
    <3> DEFINE top == f.cursor + CalendarPage - 1
               last == IF top <= f.end THEN top ELSE f.end
    <3>2. x.seen = t..last
      BY <1>1, <1>2, <2>1, <2>3, <3>1 DEF chk_holiday
    <3> QED  BY <1>2, <3>1, <3>2
  <2> QED  BY <2>2, <2>3
<1>5. PICK last \in Int : x.seen = t..last /\ last >= f.cursor - 1 /\ last <= f.end
  BY <1>4
<1>6. latest = IF last >= f.cursor THEN last ELSE f.cursor
  <2>1. CASE last >= f.cursor
    <3>1. {f.cursor} \cup x.seen = t..last /\ t <= last
      BY <1>1, <1>2, <1>5, <2>1
    <3>2. Max(t..last) = last
      BY <1>1, <3>1, EndsOfRange
    <3> QED  BY <2>1, <3>1, <3>2
  <2>2. CASE ~(last >= f.cursor)
    <3>1. {f.cursor} \cup x.seen = t..f.cursor /\ t <= f.cursor
      BY <1>1, <1>2, <1>5, <2>2
    <3>2. Max(t..f.cursor) = f.cursor
      BY <1>1, <1>2, <3>1, EndsOfRange
    <3> QED  BY <2>2, <3>1, <3>2
  <2> QED  BY <2>1, <2>2
<1>7. /\ x.holidays = x.seen \cap calendar.closed
      /\ x \in [pc : {"page", "write", "dump"}, end : Int, cursor : Int,
                 seen : SUBSET Int, holidays : SUBSET Int]
      /\ x.pc = "page" /\ x.end = f.end
  <2>1. rows \subseteq Int
    BY <1>2, CalendarAssumption DEF chk_holiday
  <2> QED  BY <1>1, <1>2, <2>1 DEF examine
<1> HIDE DEF x, latest
<1>8. g \in Fetches
  BY <1>2, <1>6, <1>7 DEF Fetches
<1>9. g.pc # "none" =>
        /\ g.holidays = g.seen \cap calendar.closed
        /\ IF g.pc = "page"
           THEN g.seen = t..(g.cursor - 1) /\ t <= g.cursor /\ g.cursor <= g.end
           ELSE \E e \in Int : g.seen = t..e /\ t <= e
  <2>1. CASE more
    BY <1>1, <1>2, <1>5, <1>6, <1>7, <2>1
  <2>2. CASE ~more /\ x.seen = {}
    BY <2>2 DEF NotFetching
  <2>3. CASE ~more /\ x.seen # {}
    <3>1. g = [x EXCEPT !.pc = "write"]
      BY <2>3
    <3>2. g.pc = "write" /\ g.seen = x.seen /\ g.holidays = x.holidays
      BY <1>7, <3>1
    <3>3. t <= last
      BY <1>1, <1>5, <2>3
    <3> QED  BY <1>5, <1>7, <3>2, <3>3
  <2> QED  BY <2>1, <2>2, <2>3
<1>10. calendar' = [calendar EXCEPT !.fetch = g]
  BY <1>3 DEF x, latest
<1> HIDE DEF g
<1>11. /\ CalendarType' /\ calendar'.fetch = g
      /\ calendar'.closed = calendar.closed /\ calendar'.today = calendar.today
      /\ calendar'.file = calendar.file /\ calendar'.launch = calendar.launch
  BY <1>1, <1>8, <1>10, FetchMoves
<1>12. FetchInv'
  BY <1>9, <1>11 DEF FetchInv, Fetch
<1> QED  BY <1>11, <1>12 DEF CalendarInv, FileInv, LaunchInv, File, holiday_file_covers

(* A file that is being rewritten is not a written one.                    *)
LEMMA OpenFileKeeps == ASSUME CalendarInv, OpenFile PROVE CalendarInv'
<1>1. /\ CalendarType /\ FetchInv /\ Fetch.pc = "write" /\ calendar.today \in Int
      /\ Fetch \in [pc : {"page", "write", "dump"}, end : Int, cursor : Int,
                     seen : SUBSET Int, holidays : SUBSET Int]
  BY FetchPc DEF CalendarInv, OpenFile, CalendarType
<1>2. CutShort \in Files /\ [Fetch EXCEPT !.pc = "dump"] \in Fetches
  BY <1>1 DEF Files, Fetches
<1>3. calendar' = [calendar EXCEPT !.file = CutShort, !.fetch = [Fetch EXCEPT !.pc = "dump"]]
  BY <1>1 DEF OpenFile, CalendarType, Fetch
<1>4. /\ CalendarType' /\ calendar'.fetch = [Fetch EXCEPT !.pc = "dump"]
      /\ calendar'.closed = calendar.closed /\ calendar'.today = calendar.today
      /\ calendar'.file = CutShort /\ calendar'.launch = calendar.launch
  BY <1>1, <1>2, <1>3 DEF CalendarType
<1>5. FetchInv'
  BY <1>1, <1>4 DEF FetchInv, Fetch
<1>6. FileInv'
  BY <1>4 DEF FileInv, File, CutShort
<1> QED  BY <1>4, <1>5, <1>6 DEF CalendarInv, LaunchInv

(* What was seen is a range from today on, so the new file still covers    *)
(* today.                                                                  *)
LEMMA WriteFileKeeps == ASSUME CalendarInv, WriteFile PROVE CalendarInv'
<1>1. /\ CalendarType /\ FetchInv /\ Fetch.pc = "dump" /\ calendar.today \in Int
      /\ Fetch \in [pc : {"page", "write", "dump"}, end : Int, cursor : Int,
                     seen : SUBSET Int, holidays : SUBSET Int]
  BY FetchPc DEF CalendarInv, WriteFile, CalendarType
<1>2. PICK last \in Int : Fetch.seen = calendar.today..last /\ calendar.today <= last
  BY <1>1 DEF FetchInv
<1>3. Min(Fetch.seen) = calendar.today
  BY <1>1, <1>2, EndsOfRange
<1>4. Max(Fetch.seen) = last
  BY <1>1, <1>2, EndsOfRange
<1> DEFINE f == [state |-> "written", start |-> calendar.today, end |-> last,
                 holidays |-> Fetch.holidays]
<1>5. f \in Files /\ NotFetching \in Fetches
  BY <1>1 DEF Files, Fetches
<1>6. calendar' = [calendar EXCEPT !.file = f, !.fetch = NotFetching]
  BY <1>3, <1>4 DEF WriteFile
<1>7. /\ CalendarType' /\ calendar'.fetch = NotFetching
      /\ calendar'.closed = calendar.closed /\ calendar'.today = calendar.today
      /\ calendar'.file = f /\ calendar'.launch = calendar.launch
  BY <1>1, <1>5, <1>6 DEF CalendarType
<1>8. FetchInv'
  BY <1>7 DEF FetchInv, Fetch, NotFetching
<1>9. FileInv'
  BY <1>1, <1>2, <1>7 DEF FileInv, File, FetchInv, holiday_file_covers
<1> QED  BY <1>7, <1>8, <1>9 DEF CalendarInv, LaunchInv

(* A launch that is let through to the gate knows whether today is closed. *)
LEMMA LaunchKeeps ==
    ASSUME CalendarInv,
           ReadRange \/ LoadHolidays \/ \E time \in Times : GateRefuses(time)
    PROVE  CalendarInv'
<1>1. CalendarType /\ FetchInv /\ FileInv /\ calendar.today \in Int
  BY DEF CalendarInv, CalendarType
<1>2. ASSUME NEW l \in Launches, calendar' = [calendar EXCEPT !.launch = l],
             l.pc = "covered" => holiday_file_covers(calendar.today),
             l.pc = "loaded" =>
               (calendar.today \in l.holidays <=> calendar.today \in calendar.closed)
      PROVE  CalendarInv'
  <2>1. /\ CalendarType' /\ calendar'.launch = l
        /\ calendar'.closed = calendar.closed /\ calendar'.today = calendar.today
        /\ calendar'.file = calendar.file /\ calendar'.fetch = calendar.fetch
    BY <1>1, <1>2, LaunchMoves
  <2>2. LaunchInv'
    BY <1>2, <2>1 DEF LaunchInv
  <2>3. FileInv'
    BY <1>1, <1>2, <2>1 DEF FileInv, File, holiday_file_covers
  <2> QED  BY <2>1, <2>2, <2>3 DEF CalendarInv, FetchInv, Fetch
<1>3. /\ NotLaunched \in Launches /\ NotLaunched.pc = "none"
      /\ [pc |-> "covered"] \in Launches
  BY DEF Launches, NotLaunched
<1>4. CASE ReadRange
  BY <1>2, <1>3, <1>4 DEF ReadRange
<1>5. CASE LoadHolidays
  <2>1. CASE File.state = "written"
    <3> DEFINE l == [pc |-> "loaded", holidays |-> File.holidays]
    <3>1. /\ File \in [state : {"written"}, start : Int, end : Int, holidays : SUBSET Int]
          /\ File.holidays = (File.start..File.end) \cap calendar.closed
          /\ File.start <= calendar.today /\ calendar.today <= File.end
      BY <1>1, <1>5, <2>1, FilePc DEF LoadHolidays, FileInv, holiday_file_covers
    <3>2. l \in Launches
      BY <3>1 DEF Launches
    <3>3. calendar.today \in l.holidays <=> calendar.today \in calendar.closed
      BY <1>1, <3>1
    <3>4. calendar' = [calendar EXCEPT !.launch = l]
      BY <1>5, <2>1 DEF LoadHolidays
    <3> QED  BY <1>2, <3>2, <3>3, <3>4
  <2>2. CASE File.state # "written"
    BY <1>2, <1>3, <1>5, <2>2 DEF LoadHolidays
  <2> QED  BY <2>1, <2>2
<1>6. CASE \E time \in Times : GateRefuses(time)
  BY <1>2, <1>3, <1>6 DEF GateRefuses
<1> QED  BY <1>4, <1>5, <1>6

(* The day changes only when nothing is under way.                         *)
LEMMA TomorrowKeeps == ASSUME CalendarInv, Tomorrow PROVE CalendarInv'
<1>1. CalendarType /\ calendar.today \in Int /\ calendar.today + 1 \in Int
  BY DEF CalendarInv, CalendarType
<1>2. /\ CalendarType' /\ calendar'.fetch = calendar.fetch
      /\ calendar'.closed = calendar.closed /\ calendar'.today = calendar.today + 1
      /\ calendar'.file = calendar.file /\ calendar'.launch = calendar.launch
  BY <1>1 DEF CalendarType, Tomorrow
<1> QED  BY <1>2 DEF CalendarInv, Tomorrow, FetchInv, FileInv, LaunchInv, Fetch, File

(* There is no file, fetch or launch to begin with.                        *)
LEMMA CalendarStart == ASSUME CalendarInit PROVE CalendarInv
<1>1. PICK c \in Closures :
        calendar = [closed |-> Weekend \cup c, today |-> 1,
                    file |-> NoFile, fetch |-> NotFetching, launch |-> NotLaunched]
  BY DEF CalendarInit
<1>2. NoFile \in Files /\ NotFetching \in Fetches /\ NotLaunched \in Launches
  BY DEF Files, Fetches, Launches
<1>3. Weekend \cup c \subseteq Int
  BY CalendarAssumption
<1>4. CalendarType
  BY <1>1, <1>2, <1>3 DEF CalendarType
<1> QED  BY <1>1, <1>4
         DEF CalendarInv, FetchInv, FileInv, LaunchInv, Fetch, File, NoFile,
             NotFetching, NotLaunched

(* A process that begins at the gate begins with that calendar.            *)
LEMMA GateStart == Init => GateInv
  BY CalendarStart DEF Init, GateInv

(* Past the gate nothing looks at the calendar any more.                   *)
LEMMA CalendarOnlyAtTheGate ==
    ASSUME Next, calendar' # calendar \/ job = "gate" \/ job' = "gate"
    PROVE  /\ job = "gate"
           /\ \/ CalendarStep /\ job' = "gate"
              \/ (\E time \in Times : GateOpens(time)) /\ job' = "walk"
              \/ calendar' = calendar /\ job' = "gate"
<1>1. CASE Wait
  BY <1>1 DEF Wait
<1>2. CASE PassGate
  BY <1>2 DEF PassGate
<1>3. CASE AskPage
  BY <1>3 DEF AskPage, dataVars
<1>4. CASE TakePage
  BY <1>4 DEF TakePage
<1>5. CASE WarmUp
  BY <1>5 DEF WarmUp
<1>6. CASE UpdateSignals
  BY <1>6 DEF UpdateSignals
<1>7. CASE Time
  BY <1>7 DEF Time, dataVars
<1>8. ASSUME NEW t \in Threads, Call(t) \/ Gateways(t)
      PROVE  UNCHANGED <<job, calendar>>
  BY <1>8 DEF Call, Gateways, dataVars
<1> QED  BY <1>1, <1>2, <1>3, <1>4, <1>5, <1>6, <1>7, <1>8 DEF Next

(* Every step keeps the calendar right for as long as the gate is ahead.   *)
LEMMA GateInductive == GateInv /\ [Next]_vars => GateInv'
<1> SUFFICES ASSUME GateInv, [Next]_vars, job' = "gate" PROVE CalendarInv'
  BY DEF GateInv
<1>1. CASE UNCHANGED vars
  BY <1>1
     DEF vars, dataVars, GateInv, CalendarInv, CalendarType, FetchInv, FileInv,
         LaunchInv, Fetch, File, holiday_file_covers
<1>2. CASE Next
  <2>1. CalendarInv /\ (CalendarStep \/ calendar' = calendar)
    BY <1>2, CalendarOnlyAtTheGate DEF GateInv
  <2>2. CASE CalendarStep
    BY <2>1, <2>2, FetchBeginsKeeps, FetchPageKeeps, OpenFileKeeps, WriteFileKeeps,
       FetchFailsKeeps, LaunchKeeps, TomorrowKeeps DEF CalendarStep
  <2>3. CASE calendar' = calendar
    BY <2>1, <2>3
       DEF CalendarInv, CalendarType, FetchInv, FileInv, LaunchInv, Fetch, File,
           holiday_file_covers
  <2> QED  BY <2>1, <2>2, <2>3
<1> QED  BY <1>1, <1>2

(* For any calendar of the venue, any range fetched and any page size: a   *)
(* launch passes its gate only when the venue is open and a rebalance is   *)
(* due, and is refused only when it is not, although a fetch may rewrite   *)
(* the file between its two readings (fetch, holiday_file_covers,          *)
(* load_holidays, run_rebalance).                                          *)
THEOREM TheGateIsRight == Spec => GateFollowsTheVenue
<1> DEFINE Right == \A time \in Times :
                      /\ GateOpens(time) => Due(calendar.today, time)
                      /\ GateRefuses(time) => ~Due(calendar.today, time)
<1>1. GateInv /\ [Next]_vars => [Right]_calendar
  <2> SUFFICES ASSUME GateInv, Next, calendar' # calendar PROVE Right
    BY DEF vars, dataVars
  <2>1. CalendarInv
    BY CalendarOnlyAtTheGate DEF GateInv
  <2>2. ASSUME calendar.launch.pc = "loaded"
        PROVE  is_trading_day(calendar.today) <=> calendar.today \notin calendar.closed
    BY <2>1, <2>2 DEF CalendarInv, LaunchInv, is_trading_day
  <2> QED  BY <2>2 DEF GateOpens, GateRefuses, Due, is_rebalance_day, is_open_at_datetime
<1>2. Spec => []GateInv
  BY GateStart, GateInductive, PTL DEF Spec
<1> QED  BY <1>1, <1>2, PTL DEF Spec, GateFollowsTheVenue

-----------------------------------------------------------------------------
(* The latest days of a set, and its days in order. *)

UpIn(X, R) == X \subseteq R /\ \A d \in X, e \in R : e > d => e \in X
Above(R, d) == {e \in R : e > d}

(* The n latest of some days leave out none between two of theirs, nor a   *)
(* later one.                                                              *)
LEMMA LastUp ==
    ASSUME NEW R, IsFiniteSet(R), R \subseteq Int, NEW n \in Nat
    PROVE  UpIn(last_days(R, n), R)
<1> SUFFICES ASSUME NEW d \in last_days(R, n), NEW e \in R, e > d
             PROVE  e \in last_days(R, n)
  BY DEF UpIn, last_days
<1>1. d \in R /\ Cardinality(Above(R, d)) < n
  BY DEF last_days, Above
<1>2. d \in Int /\ e \in Int
  BY <1>1
<1>3. ASSUME NEW f \in Above(R, e) PROVE f \in Above(R, d)
  BY <1>2 DEF Above
<1>4. IsFiniteSet(Above(R, d))
  <2>1. Above(R, d) \subseteq R  BY DEF Above
  <2> QED  BY <2>1, SubCard
<1>5. Cardinality(Above(R, e)) <= Cardinality(Above(R, d))
      /\ Cardinality(Above(R, e)) \in Nat /\ Cardinality(Above(R, d)) \in Nat
  <2>1. Above(R, e) \subseteq Above(R, d)  BY <1>3
  <2> QED  BY <1>4, <2>1, SubCard
<1>6. Cardinality(Above(R, e)) < n
  BY <1>1, <1>5
<1> QED  BY <1>6 DEF last_days, Above

(* Days that leave out no later one are the latest of their number.        *)
LEMMA LastOfUp ==
    ASSUME NEW R, IsFiniteSet(R), R \subseteq Int, NEW X, UpIn(X, R)
    PROVE  last_days(R, Cardinality(X)) = X
<1>0. X \subseteq R /\ IsFiniteSet(X) /\ Cardinality(X) \in Nat
  <2>1. X \subseteq R  BY DEF UpIn
  <2> QED  BY <2>1, SubCard
<1>1. ASSUME NEW d \in X PROVE Cardinality(Above(R, d)) < Cardinality(X)
  <2>1. d \in Int /\ ~(d > d)  BY <1>0
  <2>2. Above(R, d) \subseteq X \ {d}
    BY <2>1 DEF Above, UpIn
  <2>3. IsFiniteSet(X \ {d}) /\ Cardinality(X \ {d}) = Cardinality(X) - 1
    BY <1>0, FS_RemoveElement
  <2>4. Cardinality(Above(R, d)) \in Nat
        /\ Cardinality(Above(R, d)) <= Cardinality(X \ {d})
    BY <2>2, <2>3, SubCard
  <2> QED  BY <1>0, <2>3, <2>4
<1>2. ASSUME NEW d \in R, d \notin X PROVE ~(Cardinality(Above(R, d)) < Cardinality(X))
  <2>1. ASSUME NEW e \in X PROVE e \in Above(R, d)
    <3>1. e \in R /\ e \in Int /\ d \in Int /\ e # d  BY <1>0, <1>2
    <3>2. ~(d > e)  BY <1>2 DEF UpIn
    <3> QED  BY <3>1, <3>2 DEF Above
  <2>2. Above(R, d) \subseteq R  BY DEF Above
  <2>3. IsFiniteSet(Above(R, d))  BY <2>2, SubCard
  <2>4. X \subseteq Above(R, d)  BY <2>1
  <2>5. Cardinality(X) <= Cardinality(Above(R, d)) /\ Cardinality(Above(R, d)) \in Nat
    BY <2>3, <2>4, SubCard
  <2> QED  BY <1>0, <2>5
<1> QED  BY <1>0, <1>1, <1>2 DEF last_days, Above

(* The n latest of at most n days are all of them.                         *)
LEMMA LastAll ==
    ASSUME NEW R, IsFiniteSet(R), R \subseteq Int, NEW n \in Nat, Cardinality(R) <= n
    PROVE  last_days(R, n) = R
<1> SUFFICES ASSUME NEW d \in R PROVE Cardinality(Above(R, d)) < n
  BY DEF last_days, Above
<1>1. d \in Int /\ ~(d > d) /\ Cardinality(R) \in Nat
  BY FS_CardinalityType
<1>2. Above(R, d) \subseteq R \ {d}
  BY <1>1 DEF Above
<1>3. IsFiniteSet(R \ {d}) /\ Cardinality(R \ {d}) = Cardinality(R) - 1
  BY FS_RemoveElement
<1>4. Cardinality(Above(R, d)) \in Nat /\ Cardinality(Above(R, d)) <= Cardinality(R \ {d})
  BY <1>2, <1>3, SubCard
<1> QED  BY <1>1, <1>3, <1>4

(* The n latest days are n, or all there are.                              *)
LEMMA LastSize ==
    ASSUME NEW R, IsFiniteSet(R), R \subseteq Int, NEW n \in Nat
    PROVE  LET X == last_days(R, n)
           IN  /\ IsFiniteSet(X) /\ Cardinality(X) \in Nat /\ X \subseteq R
               /\ Cardinality(X) <= n /\ Cardinality(X) <= Cardinality(R)
               /\ Cardinality(X) < n => X = R
<1> DEFINE X == last_days(R, n)
<1>1. X \subseteq R
  BY DEF last_days
<1>2. IsFiniteSet(X) /\ Cardinality(X) \in Nat /\ Cardinality(X) <= Cardinality(R)
  BY <1>1, SubCard
<1>3. UpIn(X, R)
  BY LastUp
<1>4. \A d \in R : d \in X <=> Cardinality(Above(R, d)) < n
  BY DEF last_days, Above
<1> HIDE DEF X
<1>5. Cardinality(X) <= n
  <2>1. CASE X = {}
    BY <2>1, FS_EmptySet
  <2>2. CASE X # {}
    <3>0. X \subseteq Int
      BY <1>1
    <3>1. Min(X) \in X /\ \A y \in X : Min(X) <= y
      BY <1>2, <2>2, <3>0, FiniteMin
    <3>2. Min(X) \in Int /\ Min(X) \in R
      BY <3>0, <3>1, <1>1
    <3> DEFINE m == Min(X)
               A == Above(R, m)
    <3>3. A \subseteq R
      BY DEF Above
    <3>4. IsFiniteSet(A) /\ Cardinality(A) \in Nat
      BY <3>3, SubCard
    <3>5. X \subseteq A \cup {m}
      BY <1>1, <3>0, <3>1, <3>2 DEF Above
    <3>6. Cardinality(A) < n
      BY <1>4, <3>1, <3>2
    <3> HIDE DEF A, m
    <3>7. /\ IsFiniteSet(A \cup {m})
          /\ Cardinality(A \cup {m}) = Cardinality(A)
               \/ Cardinality(A \cup {m}) = Cardinality(A) + 1
      BY <3>4, FS_AddElement
    <3>8. Cardinality(X) <= Cardinality(A \cup {m}) /\ Cardinality(A \cup {m}) \in Nat
      BY <3>5, <3>7, SubCard
    <3> QED  BY <1>2, <3>4, <3>6, <3>7, <3>8
  <2> QED  BY <2>1, <2>2
<1>6. ASSUME Cardinality(X) < n PROVE X = R
  <2> SUFFICES ASSUME R \ X # {} PROVE FALSE
    BY <1>1
  <2>1. R \ X \subseteq R /\ R \ X \subseteq Int
    OBVIOUS
  <2>2. IsFiniteSet(R \ X)
    BY <2>1, SubCard
  <2> DEFINE d == Max(R \ X)
  <2>3. d \in R \ X /\ \A y \in R \ X : y <= d
    BY <2>1, <2>2, FiniteMax
  <2> HIDE DEF d
  <2>4. Above(R, d) \subseteq X
    BY <2>1, <2>3 DEF Above
  <2>5. Cardinality(Above(R, d)) <= Cardinality(X) /\ Cardinality(Above(R, d)) \in Nat
    BY <1>2, <2>4, SubCard
  <2>6. ~(Cardinality(Above(R, d)) < n)
    BY <1>4, <2>3
  <2> QED  BY <1>2, <1>6, <2>5, <2>6
<1> QED  BY <1>1, <1>2, <1>5, <1>6 DEF X

(* in_order puts a day after as many days as come before it, and no other  *)
(* there.                                                                  *)
LEMMA InOrderAt ==
    ASSUME NEW T, IsFiniteSet(T), T \subseteq Int, NEW i \in 1..Cardinality(T)
    PROVE  /\ in_order(T)[i] \in T /\ Cardinality(Below(T, in_order(T)[i])) = i - 1
           /\ \A d \in T : Cardinality(Below(T, d)) = i - 1 => d = in_order(T)[i]
<1>0. Cardinality(T) \in Nat /\ i - 1 \in Nat /\ i - 1 < Cardinality(T)
  BY FS_CardinalityType
<1>1. \E d \in T : Cardinality(Below(T, d)) = i - 1
  BY <1>0, RankExists
<1>2. in_order(T)[i] = CHOOSE d \in T : Cardinality(Below(T, d)) = i - 1
  BY DEF in_order, Below
<1> DEFINE c == in_order(T)[i]
<1>3. c \in T /\ Cardinality(Below(T, c)) = i - 1
  BY <1>1, <1>2
<1> HIDE DEF c
<1>4. ASSUME NEW d \in T, Cardinality(Below(T, d)) = i - 1 PROVE d = c
  <2>1. d \in Int /\ c \in Int  BY <1>3
  <2>2. ASSUME d < c PROVE FALSE
    <3>1. Cardinality(Below(T, d)) < Cardinality(Below(T, c))  BY <1>3, <2>2, LaterRank
    <3> QED  BY <1>0, <1>3, <1>4, <3>1
  <2>3. ASSUME c < d PROVE FALSE
    <3>1. Cardinality(Below(T, c)) < Cardinality(Below(T, d))  BY <1>3, <2>3, LaterRank
    <3> QED  BY <1>0, <1>3, <1>4, <3>1
  <2> QED  BY <2>1, <2>2, <2>3
<1> QED  BY <1>3, <1>4 DEF c

(* The days of U in order are the last of the days of T in order.          *)
IsTail(U, T) ==
    \A i \in 1..Cardinality(U) :
      in_order(U)[i] = in_order(T)[Cardinality(T) - Cardinality(U) + i]

(* The latest days in order are the tail of all of them in order.          *)
LEMMA InOrderTail ==
    ASSUME NEW T, IsFiniteSet(T), T \subseteq Int, NEW U, UpIn(U, T)
    PROVE  IsTail(U, T)
<1> SUFFICES ASSUME NEW i \in 1..Cardinality(U)
             PROVE  in_order(U)[i] = in_order(T)[Cardinality(T) - Cardinality(U) + i]
  BY DEF IsTail
<1>0. U \subseteq T /\ U \subseteq Int
  BY DEF UpIn
<1>1. /\ IsFiniteSet(U) /\ Cardinality(U) \in Nat /\ Cardinality(T) \in Nat
      /\ Cardinality(U) <= Cardinality(T)
  BY <1>0, SubCard
<1> DEFINE d == in_order(U)[i]
           k == Cardinality(T) - Cardinality(U) + i
<1>2. d \in U /\ Cardinality(Below(U, d)) = i - 1
  BY <1>0, <1>1, InOrderAt
<1>3. k \in 1..Cardinality(T)
  BY <1>1
<1> HIDE DEF d
<1>4. Cardinality(Below(T, d)) = k - 1
  <2>1. T \ U \subseteq T /\ (T \ U) \cup U = T /\ (T \ U) \cap U = {}
    BY <1>0
  <2>2. IsFiniteSet(T \ U) /\ Cardinality(T \ U) \in Nat
    BY <2>1, SubCard
  <2>3. Cardinality(T) = Cardinality(T \ U) + Cardinality(U)
    BY <1>1, <2>1, <2>2, DisjointCard
  <2>4. ASSUME NEW e \in T, e \notin U PROVE e < d
    <3>1. e \in Int /\ d \in Int /\ e # d  BY <1>0, <1>2, <2>4
    <3>2. ~(e > d)  BY <1>2, <2>4 DEF UpIn
    <3> QED  BY <3>1, <3>2
  <2>5. Below(T, d) = Below(U, d) \cup (T \ U)
    BY <1>0, <2>4 DEF Below
  <2>6. Below(U, d) \subseteq U /\ Below(U, d) \cap (T \ U) = {}
    BY DEF Below
  <2>7. IsFiniteSet(Below(U, d))
    BY <1>1, <2>6, SubCard
  <2>8. Cardinality(Below(T, d)) = Cardinality(Below(U, d)) + Cardinality(T \ U)
    BY <2>2, <2>5, <2>6, <2>7, DisjointCard
  <2> QED  BY <1>1, <1>2, <2>2, <2>3, <2>8
<1>5. d \in T
  BY <1>0, <1>2
<1> HIDE DEF k
<1>6. d = in_order(T)[k]
  BY <1>3, <1>4, <1>5, InOrderAt
<1> QED  BY <1>6 DEF d, k

(* The latest element comes last and the others stay where they are. *)
LEMMA InOrderMax ==
    ASSUME NEW T, IsFiniteSet(T), T \subseteq Int, NEW m \in T, \A y \in T : y <= m
    PROVE  /\ Cardinality(T \ {m}) = Cardinality(T) - 1 /\ Cardinality(T) \in Nat \ {0}
           /\ IsFiniteSet(T \ {m})
           /\ in_order(T)[Cardinality(T)] = m
           /\ \A i \in 1..(Cardinality(T) - 1) : in_order(T)[i] = in_order(T \ {m})[i]
<1>1. IsFiniteSet(T \ {m}) /\ Cardinality(T \ {m}) = Cardinality(T) - 1
  BY FS_RemoveElement
<1>2. Cardinality(T) \in Nat \ {0}
  BY FS_CardinalityType, FS_EmptySet
<1>3. in_order(T)[Cardinality(T)] = m
  <2>1. ASSUME NEW e \in T PROVE e < m <=> e # m
    <3>1. e \in Int /\ m \in Int /\ e <= m  OBVIOUS
    <3> QED  BY <3>1
  <2>2. Below(T, m) = T \ {m}
    BY <2>1 DEF Below
  <2>3. Cardinality(T) \in 1..Cardinality(T)
    BY <1>2
  <2>4. Cardinality(Below(T, m)) = Cardinality(T) - 1
    BY <1>1, <2>2
  <2> DEFINE n == Cardinality(T)
  <2> HIDE DEF n
  <2>5. m = in_order(T)[n]
    BY <2>3, <2>4, InOrderAt DEF n
  <2> QED  BY <2>5 DEF n
<1>4. ASSUME NEW i \in 1..(Cardinality(T) - 1)
      PROVE  in_order(T)[i] = in_order(T \ {m})[i]
  <2> DEFINE d == in_order(T \ {m})[i]
  <2>1. T \ {m} \subseteq Int /\ i \in 1..Cardinality(T \ {m}) /\ i \in 1..Cardinality(T)
    BY <1>1, <1>2
  <2>2. d \in T \ {m} /\ Cardinality(Below(T \ {m}, d)) = i - 1
    BY <1>1, <2>1, InOrderAt
  <2> HIDE DEF d
  <2>3. Below(T, d) = Below(T \ {m}, d)
    BY <2>2 DEF Below
  <2>4. d = in_order(T)[i]
    BY <2>1, <2>2, <2>3, InOrderAt
  <2> QED  BY <2>4 DEF d
<1> QED  BY <1>1, <1>2, <1>3, <1>4

(* 1..n in order is 1, 2, ... n.                                           *)
LEMMA InOrderRange ==
    ASSUME NEW n \in Nat, NEW i \in 1..n
    PROVE  in_order(1..n)[i] = i
<1>1. IsFiniteSet(1..n) /\ Cardinality(1..n) = n
  BY FS_Interval
<1>2. Below(1..n, i) = 1..(i - 1)
  BY DEF Below
<1>3. Cardinality(1..(i - 1)) = i - 1
  BY FS_Interval
<1>4. 1..n \subseteq Int
  OBVIOUS
<1> QED  BY <1>1, <1>2, <1>3, <1>4, InOrderAt

-----------------------------------------------------------------------------
Least(m, n) == IF m < n THEN m ELSE n

(* The deque after the prices of the positions s, in their order. *)
Fed(l, prices, s) ==
    LET n == Cardinality(s)
        k == Least(l, n)
    IN  [i \in 1..k |-> prices[in_order(s)[n - k + i]]]

IsFeed(g, l, prices, D) ==
    g = [s \in D |-> IF s = {} THEN <<>>
                     ELSE deque_append(g[s \ {Max(s)}], l, prices[Max(s)])]

(* extend as the fold it is defined by: a function of the positions fed so *)
(* far.                                                                    *)
LEMMA ExtendUnfold ==
    ASSUME NEW l, NEW prices
    PROVE  extend(<<>>, l, prices)
             = (CHOOSE g : IsFeed(g, l, prices, SUBSET (DOMAIN prices)))[DOMAIN prices]
  BY DEF extend, FoldLeft, MapThenFoldSet, IsFeed

(* One more price is one more append to the deque.                         *)
LEMMA FedStep ==
    ASSUME NEW V, NEW prices \in Seq(V), NEW l \in Nat \ {0},
           NEW s, s \subseteq 1..Len(prices), s # {}
    PROVE  Fed(l, prices, s) = deque_append(Fed(l, prices, s \ {Max(s)}), l, prices[Max(s)])
<1> DEFINE m == Max(s)
           r == s \ {m}
           n == Cardinality(r)
           k == Least(l, n)
           j == Least(l, n + 1)
           f == Fed(l, prices, r)
           g == Fed(l, prices, s)
<1>1. Len(prices) \in Nat /\ s \subseteq Int /\ IsFiniteSet(s)
  <2>1. Len(prices) \in Nat  OBVIOUS
  <2>2. IsFiniteSet(1..Len(prices))  BY <2>1, FS_Interval
  <2>3. IsFiniteSet(s)  BY <2>2, SubCard
  <2>4. 1..Len(prices) \subseteq Int  BY <2>1
  <2> QED  BY <2>1, <2>3, <2>4
<1>2. m \in s /\ \A y \in s : y <= m
  BY <1>1, FiniteMax
<1> HIDE DEF m
<1>3. /\ Cardinality(s) = n + 1 /\ n \in Nat /\ IsFiniteSet(r)
      /\ in_order(s)[n + 1] = m
      /\ \A i \in 1..n : in_order(s)[i] = in_order(r)[i]
  <2>1. /\ Cardinality(r) = Cardinality(s) - 1 /\ Cardinality(s) \in Nat \ {0}
        /\ IsFiniteSet(r)
        /\ in_order(s)[Cardinality(s)] = m
        /\ \A i \in 1..(Cardinality(s) - 1) : in_order(s)[i] = in_order(r)[i]
    BY <1>1, <1>2, InOrderMax
  <2>2. Cardinality(s) = n + 1 /\ Cardinality(s) - 1 = n
    BY <2>1
  <2>3. n = Cardinality(r)
    OBVIOUS
  <2> HIDE DEF n, r
  <2>4. n \in Nat
    BY <2>1, <2>3
  <2> QED  BY <2>1, <2>2, <2>4
<1>4. r \subseteq Int /\ r \subseteq 1..Len(prices)
  BY <1>1
<1>5. \A i \in 1..n : in_order(r)[i] \in r
  BY <1>3, <1>4, InOrderAt
<1>6. prices[m] \in V
  BY <1>2
<1>7. \A i \in 1..n : prices[in_order(r)[i]] \in V
  <2>1. \A i \in 1..Len(prices) : prices[i] \in V
    OBVIOUS
  <2> HIDE DEF r, n
  <2> QED  BY <1>4, <1>5, <2>1
<1> HIDE DEF r, n
<1>8. k \in Nat /\ j \in Nat /\ k <= n /\ j <= n + 1
      /\ f = [i \in 1..k |-> prices[in_order(r)[n - k + i]]]
      /\ g = [i \in 1..j |-> prices[in_order(s)[n + 1 - j + i]]]
  <2>1. k \in Nat /\ j \in Nat /\ k <= n /\ j <= n + 1
    BY <1>3 DEF Least
  <2>2. f = [i \in 1..k |-> prices[in_order(r)[n - k + i]]]
    BY DEF Fed, n
  <2>3. g = [i \in 1..j |-> prices[in_order(s)[n + 1 - j + i]]]
    <3> DEFINE c == Cardinality(s)
    <3>1. c = n + 1 /\ Least(l, c) = j
      BY <1>3, Zenon
    <3>2. g = [i \in 1..Least(l, c) |-> prices[in_order(s)[c - Least(l, c) + i]]]
      BY DEF Fed
    <3> HIDE DEF c, g, j
    <3>3. g = [i \in 1..j |-> prices[in_order(s)[c - j + i]]]
      BY <3>1, <3>2
    <3> QED  BY <1>3, <2>1, <3>1, <3>3
  <2> QED  BY <2>1, <2>2, <2>3
<1> HIDE DEF f, g, k, j
<1>9. \A i \in 1..k : n - k + i \in 1..n
  BY <1>3, <1>8
<1>10. f \in Seq(V) /\ Len(f) = k /\ \A i \in 1..k : f[i] = prices[in_order(r)[n - k + i]]
  <2>1. \A i \in 1..k : f[i] \in V
    BY <1>7, <1>8, <1>9
  <2>2. f \in [1..k -> V]
    BY <1>8, <2>1
  <2> QED  BY <1>8, <2>2
<1>11. \A i \in 1..j : n + 1 - j + i \in 1..(n + 1)
  BY <1>3, <1>8
<1>12. \A i \in 1..(n + 1) : prices[in_order(s)[i]] \in V
  <2>1. ASSUME NEW i \in 1..(n + 1) PROVE prices[in_order(s)[i]] \in V
    <3>1. CASE i = n + 1  BY <1>3, <1>6, <3>1
    <3>2. CASE i # n + 1
      <4>1. i \in 1..n  BY <1>3, <3>2
      <4> QED  BY <1>3, <1>7, <4>1
    <3> QED  BY <3>1, <3>2
  <2> QED  BY <2>1
<1>13. /\ g \in Seq(V) /\ Len(g) = j
       /\ \A i \in 1..j : g[i] = prices[in_order(s)[n + 1 - j + i]]
  <2>1. \A i \in 1..j : g[i] \in V
    BY <1>8, <1>11, <1>12
  <2>2. g \in [1..j -> V]
    BY <1>8, <2>1
  <2> QED  BY <1>8, <2>2
<1>14. g[j] = prices[m] /\ j >= 1
  <2>1. j >= 1 /\ j \in 1..j /\ n + 1 - j + j = n + 1
    BY <1>3, <1>8 DEF Least, j
  <2> QED  BY <1>3, <1>13, <2>1
<1>15. \A i \in 1..(j - 1) : g[i] = prices[in_order(r)[n + 1 - j + i]]
  <2>1. ASSUME NEW i \in 1..(j - 1) PROVE g[i] = prices[in_order(r)[n + 1 - j + i]]
    <3>1. i \in 1..j /\ n + 1 - j + i \in 1..n
      BY <1>3, <1>8
    <3> QED  BY <1>3, <1>13, <3>1
  <2> QED  BY <2>1
<1>16. g = deque_append(f, l, prices[m])
  <2>1. CASE n < l
    <3>1. k = n /\ j = n + 1
      BY <1>3, <2>1 DEF Least, k, j
    <3> DEFINE a == Append(f, prices[m])
    <3>2. /\ a \in Seq(V) /\ Len(a) = k + 1
          /\ (\A i \in 1..k : a[i] = f[i]) /\ a[k + 1] = prices[m]
      BY <1>6, <1>10, AppendProperties
    <3> HIDE DEF a
    <3>3. \A i \in 1..Len(g) : g[i] = a[i]
      <4>1. ASSUME NEW i \in 1..j PROVE g[i] = a[i]
        <5>1. CASE i = j  BY <1>14, <3>1, <3>2, <5>1
        <5>2. CASE i # j
          <6>1. i \in 1..k /\ i \in 1..(j - 1) /\ n + 1 - j + i = i /\ n - k + i = i
            BY <1>3, <1>8, <3>1, <5>2
          <6> QED  BY <1>10, <1>15, <3>2, <6>1
        <5> QED  BY <5>1, <5>2
      <4> QED  BY <1>13, <4>1
    <3>4. g = a
      BY <1>13, <3>1, <3>2, <3>3, SeqEqual
    <3>5. Len(f) < l
      BY <1>10, <2>1, <3>1
    <3> QED  BY <3>4, <3>5 DEF deque_append, a
  <2>2. CASE ~(n < l)
    <3>1. k = l /\ j = l /\ l >= 1 /\ l \in Nat
      BY <1>3, <2>2 DEF Least, k, j
    <3>2. /\ Tail(f) \in Seq(V) /\ Len(Tail(f)) = l - 1
          /\ \A i \in 1..(l - 1) : Tail(f)[i] = f[i + 1]
      BY <1>10, <3>1, HeadTailProperties, EmptySeq
    <3> DEFINE a == Append(Tail(f), prices[m])
    <3>3. /\ a \in Seq(V) /\ Len(a) = l
          /\ (\A i \in 1..(l - 1) : a[i] = Tail(f)[i]) /\ a[l] = prices[m]
      <4>1. Len(Tail(f)) + 1 = l  BY <3>1, <3>2
      <4> QED  BY <1>6, <3>2, <4>1, AppendProperties
    <3> HIDE DEF a
    <3>4. \A i \in 1..Len(g) : g[i] = a[i]
      <4>1. ASSUME NEW i \in 1..j PROVE g[i] = a[i]
        <5>1. CASE i = j  BY <1>14, <3>1, <3>3, <5>1
        <5>2. CASE i # j
          <6>1. i \in 1..(j - 1) /\ i \in 1..(l - 1) /\ i + 1 \in 1..k
                /\ n - k + (i + 1) = n + 1 - j + i
            BY <1>3, <1>8, <3>1, <5>2
          <6> QED  BY <1>10, <1>15, <3>2, <3>3, <6>1
        <5> QED  BY <5>1, <5>2
      <4> QED  BY <1>13, <4>1
    <3>5. g = a
      BY <1>13, <3>1, <3>3, <3>4, SeqEqual
    <3>6. ~(Len(f) < l)
      BY <1>10, <3>1
    <3> QED  BY <3>5, <3>6 DEF deque_append, a
  <2> QED  BY <2>1, <2>2
<1> QED  BY <1>16 DEF f, g, r, m

(* Without a price the deque is empty.                                     *)
LEMMA FedEmpty == ASSUME NEW l \in Nat, NEW prices PROVE Fed(l, prices, {}) = <<>>
<1>1. Cardinality({}) = 0
  BY FS_EmptySet
<1>2. Least(l, 0) = 0
  BY DEF Least
<1> QED  BY <1>1, <1>2 DEF Fed

(* However many prices are appended, a deque of maxlen l holds the last l  *)
(* of them, in the order they came (AssetPriceBuffers.append).             *)
LEMMA ExtendIsFed ==
    ASSUME NEW V, NEW prices \in Seq(V), NEW l \in Nat \ {0}
    PROVE  extend(<<>>, l, prices) = Fed(l, prices, 1..Len(prices))
<1> DEFINE S == 1..Len(prices)
           h == [s \in SUBSET S |-> Fed(l, prices, s)]
           g == CHOOSE e : IsFeed(e, l, prices, SUBSET S)
<1>1. IsFiniteSet(S)
  BY FS_Interval
<1>2. ASSUME NEW s \in SUBSET S, s # {} PROVE Max(s) \in s
  <2>1. s \subseteq S /\ s \subseteq Int  OBVIOUS
  <2>2. IsFiniteSet(s)  BY <1>1, <2>1, SubCard
  <2> QED  BY <1>2, <2>1, <2>2, FiniteMax
<1>3. IsFeed(h, l, prices, SUBSET S)
  <2>1. ASSUME NEW s \in SUBSET S
        PROVE  h[s] = IF s = {} THEN <<>>
                      ELSE deque_append(h[s \ {Max(s)}], l, prices[Max(s)])
    <3>1. CASE s = {}  BY <3>1, FedEmpty
    <3>2. CASE s # {}
      <4>1. Fed(l, prices, s)
              = deque_append(Fed(l, prices, s \ {Max(s)}), l, prices[Max(s)])
        BY <3>2, FedStep
      <4> QED  BY <3>2, <4>1
    <3> QED  BY <3>1, <3>2
  <2> QED  BY <2>1 DEF IsFeed
<1>4. IsFeed(g, l, prices, SUBSET S)
  <2> HIDE DEF h
  <2> QED  BY <1>3
<1>5. extend(<<>>, l, prices) = g[S]
  <2>1. DOMAIN prices = S
    OBVIOUS
  <2> QED  BY <2>1, ExtendUnfold
<1> HIDE DEF g
<1> DEFINE F == {s \in SUBSET S : g[s] = Fed(l, prices, s)}
<1>6. {} \in F
  BY <1>4, FedEmpty DEF IsFeed
<1>7. ASSUME NEW s \in SUBSET S, s # {}, \A x \in s : s \ {x} \in F PROVE s \in F
  <2>1. g[s] = deque_append(g[s \ {Max(s)}], l, prices[Max(s)])
    BY <1>4, <1>7 DEF IsFeed
  <2>2. g[s \ {Max(s)}] = Fed(l, prices, s \ {Max(s)})
    BY <1>2, <1>7
  <2>3. Fed(l, prices, s) = deque_append(Fed(l, prices, s \ {Max(s)}), l, prices[Max(s)])
    BY <1>7, FedStep
  <2> QED  BY <2>1, <2>2, <2>3
<1>8. SUBSET S \subseteq F
  <2> HIDE DEF F, S
  <2> QED  BY <1>1, <1>6, <1>7, FiniteSetInduction
<1> QED  BY <1>5, <1>8

-----------------------------------------------------------------------------
(* Warming a deque. *)

(* A signal stores finitely many lookbacks, none of them 0.                *)
LEMMA LookbacksFinite ==
    ASSUME NEW s \in Signals
    PROVE  stored_lookbacks(s) \subseteq Nat \ {0} /\ IsFiniteSet(stored_lookbacks(s))
<1> DEFINE B == s.lookbacks
           T == {b + 1 : b \in B}
<1>1. B \subseteq Nat \ {0} /\ IsFiniteSet(B)
  BY SignalsAssumption
<1>2. T \subseteq Nat \ {0}
  BY <1>1
<1>3. IsFiniteSet(T)
  <2> DEFINE f == [b \in B |-> b + 1]
  <2>1. f \in Surjection(B, T)
    BY DEF Surjection
  <2> HIDE DEF f, T
  <2> QED  BY <1>1, <2>1, FS_Surjection
<1> QED  BY <1>1, <1>2, <1>3 DEF stored_lookbacks

(* longest_lookback bounds every stored lookback.                          *)
LEMMA LongestLookback ==
    /\ longest_lookback \in Nat \ {0}
    /\ \A s \in Signals : \A l \in stored_lookbacks(s) :
         l \in Nat \ {0} /\ l <= longest_lookback
<1> DEFINE U(t) == UNION {stored_lookbacks(s) : s \in t}
           F == {t \in SUBSET Signals : IsFiniteSet(U(t))}
<1>1. {} \in F
  <2>1. U({}) = {}  OBVIOUS
  <2> QED  BY <2>1, FS_EmptySet
<1>2. ASSUME NEW t \in SUBSET Signals, t # {}, \A x \in t : t \ {x} \in F PROVE t \in F
  <2>1. PICK x \in t : TRUE  BY <1>2
  <2> DEFINE A == U(t \ {x})
  <2>2. IsFiniteSet(A) /\ IsFiniteSet(stored_lookbacks(x))
    BY <1>2, LookbacksFinite
  <2>3. U(t) = A \cup stored_lookbacks(x)
    OBVIOUS
  <2>4. IsFiniteSet(A \cup stored_lookbacks(x))
    <3> HIDE DEF A
    <3> QED  BY <2>2, FS_Union
  <2>5. IsFiniteSet(U(t))
    BY <2>3, <2>4
  <2> QED  BY <2>5
<1>3. IsFiniteSet(Signals)
  BY SignalsAssumption
<1>4. SUBSET Signals \subseteq F
  <2> HIDE DEF F
  <2> QED  BY <1>1, <1>2, <1>3, FiniteSetInduction
<1> DEFINE S == {0} \cup U(Signals)
<1>5. IsFiniteSet(S)
  <2>1. IsFiniteSet(U(Signals))  BY <1>4
  <2>2. IsFiniteSet({0})  BY FS_Singleton
  <2> QED  BY <2>1, <2>2, FS_Union
<1>6. \A s \in Signals : \A l \in stored_lookbacks(s) : l \in Nat \ {0} /\ l \in S
  BY LookbacksFinite
<1>7. S \subseteq Nat /\ S # {}
  BY <1>6
<1>8. longest_lookback = Max(S)
  BY DEF longest_lookback
<1> HIDE DEF S, U
<1>9. S \subseteq Int
  BY <1>7
<1>10. Max(S) \in S /\ \A y \in S : y <= Max(S)
  BY <1>5, <1>7, <1>9, FiniteMax
<1>11. longest_lookback > 0
  BY MarketDataAssumption
<1>12. longest_lookback \in Nat \ {0}
  <2>1. longest_lookback \in Nat
    BY <1>7, <1>8, <1>10
  <2> QED  BY <1>11, <2>1
<1>13. \A y \in S : y <= longest_lookback
  BY <1>8, <1>10
<1> QED  BY <1>6, <1>12, <1>13

(* A deque warmed with the longest lookback of closes, oldest first, holds *)
(* the latest of the closes it has room for (warm_up_signals).             *)
LEMMA WarmDeque ==
    ASSUME NEW C, IsFiniteSet(C), C \subseteq Int,
           NEW l \in Nat \ {0}, l <= longest_lookback
    PROVE  LET k == Least(l, Cardinality(C))
           IN  /\ warm_deque(<<>>, l, C) = in_order(last_days(C, k))
               /\ Cardinality(last_days(C, k)) = k
               /\ Len(in_order(last_days(C, k))) = k
<1> DEFINE L == longest_lookback
           T == last_days(C, L)
           n == Cardinality(T)
           c == Cardinality(C)
           k == Least(l, c)
           U == last_days(C, k)
           p == in_order(T)
<1>1. L \in Nat /\ c \in Nat /\ k \in Nat /\ k <= c /\ k <= l /\ k <= L
  BY LongestLookback, FS_CardinalityType DEF Least
<1>2. /\ IsFiniteSet(T) /\ n \in Nat /\ T \subseteq C /\ n <= L /\ n <= c
      /\ n < L => T = C
  BY <1>1, LastSize
<1>3. /\ IsFiniteSet(U) /\ Cardinality(U) \in Nat /\ U \subseteq C /\ Cardinality(U) <= k
      /\ Cardinality(U) < k => U = C
  BY <1>1, LastSize
<1>4. UpIn(U, C)
  BY <1>1, LastUp
<1>5. Cardinality(U) = k
  BY <1>1, <1>3
<1>6. Least(l, n) = k
  BY <1>1, <1>2 DEF Least
<1>7. U \subseteq T
  <2>1. ASSUME NEW d \in U PROVE d \in T
    <3>1. d \in C /\ Cardinality(Above(C, d)) < k  BY DEF last_days, Above
    <3>2. Above(C, d) \subseteq C  BY DEF Above
    <3>3. Cardinality(Above(C, d)) \in Nat  BY <3>2, SubCard
    <3>4. Cardinality(Above(C, d)) < L  BY <1>1, <3>1, <3>3
    <3> QED  BY <3>1, <3>4 DEF last_days, Above
  <2> QED  BY <2>1
<1> HIDE DEF T, U, L
<1>8. UpIn(U, T)
  BY <1>2, <1>4, <1>7 DEF UpIn
<1>9. T \subseteq Int
  BY <1>2
<1>10. p \in Seq(Int) /\ Len(p) = n
  <2>1. \A i \in 1..n : p[i] \in T
    BY <1>2, <1>9, InOrderAt
  <2>2. p \in [1..n -> Int]
    BY <1>9, <2>1 DEF in_order
  <2> QED  BY <1>2, <2>2
<1>11. warm_deque(<<>>, l, C) = Fed(l, p, 1..n)
  <2>1. warm_deque(<<>>, l, C) = extend(<<>>, l, p)
    BY DEF warm_deque, T, L
  <2> HIDE DEF p
  <2> QED  BY <1>10, <2>1, ExtendIsFed
<1>12. Fed(l, p, 1..n) = [i \in 1..k |-> p[in_order(1..n)[n - k + i]]]
  <2>1. Cardinality(1..n) = n
    BY <1>2, FS_Interval
  <2> HIDE DEF k, p, n
  <2> QED  BY <1>6, <2>1 DEF Fed
<1>13. in_order(U) = [i \in 1..k |-> in_order(U)[i]] /\ Len(in_order(U)) = k
  <2> HIDE DEF k
  <2> DEFINE s == in_order(U)
  <2>1. s = [i \in 1..k |-> s[i]]
    BY <1>5 DEF in_order
  <2> HIDE DEF s
  <2>2. k \in Nat
    BY <1>1
  <2>3. Len(s) = k
    BY <2>1, <2>2
  <2> QED  BY <2>1, <2>3 DEF s
<1>14. IsTail(U, T)
  BY <1>2, <1>8, <1>9, InOrderTail
<1>15. ASSUME NEW i \in 1..k PROVE p[in_order(1..n)[n - k + i]] = in_order(U)[i]
  <2>1. n - k + i \in 1..n
    <3>1. k <= n
      BY <1>1, <1>2, <1>6 DEF Least
    <3> HIDE DEF n, k
    <3> QED  BY <1>1, <1>2, <3>1
  <2> DEFINE j == n - k + i
  <2>2. in_order(1..n)[j] = j
    <3> HIDE DEF n, k, j
    <3> QED  BY <1>2, <2>1, InOrderRange DEF j
  <2>3. in_order(U)[i] = in_order(T)[Cardinality(T) - Cardinality(U) + i]
    BY <1>5, <1>14 DEF IsTail
  <2> QED  BY <1>5, <2>2, <2>3
<1> HIDE DEF p, k, n
<1>16. warm_deque(<<>>, l, C) = in_order(U)
  BY <1>11, <1>12, <1>13, <1>15
<1> QED  BY <1>5, <1>13, <1>16 DEF k, U, n

(* The latest of what was fetched are the latest there are, when what was  *)
(* fetched leaves out no later day.                                        *)
LEMMA SameLast ==
    ASSUME NEW R, IsFiniteSet(R), R \subseteq Int, NEW C, UpIn(C, R),
           NEW k \in Nat, Cardinality(last_days(C, k)) = k
    PROVE  last_days(R, k) = last_days(C, k)
<1> DEFINE U == last_days(C, k)
<1>1. C \subseteq R /\ C \subseteq Int
  BY DEF UpIn
<1>2. IsFiniteSet(C)
  BY <1>1, SubCard
<1>3. UpIn(U, C)
  BY <1>1, <1>2, LastUp
<1> HIDE DEF U
<1>4. UpIn(U, R)
  <2>1. U \subseteq R  BY <1>1, <1>3 DEF UpIn
  <2>2. ASSUME NEW d \in U, NEW e \in R, e > d PROVE e \in U
    <3>1. d \in C  BY <1>3 DEF UpIn
    <3>2. e \in C  BY <2>2, <3>1 DEF UpIn
    <3> QED  BY <1>3, <2>2, <3>2 DEF UpIn
  <2> QED  BY <2>1, <2>2 DEF UpIn
<1>5. last_days(R, Cardinality(U)) = U
  BY <1>4, LastOfUp
<1> QED  BY <1>5 DEF U

-----------------------------------------------------------------------------
(* The walk, the buffers and the warm-up. *)

Window(a) == usable(a) \cap (StartDay..Today)

DataType ==
    /\ history \in [Assets -> Histories]
    /\ entry \in [Assets -> Nat]
    /\ day \in Nat /\ warmup \in Nat
    /\ walk \in [left : Seq(Assets), cursor : Int, pages : Nat, collected : SUBSET Int]
    /\ closes \in [Assets -> SUBSET Int]

(* The main thread is in a call only for an asset that is left.            *)
CallerInv ==
    /\ pc \in [Threads -> {"idle", "throttle", "inside", "passed", "call", "answered"}]
    /\ job = "gate" => pc[Main] = "idle"
    /\ job = "walk" /\ walk.left = <<>> => pc[Main] = "idle"

(* What is collected is every usable close behind the cursor, and the      *)
(* pages that were full.                                                   *)
WalkInv ==
    /\ walk.cursor <= Today /\ walk.pages < MaxPages
    /\ walk.left # <<>> =>
         LET a == Head(walk.left) IN
         /\ walk.collected = Above(usable(a), walk.cursor)
         /\ walk.collected \subseteq StartDay..Today
         /\ a \notin cut /\ history[a].unusable = {}
              => Cardinality(walk.collected) = PageSize * walk.pages

(* What was fetched is cut, never pierced, and whole when nothing failed.  *)
ClosesInv ==
    \A a \in Assets :
      /\ UpIn(closes[a], usable(a))
      /\ a \notin Range(walk.left) /\ a \notin cut /\ history[a].unusable = {}
           => closes[a] = last_days(Window(a), PageSize * MaxPages)

(* A launch has empty buffers until it warms them; a backtest's fill by    *)
(* one price a day.                                                        *)
BuffersInv ==
    /\ job \in {"gate", "walk", "trade", "backtest", "decided", "refused"}
    /\ job \in {"gate", "walk", "trade"} => warmup = 0
    /\ job \in {"gate", "walk"} => buffers = empty_buffers(Assets)
    /\ job \in {"decided", "refused"} =>
         /\ walk.left = <<>>
         /\ buffers = warm_assets(empty_buffers(Assets), closes)
         /\ \A a \in Assets : warmup <= warmed_count(closes[a])
    /\ job = "decided" => \A a \in Assets : warmed_count(closes[a]) > 0
    /\ job = "backtest" =>
         \A s \in Signals :
           /\ get_assets(0) \subseteq DOMAIN buffers[s]
           /\ \A a \in get_assets(0) : \A l \in stored_lookbacks(s) :
                buffers[s][a][l] \in Seq(Int) /\ Len(buffers[s][a][l]) = Least(l, warmup)

DataInv == DataType /\ CallerInv /\ WalkInv /\ ClosesInv /\ BuffersInv
-----------------------------------------------------------------------------
(* The window begins on a day.                                             *)
LEMMA StartIsDay == StartDay \in Int /\ Today \in Nat
<1>1. longest_lookback \in Nat /\ ExtraCalendarDays \in Nat /\ Today \in Nat
  BY LongestLookback, SignalsAssumption, MarketDataAssumption
<1>2. (7 * longest_lookback) \div 4 \in Int
  BY <1>1
<1> QED  BY <1>1, <1>2 DEF StartDay, required_calendar_days

(* A history is finitely many days.                                        *)
LEMMA HistoryFacts ==
    ASSUME history \in [Assets -> Histories], NEW a \in Assets
    PROVE  /\ history[a].listed \subseteq 1..Today /\ usable(a) \subseteq history[a].listed
           /\ IsFiniteSet(history[a].listed) /\ IsFiniteSet(usable(a))
           /\ history[a].listed \subseteq Int /\ usable(a) \subseteq Int
           /\ history[a].unusable = {} => usable(a) = history[a].listed
<1>1. history[a] \in Histories
  OBVIOUS
<1>2. history[a].listed \subseteq 1..Today /\ Today \in Nat
  BY <1>1, MarketDataAssumption
<1>3. usable(a) \subseteq history[a].listed
      /\ (history[a].unusable = {} => usable(a) = history[a].listed)
  BY DEF usable
<1>4. IsFiniteSet(1..Today)
  BY <1>2, FS_Interval
<1>5. IsFiniteSet(history[a].listed)
  BY <1>2, <1>4, SubCard
<1>6. IsFiniteSet(usable(a))
  BY <1>3, <1>5, SubCard
<1>7. 1..Today \subseteq Int
  BY <1>2
<1> QED  BY <1>2, <1>3, <1>5, <1>6, <1>7

(* A page with what was collected is every usable close from its first day *)
(* on, and the cursor moves to the day before it.                          *)
LEMMA PageFacts ==
    ASSUME history \in [Assets -> Histories], NEW a \in Assets, NEW c \in Int, c <= Today
    PROVE  LET page == parse_daily_closes(a, chart_page(a, c))
               rest == usable(a) \cap (StartDay..c)
           IN  /\ page \subseteq rest /\ IsFiniteSet(page) /\ IsFiniteSet(rest)
               /\ page # {} =>
                    /\ Min(page) \in page /\ Min(page) \in StartDay..c
                    /\ \A d \in page : Min(page) <= d
                    /\ Above(usable(a), c) \cup page = Above(usable(a), Min(page) - 1)
               /\ history[a].unusable = {} => page = last_days(rest, PageSize)
<1> DEFINE H == history[a].listed
           R == H \cap (StartDay..c)
           L == last_days(R, PageSize)
           page == L \cap usable(a)
           rest == usable(a) \cap (StartDay..c)
<1>0. StartDay \in Int /\ PageSize \in Nat
  BY StartIsDay, MarketDataAssumption
<1>1. /\ usable(a) \subseteq H /\ H \subseteq Int /\ IsFiniteSet(H)
      /\ IsFiniteSet(usable(a)) /\ usable(a) \subseteq Int
      /\ history[a].unusable = {} => usable(a) = H
  BY HistoryFacts
<1>2. IsFiniteSet(R) /\ R \subseteq Int
  <2>1. R \subseteq H  OBVIOUS
  <2> QED  BY <1>1, <2>1, SubCard
<1>3. UpIn(L, R)
  BY <1>0, <1>2, LastUp
<1>4. page = parse_daily_closes(a, chart_page(a, c))
  BY DEF parse_daily_closes, chart_page
<1> HIDE DEF L
<1>5. page \subseteq rest
  BY <1>3 DEF UpIn
<1>6. IsFiniteSet(rest)
  <2>1. rest \subseteq usable(a)  OBVIOUS
  <2> QED  BY <1>1, <2>1, SubCard
<1>7. IsFiniteSet(page)
  BY <1>5, <1>6, SubCard
<1>8. ASSUME page # {}
      PROVE  /\ Min(page) \in page /\ Min(page) \in StartDay..c
             /\ \A d \in page : Min(page) <= d
             /\ Above(usable(a), c) \cup page = Above(usable(a), Min(page) - 1)
  <2>1. page \subseteq Int
    BY <1>1
  <2> DEFINE m == Min(page)
  <2>2. m \in page /\ \A d \in page : m <= d
    BY <1>7, <1>8, <2>1, FiniteMin
  <2> HIDE DEF m
  <2>3. m \in StartDay..c /\ m \in Int /\ m \in L
    BY <1>5, <2>1, <2>2
  <2>4. ASSUME NEW d \in usable(a)
        PROVE  d > c \/ d \in page <=> d > m - 1
    <3>1. d \in Int /\ d \in H
      BY <1>1
    <3>2. CASE d > c
      BY <1>0, <2>3, <3>1, <3>2
    <3>3. CASE ~(d > c)
      <4>1. ASSUME d > m - 1 PROVE d \in page
        <5>1. d \in R
          BY <1>0, <2>3, <3>1, <3>3, <4>1
        <5>2. d = m \/ d > m
          BY <2>3, <3>1, <4>1
        <5>3. d \in L
          BY <1>3, <2>3, <5>1, <5>2 DEF UpIn
        <5> QED  BY <5>3
      <4>2. ASSUME d \in page PROVE d > m - 1
        BY <2>2, <2>3, <3>1, <4>2
      <4> QED  BY <3>3, <4>1, <4>2
    <3> QED  BY <3>2, <3>3
  <2>5. Above(usable(a), c) \cup page = Above(usable(a), m - 1)
    BY <2>4 DEF Above
  <2> QED  BY <2>2, <2>3, <2>5 DEF m
<1>9. ASSUME history[a].unusable = {} PROVE page = last_days(rest, PageSize)
  <2>1. rest = R
    BY <1>1, <1>9
  <2>2. page = L
    BY <1>1, <1>3, <1>9 DEF UpIn
  <2> QED  BY <2>1, <2>2 DEF L
<1> HIDE DEF page
<1>10. /\ page \subseteq rest /\ IsFiniteSet(page) /\ IsFiniteSet(rest)
       /\ page # {} =>
            /\ Min(page) \in page /\ Min(page) \in StartDay..c
            /\ \A d \in page : Min(page) <= d
            /\ Above(usable(a), c) \cup page = Above(usable(a), Min(page) - 1)
       /\ history[a].unusable = {} => page = last_days(rest, PageSize)
  BY <1>5, <1>6, <1>7, <1>8, <1>9
<1> QED  BY <1>4, <1>10

(* Full pages hold PageSize closes each.                                   *)
LEMMA PagesAddUp ==
    ASSUME NEW b \in Nat, NEW p \in Nat, NEW m \in Nat, p < m
    PROVE  /\ b * p \in Nat /\ b * m \in Nat /\ b * (p + 1) = b * p + b
           /\ b * (p + 1) <= b * m
<1>1. b * p \in Nat /\ b * m \in Nat /\ b * (p + 1) = b * p + b
  OBVIOUS
<1>2. PICK k \in Nat : m = (p + 1) + k
  <2>1. m - (p + 1) \in Nat  OBVIOUS
  <2> QED  BY <2>1
<1>3. b * k \in Nat /\ b * ((p + 1) + k) = b * (p + 1) + b * k /\ b * (p + 1) \in Nat
  OBVIOUS
<1> QED  BY <1>1, <1>2, <1>3

(* When no page failed and every bar was usable, the walk has collected    *)
(* full pages so far, and where it ends it has the latest closes of the    *)
(* window that its pages can hold (get_daily_closes).                      *)
LEMMA WalkComplete ==
    ASSUME history \in [Assets -> Histories], NEW a \in Assets, NEW c \in Int, c <= Today,
           NEW pages \in Nat, pages < MaxPages, history[a].unusable = {},
           Above(usable(a), c) \subseteq StartDay..Today,
           Cardinality(Above(usable(a), c)) = PageSize * pages
    PROVE  LET page == parse_daily_closes(a, chart_page(a, c))
               all == Above(usable(a), c) \cup page
           IN  /\ ~(Cardinality(page) < PageSize)
                    => Cardinality(all) = PageSize * (pages + 1)
               /\ \/ Cardinality(page) < PageSize
                  \/ pages + 1 = MaxPages
                  \/ Min(page) - 1 < StartDay
                  => all = last_days(Window(a), PageSize * MaxPages)
<1> DEFINE C == Above(usable(a), c)
           page == parse_daily_closes(a, chart_page(a, c))
           rest == usable(a) \cap (StartDay..c)
           W == Window(a)
           B == PageSize
           all == C \cup page
<1>0. StartDay \in Int /\ Today \in Nat /\ B \in Nat \ {0} /\ MaxPages \in Nat
  BY StartIsDay, MarketDataAssumption
<1>1. /\ usable(a) \subseteq 1..Today /\ IsFiniteSet(usable(a)) /\ usable(a) \subseteq Int
  BY HistoryFacts
<1>2. /\ page \subseteq rest /\ IsFiniteSet(page) /\ IsFiniteSet(rest)
      /\ page # {} => /\ Min(page) \in page /\ Min(page) \in StartDay..c
                      /\ \A d \in page : Min(page) <= d
      /\ page # {} => all = Above(usable(a), Min(page) - 1)
      /\ page = last_days(rest, B)
  BY PageFacts
<1>3. W \subseteq usable(a) /\ W \subseteq Int /\ IsFiniteSet(W)
  <2>1. W \subseteq usable(a)  BY DEF Window
  <2> QED  BY <1>1, <2>1, SubCard
<1>4. C \cup rest = W /\ C \cap rest = {} /\ C \subseteq W
  <2>1. ASSUME NEW d \in usable(a)
        PROVE  /\ d \in C => d \in StartDay..Today
               /\ d \in StartDay..Today => (d \in C <=> d \notin StartDay..c)
               /\ d \in StartDay..c => d \in StartDay..Today
    <3>1. d \in Int  BY <1>1
    <3>2. d \in C <=> d > c  BY DEF Above
    <3> QED  BY <1>0, <3>1, <3>2
  <2>2. C \subseteq usable(a)
    BY DEF Above
  <2> HIDE DEF C
  <2> QED  BY <2>1, <2>2 DEF Window
<1>5. IsFiniteSet(C) /\ Cardinality(C) \in Nat /\ Cardinality(C) = B * pages
  BY <1>3, <1>4, SubCard
<1>6. rest \subseteq Int /\ B \in Nat
  BY <1>0, <1>1
<1>7. /\ Cardinality(page) \in Nat /\ Cardinality(page) <= B
      /\ Cardinality(page) < B => page = rest
  BY <1>2, <1>6, LastSize
<1> HIDE DEF page, C
<1>8. C \cap page = {}
  BY <1>2, <1>4
<1>9. IsFiniteSet(all) /\ Cardinality(all) = Cardinality(C) + Cardinality(page)
  BY <1>2, <1>5, <1>8, DisjointCard
<1>10. /\ B * pages \in Nat /\ B * MaxPages \in Nat /\ B * (pages + 1) = B * pages + B
       /\ B * (pages + 1) <= B * MaxPages
  BY <1>0, PagesAddUp
<1>11. Cardinality(all) \in Nat /\ Cardinality(all) <= B * MaxPages
  <2> DEFINE x == B * pages
             y == B * MaxPages
             z == B * (pages + 1)
  <2>1. x \in Nat /\ y \in Nat /\ z = x + B /\ z <= y /\ Cardinality(C) = x
    BY <1>5, <1>10
  <2> HIDE DEF x, y, z, all
  <2>2. Cardinality(all) \in Nat /\ Cardinality(all) <= y
    BY <1>0, <1>7, <1>9, <2>1
  <2> QED  BY <2>2 DEF y
<1>12. ASSUME ~(Cardinality(page) < B) PROVE Cardinality(all) = B * (pages + 1)
  BY <1>0, <1>5, <1>7, <1>9, <1>10, <1>12
<1>13. all = W => all = last_days(W, B * MaxPages)
  BY <1>3, <1>10, <1>11, LastAll
<1>14. CASE Cardinality(page) < B
  <2>1. all = W
    BY <1>4, <1>7, <1>14
  <2> QED  BY <1>12, <1>13, <2>1, <1>14 DEF C, page
<1>15. CASE ~(Cardinality(page) < B)
  <2>1. page # {}
    BY <1>0, <1>7, <1>15, FS_EmptySet
  <2> DEFINE m == Min(page)
  <2>2. m \in page /\ m \in StartDay..c /\ m \in Int /\ all = Above(usable(a), m - 1)
    <3>1. m \in page /\ m \in StartDay..c
      BY <1>2, <2>1
    <3>2. all = Above(usable(a), m - 1)
      BY <1>2, <2>1
    <3> HIDE DEF m
    <3> QED  BY <1>0, <3>1, <3>2
  <2> HIDE DEF m
  <2>3. all \subseteq W
    BY <1>2, <1>4
  <2>4. ASSUME m - 1 < StartDay PROVE all = W
    <3>1. ASSUME NEW d \in W PROVE d \in all
      <4>1. d \in usable(a) /\ d \in Int /\ StartDay <= d
        BY <1>0, <1>3 DEF Window
      <4>2. d > m - 1
        BY <1>0, <2>2, <2>4, <4>1
      <4> QED  BY <2>2, <4>1, <4>2 DEF Above
    <3> QED  BY <2>3, <3>1
  <2>5. ASSUME pages + 1 = MaxPages PROVE all = last_days(W, B * MaxPages)
    <3>1. UpIn(all, W)
      <4>1. ASSUME NEW d \in all, NEW e \in W, e > d PROVE e \in all
        <5>1. d \in Int /\ e \in Int /\ e \in usable(a)
          BY <1>3, <2>3
        <5>2. d > m - 1
          BY <2>2 DEF Above
        <5>3. e > m - 1
          BY <2>2, <4>1, <5>1, <5>2
        <5> QED  BY <2>2, <5>1, <5>3 DEF Above
      <4> HIDE DEF all, W
      <4> QED  BY <2>3, <4>1 DEF UpIn
    <3>2. Cardinality(all) = B * MaxPages
      BY <1>12, <1>15, <2>5
    <3>3. last_days(W, Cardinality(all)) = all
      <4> HIDE DEF all, W
      <4> QED  BY <1>3, <3>1, LastOfUp
    <3> QED  BY <3>2, <3>3
  <2>6. \/ Cardinality(page) < B \/ pages + 1 = MaxPages \/ m - 1 < StartDay
        => all = last_days(W, B * MaxPages)
    BY <1>13, <1>15, <2>4, <2>5
  <2> QED  BY <1>12, <1>15, <2>6 DEF C, page, m
<1> QED  BY <1>14, <1>15

-----------------------------------------------------------------------------
(* The universe has an asset, and the launch a main thread.                *)
LEMMA AssetsAre ==
    /\ Universe \in Seq(Assets) /\ Universe # <<>> /\ Assets # {} /\ Main \in Threads
    /\ \A a \in Assets : a \in Range(Universe)
<1>1. Universe \in Seq(Assets) /\ Universe # <<>> /\ Main \in Threads
  BY MarketDataAssumption
<1>2. Head(Universe) \in Assets
  BY <1>1, HeadTailProperties
<1> QED  BY <1>1, <1>2 DEF Assets

(* What a step that does not touch them leaves as it was. *)
LEMMA DataFrame ==
    ASSUME DataInv,
           UNCHANGED <<job, history, entry, day, walk, cut, closes, buffers, warmup>>
    PROVE  DataType' /\ WalkInv' /\ ClosesInv' /\ BuffersInv'
<1>1. DataType'
  BY DEF DataInv, DataType
<1>2. WalkInv'
  BY DEF DataInv, WalkInv, usable
<1>3. ClosesInv'
  BY DEF DataInv, ClosesInv, usable, Window
<1>4. BuffersInv'
  BY DEF DataInv, BuffersInv, get_assets
<1> QED  BY <1>1, <1>2, <1>3, <1>4

(* The invariant holds when the process begins.                            *)
LEMMA DataStart == Init => DataInv
<1> SUFFICES ASSUME Init PROVE DataInv  OBVIOUS
<1>1. DataType
  <2>1. history \in [Assets -> Histories] /\ day \in Nat /\ warmup \in Nat
    BY DEF Init
  <2>2. entry \in [Assets -> Nat]
    <3>1. entry \in [Assets -> Entries] \/ entry \in [Assets -> {0}]
      BY DEF Init
    <3>2. Entries \subseteq Nat /\ 0 \in Nat
      BY MarketDataAssumption
    <3>3. entry = [a \in Assets |-> entry[a]]
      BY <3>1
    <3>4. ASSUME NEW a \in Assets PROVE entry[a] \in Nat
      BY <3>1, <3>2
    <3> HIDE DEF Assets
    <3> QED  BY <3>3, <3>4, Zenon
  <2>3. walk \in [left : Seq(Assets), cursor : Int, pages : Nat, collected : SUBSET Int]
    BY AssetsAre, StartIsDay DEF Init, FirstWalk
  <2>4. closes \in [Assets -> SUBSET Int]
    BY DEF Init
  <2> QED  BY <2>1, <2>2, <2>3, <2>4 DEF DataType
<1>2. CallerInv
  BY AssetsAre DEF Init, GatewayInit, CallerInv
<1>3. walk.left = Universe /\ walk.cursor = Today /\ walk.pages = 0 /\ walk.collected = {}
  BY DEF Init, FirstWalk
<1>4. WalkInv
  <2>1. Head(Universe) \in Assets
    BY AssetsAre, HeadTailProperties
  <2>2. Above(usable(Head(Universe)), Today) = {}
    BY <1>1, <2>1, HistoryFacts, StartIsDay DEF DataType, Above
  <2>3. PageSize * 0 = 0 /\ 0 < MaxPages /\ Today <= Today
    BY MarketDataAssumption
  <2> QED  BY <1>3, <2>2, <2>3, FS_EmptySet DEF WalkInv
<1>5. ClosesInv
  BY <1>3, AssetsAre DEF Init, ClosesInv, UpIn
<1>6. BuffersInv
  <2>1. get_assets(0) \subseteq Assets
    BY DEF get_assets
  <2>2. CASE job = "backtest"
    <3>1. ASSUME NEW l \in Nat \ {0}
          PROVE  <<>> \in Seq(Int) /\ Len(<<>>) = Least(l, 0)
      BY DEF Least
    <3>2. buffers = empty_buffers(get_assets(0)) /\ warmup = 0
      BY DEF Init
    <3>3. ASSUME NEW s \in Signals
          PROVE  /\ get_assets(0) \subseteq DOMAIN buffers[s]
                 /\ \A a \in get_assets(0) : \A l \in stored_lookbacks(s) :
                      buffers[s][a][l] \in Seq(Int) /\ Len(buffers[s][a][l]) = Least(l, warmup)
      <4>1. ASSUME NEW a \in get_assets(0), NEW l \in stored_lookbacks(s)
            PROVE  buffers[s][a][l] \in Seq(Int) /\ Len(buffers[s][a][l]) = Least(l, warmup)
        <5>1. buffers[s][a][l] = <<>> /\ l \in Nat \ {0}
          BY <3>2, LongestLookback DEF empty_buffers
        <5> QED  BY <3>1, <3>2, <5>1
      <4>2. get_assets(0) \subseteq DOMAIN buffers[s]
        BY <3>2 DEF empty_buffers
      <4> QED  BY <4>1, <4>2
    <3> QED  BY <2>2, <3>2, <3>3 DEF BuffersInv
  <2>3. CASE job # "backtest"
    <3>1. \A a \in Assets : entry[a] = 0
      BY <2>3 DEF Init
    <3>2. get_assets(0) = Assets
      BY <3>1 DEF get_assets
    <3> QED  BY <2>3, <3>2 DEF Init, BuffersInv
  <2> QED  BY <2>2, <2>3
<1> QED  BY <1>1, <1>2, <1>4, <1>5, <1>6 DEF DataInv

(* The gate, the calls and the time do not touch what was fetched.         *)
LEMMA CallsKeep ==
    ASSUME DataInv, GatewayTypeOK',
           \/ Wait \/ PassGate \/ AskPage \/ Time
           \/ \E t \in Threads : Call(t) \/ Gateways(t)
    PROVE  DataInv'
<1>0. Main \in Threads /\ DataInv /\ CallerInv
  BY AssetsAre DEF DataInv
<1>1. CASE Wait
  <2>1. UNCHANGED <<job, history, entry, day, walk, cut, closes, buffers, warmup, pc>>
    BY <1>1 DEF Wait, signalVars, gatewayVars
  <2>2. CallerInv'
    BY <1>0, <2>1 DEF CallerInv
  <2> QED  BY <2>1, <2>2, DataFrame DEF DataInv
<1>2. CASE PassGate
  <2>1. /\ UNCHANGED <<history, entry, day, walk, cut, closes, buffers, warmup, pc>>
        /\ job = "gate" /\ job' = "walk"
    BY <1>2 DEF PassGate, signalVars, gatewayVars
  <2>2. CallerInv'
    BY <1>0, <2>1 DEF CallerInv
  <2>3. DataType'
    BY <2>1 DEF DataInv, DataType
  <2>4. WalkInv'
    BY <2>1 DEF DataInv, WalkInv, usable
  <2>5. ClosesInv'
    BY <2>1 DEF DataInv, ClosesInv, usable, Window
  <2>6. BuffersInv'
    BY <2>1 DEF DataInv, BuffersInv
  <2> QED  BY <2>2, <2>3, <2>4, <2>5, <2>6 DEF DataInv
<1>3. CASE AskPage
  <2>1. /\ UNCHANGED <<job, history, entry, day, walk, cut, closes, buffers, warmup>>
        /\ job = "walk" /\ walk.left # <<>>
    BY <1>3 DEF AskPage, dataVars, signalVars
  <2>2. CallerInv'
    BY <2>1 DEF CallerInv, GatewayTypeOK
  <2> QED  BY <2>1, <2>2, DataFrame DEF DataInv
<1>4. CASE Time
  <2>1. UNCHANGED <<job, history, entry, day, walk, cut, closes, buffers, warmup, pc>>
    BY <1>4 DEF Time, Tick, dataVars, signalVars
  <2>2. CallerInv'
    BY <1>0, <2>1 DEF CallerInv
  <2> QED  BY <2>1, <2>2, DataFrame DEF DataInv
<1>5. ASSUME NEW t \in Threads, Call(t) PROVE DataInv'
  <2>1. /\ UNCHANGED <<job, history, entry, day, walk, cut, closes, buffers, warmup>>
        /\ job = "trade"
    BY <1>5 DEF Call, dataVars, signalVars
  <2>2. CallerInv'
    BY <2>1 DEF CallerInv, GatewayTypeOK
  <2> QED  BY <2>1, <2>2, DataFrame DEF DataInv
<1>6. ASSUME NEW t \in Threads, Gateways(t) PROVE DataInv'
  <2>1. UNCHANGED <<job, history, entry, day, walk, cut, closes, buffers, warmup>>
    BY <1>6 DEF Gateways, dataVars, signalVars
  <2>2. pc[t] # "idle" /\ \E v : pc' = [pc EXCEPT ![t] = v]
    BY <1>6 DEF Gateways, GatewayStep, Acquire, Pass, Release, VenueCall
  <2>3. pc[Main] = "idle" => pc'[Main] = "idle"
    BY <1>0, <2>2 DEF CallerInv
  <2>4. CallerInv'
    BY <1>0, <2>1, <2>3 DEF CallerInv, GatewayTypeOK
  <2> QED  BY <2>1, <2>4, DataFrame DEF DataInv
<1> QED  BY <1>1, <1>2, <1>3, <1>4, <1>5, <1>6

(* A page, an empty answer and an error all keep what is collected without *)
(* a hole.                                                                 *)
LEMMA TakePageKeeps == ASSUME DataInv, TakePage PROVE DataInv'
<1> DEFINE a == Head(walk.left)
           c == walk.cursor
           read == parse_daily_closes(a, chart_page(a, c))
           page == IF answer[Main] = "rows" THEN read ELSE {}
           collected == IF answer[Main] = "error" THEN {} ELSE walk.collected \cup page
<1>0. DataType /\ CallerInv /\ WalkInv /\ ClosesInv /\ BuffersInv /\ Main \in Threads
  BY AssetsAre DEF DataInv
<1>1. /\ job = "walk" /\ pc[Main] = "answered" /\ pc' = [pc EXCEPT ![Main] = "idle"]
      /\ UNCHANGED <<job, history, entry, day, buffers, warmup>>
      /\ cut' = IF answer[Main] = "rows" THEN cut ELSE cut \cup {a}
  BY DEF TakePage, Return
<1>2. walk.left # <<>>
  BY <1>0, <1>1 DEF CallerInv
<1>3. /\ a \in Assets /\ walk.left \in Seq(Assets) /\ Tail(walk.left) \in Seq(Assets)
      /\ c \in Int /\ c <= Today /\ walk.pages \in Nat /\ walk.pages < MaxPages
      /\ history \in [Assets -> Histories]
  BY <1>0, <1>2, HeadTailProperties DEF DataType, WalkInv
<1>4. \A b \in Assets :
        b \notin Range(Tail(walk.left)) => b = a \/ b \notin Range(walk.left)
  <2>1. ASSUME NEW b \in Range(walk.left), b # a PROVE b \in Range(Tail(walk.left))
    <3>1. PICK i \in 1..Len(walk.left) : b = walk.left[i]
      BY <1>3 DEF Range
    <3>2. i # 1
      BY <1>2, <1>3, <2>1, <3>1, HeadTailProperties
    <3>3. /\ i - 1 \in 1..(Len(walk.left) - 1)
          /\ Len(Tail(walk.left)) = Len(walk.left) - 1
          /\ Tail(walk.left)[i - 1] = walk.left[(i - 1) + 1]
      BY <1>2, <1>3, <3>2, HeadTailProperties
    <3>4. i - 1 \in DOMAIN Tail(walk.left) /\ Tail(walk.left)[i - 1] = b
      BY <1>3, <3>1, <3>3
    <3> QED  BY <3>4 DEF Range
  <2> QED  BY <2>1
<1>5. /\ walk.collected = Above(usable(a), c) /\ walk.collected \subseteq StartDay..Today
      /\ a \notin cut /\ history[a].unusable = {}
           => Cardinality(walk.collected) = PageSize * walk.pages
  BY <1>0, <1>2 DEF WalkInv
<1>6. /\ IF last_page(page)
         THEN /\ closes' = [closes EXCEPT ![a] = collected]
              /\ walk' = FirstWalk(Tail(walk.left))
         ELSE /\ walk' = [walk EXCEPT !.cursor = page_cursor(page), !.pages = @ + 1,
                                      !.collected = collected]
              /\ UNCHANGED closes
  BY DEF TakePage
<1>7. /\ read \subseteq usable(a) \cap (StartDay..c) /\ IsFiniteSet(read)
      /\ read # {} => Min(read) \in read /\ Min(read) \in StartDay..c
      /\ read # {} => Above(usable(a), c) \cup read = Above(usable(a), Min(read) - 1)
  BY <1>3, PageFacts
<1>8. StartDay \in Int /\ Today \in Nat /\ PageSize \in Nat \ {0} /\ MaxPages \in Nat \ {0}
  BY StartIsDay, MarketDataAssumption
<1>9. /\ usable(a) \subseteq Int /\ usable(a) \subseteq 1..Today
  BY <1>3, HistoryFacts
<1>10. \A b \in Assets : usable(b)' = usable(b) /\ Window(b)' = Window(b)
  BY <1>1 DEF usable, Window
<1>11. CallerInv'
  <2>1. pc' \in [Threads -> {"idle", "throttle", "inside", "passed", "call", "answered"}]
        /\ pc'[Main] = "idle"
    BY <1>0, <1>1 DEF CallerInv
  <2> QED  BY <2>1 DEF CallerInv
<1>12. BuffersInv'
  BY <1>0, <1>1 DEF BuffersInv
<1>13. answer[Main] = "rows" =>
         page = read /\ collected = walk.collected \cup read /\ cut' = cut
  BY <1>1
<1>14. answer[Main] # "rows" => /\ page = {} /\ a \in cut'
                                /\ collected \in {{}, walk.collected}
  BY <1>1
<1>15. cut \subseteq cut'
  BY <1>1
<1> HIDE DEF a, c, read, page, collected
<1>16. CASE last_page(page)
  <2>1. closes' = [closes EXCEPT ![a] = collected] /\ walk' = FirstWalk(Tail(walk.left))
    BY <1>6, <1>16
  <2>2. UpIn(collected, usable(a)) /\ collected \subseteq Int
    <3>1. \A n \in Int :
            UpIn(Above(usable(a), n), usable(a)) /\ Above(usable(a), n) \subseteq Int
      BY <1>9 DEF UpIn, Above
    <3>2. UpIn({}, usable(a))
      BY DEF UpIn
    <3>3. CASE answer[Main] = "rows"
      <4>1. CASE read = {}
        BY <1>3, <1>5, <1>13, <3>1, <3>3, <4>1
      <4>2. CASE read # {}
        <5>1. Min(read) - 1 \in Int
          BY <1>3, <1>7, <1>8, <4>2
        <5>2. collected = Above(usable(a), Min(read) - 1)
          BY <1>5, <1>7, <1>13, <3>3, <4>2
        <5> QED  BY <3>1, <5>1, <5>2
      <4> QED  BY <4>1, <4>2
    <3>4. CASE answer[Main] # "rows"
      BY <1>3, <1>5, <1>14, <3>1, <3>2, <3>4
    <3> QED  BY <3>3, <3>4
  <2>3. closes' \in [Assets -> SUBSET Int] /\ closes'[a] = collected
        /\ \A b \in Assets : b # a => closes'[b] = closes[b]
    BY <1>0, <1>3, <2>1, <2>2 DEF DataType
  <2>4. /\ walk'.left = Tail(walk.left) /\ walk'.cursor = Today /\ walk'.pages = 0
        /\ walk'.collected = {}
    BY <2>1 DEF FirstWalk
  <2>5. DataType'
    BY <1>0, <1>1, <1>3, <1>8, <2>1, <2>3 DEF DataType, FirstWalk
  <2>6. WalkInv'
    <3>1. ASSUME Tail(walk.left) # <<>>
          PROVE  Above(usable(Head(Tail(walk.left))), Today) = {}
      <4>1. Head(Tail(walk.left)) \in Assets
        BY <1>3, <3>1, HeadTailProperties
      <4>2. usable(Head(Tail(walk.left))) \subseteq 1..Today
        BY <1>3, <4>1, HistoryFacts
      <4>3. ASSUME NEW d \in usable(Head(Tail(walk.left))) PROVE ~(d > Today)
        <5>1. d \in 1..Today  BY <4>2
        <5> QED  BY <1>8, <5>1
      <4> QED  BY <4>3 DEF Above
    <3>3. ASSUME walk'.left # <<>>
          PROVE  usable(Head(walk.left))' = usable(Head(Tail(walk.left)))
      BY <1>1, <2>4 DEF usable
    <3>4. PageSize * 0 = 0 /\ 0 < MaxPages /\ Today <= Today /\ Cardinality({}) = 0
      BY <1>8, FS_EmptySet
    <3> QED  BY <2>4, <3>1, <3>3, <3>4 DEF WalkInv
  <2>7. ASSUME NEW b \in Assets
        PROVE  /\ UpIn(closes'[b], usable(b))
               /\ b \notin Range(Tail(walk.left)) /\ b \notin cut' /\ history[b].unusable = {}
                    => closes'[b] = last_days(Window(b), PageSize * MaxPages)
    <3>1. CASE b # a
      BY <1>0, <1>4, <1>15, <2>3, <3>1 DEF ClosesInv
    <3>2. CASE b = a
      <4>1. UpIn(closes'[b], usable(b))
        BY <2>2, <2>3, <3>2
      <4>2. ASSUME b \notin cut', history[b].unusable = {}
            PROVE  closes'[b] = last_days(Window(b), PageSize * MaxPages)
        <5>1. answer[Main] = "rows" /\ a \notin cut /\ page = read
          BY <1>13, <1>14, <1>15, <3>2, <4>2
        <5>2. \/ Cardinality(read) < PageSize \/ walk.pages + 1 = MaxPages
              \/ Min(read) - 1 < StartDay
          BY <1>16, <5>1 DEF last_page, page_cursor
        <5>3. Cardinality(Above(usable(a), c)) = PageSize * walk.pages
          BY <1>5, <3>2, <4>2, <5>1
        <5>4. Above(usable(a), c) \cup read = last_days(Window(a), PageSize * MaxPages)
          BY <1>3, <1>5, <3>2, <4>2, <5>2, <5>3, WalkComplete DEF read
        <5> QED  BY <1>5, <1>13, <2>3, <3>2, <5>1, <5>4
      <4> QED  BY <4>1, <4>2
    <3> QED  BY <3>1, <3>2
  <2>8. ClosesInv'
    BY <1>1, <1>10, <2>4, <2>7 DEF ClosesInv
  <2> QED  BY <1>11, <1>12, <2>5, <2>6, <2>8 DEF DataInv
<1>17. CASE ~last_page(page)
  <2>1. /\ walk' = [walk EXCEPT !.cursor = page_cursor(page), !.pages = @ + 1,
                                !.collected = collected]
        /\ closes' = closes
    BY <1>6, <1>17
  <2>2. answer[Main] = "rows" /\ page = read /\ ~(Cardinality(read) < PageSize) /\ read # {}
    <3>1. ~(Cardinality(page) < PageSize)
      BY <1>17 DEF last_page
    <3>2. page # {}
      BY <1>8, <3>1, FS_EmptySet
    <3> QED  BY <1>13, <1>14, <3>1, <3>2
  <2> DEFINE m == Min(read)
  <2>3. m \in Int /\ m \in read /\ m - 1 <= Today /\ m - 1 \in Int
    <3>1. m \in read /\ m \in StartDay..c
      BY <1>7, <2>2
    <3> HIDE DEF m
    <3> QED  BY <1>3, <1>8, <3>1
  <2>4. collected = Above(usable(a), m - 1) /\ collected = walk.collected \cup read
    BY <1>5, <1>7, <1>13, <2>2
  <2>5. collected \subseteq StartDay..Today
    <3>1. read \subseteq StartDay..Today
      BY <1>3, <1>7, <1>8
    <3> QED  BY <1>5, <2>4, <3>1
  <2>6. /\ walk'.left = walk.left /\ walk'.cursor = m - 1 /\ walk'.pages = walk.pages + 1
        /\ walk'.collected = collected
    BY <1>0, <2>1, <2>2 DEF DataType, page_cursor
  <2>7. walk.pages + 1 < MaxPages
    <3>1. walk.pages + 1 # MaxPages
      BY <1>17 DEF last_page
    <3> QED  BY <1>3, <1>8, <3>1
  <2>8. DataType'
    <3>1. collected \subseteq Int
      BY <1>8, <2>5
    <3>2. page_cursor(page) = m - 1
      BY <2>2 DEF page_cursor
    <3> HIDE DEF m
    <3>3. walk.pages + 1 \in Nat /\ page_cursor(page) \in Int
      BY <1>3, <2>3, <3>2
    <3>4. walk' \in [left : Seq(Assets), cursor : Int, pages : Nat, collected : SUBSET Int]
      BY <1>0, <2>1, <3>1, <3>3 DEF DataType
    <3> QED  BY <1>0, <1>1, <2>1, <3>4 DEF DataType
  <2>9. WalkInv'
    <3>1. ASSUME a \notin cut, history[a].unusable = {}
          PROVE  Cardinality(collected) = PageSize * (walk.pages + 1)
      <4>1. Cardinality(Above(usable(a), c)) = PageSize * walk.pages
        BY <1>5, <3>1
      <4>2. Cardinality(Above(usable(a), c) \cup read) = PageSize * (walk.pages + 1)
        BY <1>3, <1>5, <2>2, <3>1, <4>1, WalkComplete DEF read
      <4> QED  BY <1>5, <2>4, <4>2
    <3>2. Head(walk'.left) = a /\ usable(a)' = usable(a) /\ history' = history
      BY <1>1, <1>3, <1>10, <2>6 DEF a
    <3>3. usable(Head(walk.left))' = usable(a)
      BY <1>1, <2>6 DEF usable, a
    <3> HIDE DEF m
    <3> QED  BY <1>2, <1>15, <2>3, <2>4, <2>5, <2>6, <2>7, <3>1, <3>2, <3>3 DEF WalkInv
  <2>10. ClosesInv'
    BY <1>0, <1>1, <1>10, <1>15, <2>1, <2>6 DEF ClosesInv
  <2> QED  BY <1>11, <1>12, <2>8, <2>9, <2>10 DEF DataInv
<1> QED  BY <1>16, <1>17

(* How many prices an asset was warmed with is a number.                   *)
LEMMA WarmedCount ==
    ASSUME NEW C, IsFiniteSet(C)
    PROVE  warmed_count(C) \in Nat
  BY LongestLookback, FS_CardinalityType DEF warmed_count

(* What was fetched of an asset is finitely many of its usable closes.     *)
LEMMA ClosesFinite ==
    ASSUME DataType, ClosesInv, NEW a \in Assets
    PROVE  /\ closes[a] \subseteq usable(a) /\ closes[a] \subseteq Int
           /\ IsFiniteSet(closes[a])
<1>1. closes[a] \subseteq usable(a)
  BY DEF ClosesInv, UpIn
<1>2. usable(a) \subseteq Int /\ IsFiniteSet(usable(a))
  BY HistoryFacts DEF DataType
<1> QED  BY <1>1, <1>2, SubCard

(* The warm-up counts the asset with the least history.                    *)
LEMMA WarmUpKeeps == ASSUME DataInv, WarmUp PROVE DataInv'
<1> DEFINE count == [a \in Assets |-> warmed_count(closes[a])]
<1>0. DataType /\ CallerInv /\ WalkInv /\ ClosesInv /\ BuffersInv
  BY DEF DataInv
<1>1. /\ job = "walk" /\ walk.left = <<>> /\ job' \in {"decided", "refused"}
      /\ buffers' = warm_assets(buffers, closes) /\ warmed' = count
      /\ warmup' = warmup + Min(Range(warmed'))
      /\ job' = "decided" => 0 \notin Range(warmed')
      /\ UNCHANGED <<history, entry, day, walk, cut, closes, pc>>
  BY DEF WarmUp, gatewayVars
<1>2. warmup = 0 /\ buffers = empty_buffers(Assets)
  BY <1>0, <1>1 DEF BuffersInv
<1>3. \A a \in Assets : count[a] = warmed_count(closes[a]) /\ count[a] \in Nat
  BY <1>0, ClosesFinite, WarmedCount
<1>4. /\ Range(count) # {} /\ Range(count) \subseteq Nat
      /\ \A a \in Assets : count[a] \in Range(count)
  <2>1. \A a \in Assets : count[a] \in Range(count)
    BY DEF Range
  <2>2. Range(count) \subseteq Nat
    BY <1>3 DEF Range
  <2> QED  BY <2>1, <2>2, AssetsAre
<1> DEFINE R == Range(count)
<1> HIDE DEF count
<1>5. Min(R) \in R /\ \A y \in R : Min(R) <= y
  <2>1. PICK m \in R : \A y \in R : m <= y
    BY <1>4, LeastNat
  <2> QED  BY <2>1 DEF Min
<1>6. warmup' = Min(R) /\ warmup' \in Nat
  <2>1. warmup' = 0 + Min(R) /\ Min(R) \in Nat
    BY <1>1, <1>2, <1>4, <1>5
  <2> QED  BY <2>1
<1>7. \A a \in Assets : warmup' <= warmed_count(closes[a])
  BY <1>3, <1>4, <1>5, <1>6
<1>8. job' = "decided" => \A a \in Assets : warmed_count(closes[a]) > 0
  BY <1>1, <1>3, <1>4
<1>9. DataType'
  BY <1>0, <1>1, <1>6 DEF DataType
<1>10. CallerInv'
  BY <1>0, <1>1 DEF CallerInv
<1>11. WalkInv'
  BY <1>0, <1>1 DEF WalkInv
<1>12. ClosesInv'
  BY <1>0, <1>1 DEF ClosesInv, usable, Window
<1>13. BuffersInv'
  BY <1>1, <1>2, <1>7, <1>8 DEF BuffersInv
<1> QED  BY <1>9, <1>10, <1>11, <1>12, <1>13 DEF DataInv

(* The last close so far is a price, or NoPrice.                           *)
LEMMA LatestPrice ==
    ASSUME history \in [Assets -> Histories], NEW a \in Assets, NEW d \in Nat
    PROVE  latest_price(a, d) \in Int
<1> DEFINE S == {NoPrice} \cup (usable(a) \cap (1..d))
<1>1. IsFiniteSet(usable(a)) /\ usable(a) \subseteq Int
  BY HistoryFacts
<1>2. usable(a) \cap (1..d) \subseteq usable(a)
  OBVIOUS
<1>3. IsFiniteSet(usable(a) \cap (1..d)) /\ IsFiniteSet({NoPrice})
  <2>1. IsFiniteSet({NoPrice})
    BY FS_Singleton
  <2>2. IsFiniteSet(usable(a) \cap (1..d))
    <3> DEFINE A == usable(a)
               B == A \cap (1..d)
    <3>1. IsFiniteSet(A) /\ B \subseteq A
      BY <1>1
    <3> HIDE DEF A, B
    <3>2. IsFiniteSet(B)
      BY <3>1, SubCard
    <3> QED  BY <3>2 DEF A, B
  <2> QED  BY <2>1, <2>2
<1>4. IsFiniteSet(S)
  BY <1>3, FS_Union
<1>5. S \subseteq Int /\ S # {}
  BY <1>1 DEF NoPrice
<1>6. Max(S) \in S
  <2> HIDE DEF S
  <2> QED  BY <1>4, <1>5, FiniteMax
<1> QED  BY <1>5, <1>6 DEF latest_price

(* A deque that has been fed n prices has Least(l, n) of them; one more    *)
(* keeps it so.                                                            *)
LEMMA AppendLength ==
    ASSUME NEW l \in Nat \ {0}, NEW n \in Nat, NEW q \in Seq(Int), Len(q) = Least(l, n),
           NEW price \in Int
    PROVE  /\ deque_append(q, l, price) \in Seq(Int)
           /\ Len(deque_append(q, l, price)) = Least(l, n + 1)
<1>1. CASE Len(q) < l
  <2>1. Append(q, price) \in Seq(Int) /\ Len(Append(q, price)) = Len(q) + 1
    BY AppendProperties
  <2> QED  BY <1>1, <2>1 DEF deque_append, Least
<1>2. CASE ~(Len(q) < l)
  <2>1. Len(q) = l /\ q # <<>>
    BY <1>2 DEF Least
  <2>2. Tail(q) \in Seq(Int) /\ Len(Tail(q)) = l - 1
    BY <2>1, HeadTailProperties
  <2>3. Append(Tail(q), price) \in Seq(Int) /\ Len(Append(Tail(q), price)) = (l - 1) + 1
    BY <2>2, AppendProperties
  <2>4. Least(l, n + 1) = l
    BY <1>2 DEF Least
  <2> QED  BY <1>2, <2>3, <2>4 DEF deque_append
<1> QED  BY <1>1, <1>2

(* A day of a backtest feeds one price to every asset that was there from  *)
(* the start.                                                              *)
LEMMA UpdateSignalsKeeps == ASSUME DataInv, UpdateSignals PROVE DataInv'
<1> DEFINE E == get_assets(0)
           G == get_assets(day + 1)
           price == [a \in G |-> latest_price(a, day + 1)]
           added == add_asset(buffers, G)
<1>0. DataType /\ CallerInv /\ WalkInv /\ ClosesInv /\ BuffersInv
  BY DEF DataInv
<1>1. /\ job = "backtest" /\ job' = job /\ day' = day + 1 /\ warmup' = warmup + 1
      /\ buffers' = append(added, price)
      /\ UNCHANGED <<history, entry, walk, cut, closes, pc>>
  BY DEF UpdateSignals, gatewayVars
<1>2. day + 1 \in Nat /\ warmup + 1 \in Nat
  BY <1>0 DEF DataType
<1>3. E \subseteq G /\ G \subseteq Assets
  <2>1. ASSUME NEW a \in E PROVE a \in G
    <3>1. a \in Assets /\ entry[a] \in Nat /\ 0 >= entry[a]
      BY <1>0 DEF get_assets, DataType
    <3> QED  BY <1>2, <3>1 DEF get_assets
  <2> QED  BY <2>1 DEF get_assets
<1>4. get_assets(0)' = E
  BY <1>1 DEF get_assets
<1>5. \A a \in E : price[a] \in Int
  BY <1>0, <1>2, <1>3, LatestPrice DEF DataType
<1> HIDE DEF E, G, price
<1>6. ASSUME NEW s \in Signals
      PROVE  /\ E \subseteq DOMAIN buffers'[s]
             /\ \A a \in E : \A l \in stored_lookbacks(s) :
                  buffers'[s][a][l] \in Seq(Int) /\ Len(buffers'[s][a][l]) = Least(l, warmup')
  <2>1. /\ E \subseteq DOMAIN buffers[s]
        /\ \A a \in E : \A l \in stored_lookbacks(s) :
             buffers[s][a][l] \in Seq(Int) /\ Len(buffers[s][a][l]) = Least(l, warmup)
    BY <1>0, <1>1 DEF BuffersInv, E
  <2>2. DOMAIN added[s] = DOMAIN buffers[s] \cup G
        /\ \A a \in DOMAIN buffers[s] : added[s][a] = buffers[s][a]
    BY DEF add_asset
  <2> HIDE DEF added
  <2>3. /\ DOMAIN buffers'[s] = DOMAIN added[s]
        /\ \A a \in DOMAIN added[s] : \A l \in stored_lookbacks(s) :
             buffers'[s][a][l] = deque_append(added[s][a][l], l, price[a])
    BY <1>1 DEF append
  <2>4. ASSUME NEW a \in E, NEW l \in stored_lookbacks(s)
        PROVE  buffers'[s][a][l] \in Seq(Int) /\ Len(buffers'[s][a][l]) = Least(l, warmup')
    <3> DEFINE q == buffers[s][a][l]
    <3>1. buffers'[s][a][l] = deque_append(q, l, price[a])
      BY <2>1, <2>2, <2>3
    <3>2. /\ q \in Seq(Int) /\ Len(q) = Least(l, warmup) /\ price[a] \in Int
          /\ l \in Nat \ {0} /\ warmup \in Nat /\ warmup' = warmup + 1
      BY <1>0, <1>1, <1>5, <2>1, LongestLookback DEF DataType
    <3> HIDE DEF q
    <3>3. /\ deque_append(q, l, price[a]) \in Seq(Int)
          /\ Len(deque_append(q, l, price[a])) = Least(l, warmup + 1)
      BY <3>2, AppendLength
    <3> QED  BY <3>1, <3>2, <3>3
  <2> QED  BY <2>1, <2>2, <2>3, <2>4
<1>7. DataType'
  BY <1>0, <1>1, <1>2 DEF DataType
<1>8. CallerInv'
  BY <1>0, <1>1 DEF CallerInv
<1>9. WalkInv'
  BY <1>0, <1>1 DEF WalkInv, usable
<1>10. ClosesInv'
  BY <1>0, <1>1 DEF ClosesInv, usable, Window
<1>11. BuffersInv'
  BY <1>1, <1>4, <1>6 DEF BuffersInv
<1> QED  BY <1>7, <1>8, <1>9, <1>10, <1>11 DEF DataInv

(* Every step keeps the invariant, given the types of the gateway.         *)
LEMMA DataInductive == DataInv /\ GatewayTypeOK' /\ [Next]_vars => DataInv'
<1> SUFFICES ASSUME DataInv, GatewayTypeOK', [Next]_vars PROVE DataInv'
  OBVIOUS
<1>1. CASE UNCHANGED vars
  <2>1. UNCHANGED <<job, history, entry, day, walk, cut, closes, buffers, warmup, pc>>
    BY <1>1 DEF vars, gatewayVars, dataVars, signalVars
  <2>2. CallerInv'
    BY <2>1 DEF DataInv, CallerInv
  <2> QED  BY <2>1, <2>2, DataFrame DEF DataInv
<1> QED  BY <1>1, CallsKeep, TakePageKeeps, WarmUpKeeps, UpdateSignalsKeeps DEF Next

-----------------------------------------------------------------------------
(* What a launch has in its buffers once it is warm.                       *)
LEMMA WarmBuffer ==
    ASSUME DataInv, job \in {"decided", "refused"},
           NEW s \in Signals, NEW a \in Assets, NEW l \in stored_lookbacks(s)
    PROVE  LET k == Least(l, Cardinality(closes[a]))
           IN  /\ k \in Nat
               /\ buffers[s][a][l] = in_order(last_days(closes[a], k))
               /\ Cardinality(last_days(closes[a], k)) = k
               /\ Len(buffers[s][a][l]) = k
<1>1. buffers = warm_assets(empty_buffers(Assets), closes)
  BY DEF DataInv, BuffersInv
<1>2. buffers[s][a][l] = warm_deque(<<>>, l, closes[a])
  <2>1. a \in DOMAIN empty_buffers(Assets)[s] /\ empty_buffers(Assets)[s][a][l] = <<>>
    BY DEF empty_buffers
  <2> QED  BY <1>1, <2>1 DEF warm_assets
<1>3. l \in Nat \ {0} /\ l <= longest_lookback
  BY LongestLookback
<1>4. IsFiniteSet(closes[a]) /\ closes[a] \subseteq Int
  BY ClosesFinite DEF DataInv
<1>5. Cardinality(closes[a]) \in Nat
  BY <1>4, FS_CardinalityType
<1>6. Least(l, Cardinality(closes[a])) \in Nat
  BY <1>3, <1>5 DEF Least
<1> QED  BY <1>2, <1>3, <1>4, <1>6, WarmDeque

(* The invariant has the latest closes in the buffers.                     *)
LEMMA LatestInBuffers == DataInv => BuffersAreLatest
<1> SUFFICES ASSUME DataInv, job \in {"decided", "refused"},
                    NEW s \in Signals, NEW a \in Assets, NEW l \in stored_lookbacks(s)
             PROVE  buffers[s][a][l] = in_order(last_days(usable(a), Len(buffers[s][a][l])))
  BY DEF BuffersAreLatest
<1> DEFINE k == Least(l, Cardinality(closes[a]))
<1>1. /\ k \in Nat /\ buffers[s][a][l] = in_order(last_days(closes[a], k))
      /\ Cardinality(last_days(closes[a], k)) = k /\ Len(buffers[s][a][l]) = k
  BY WarmBuffer
<1>2. IsFiniteSet(usable(a)) /\ usable(a) \subseteq Int /\ UpIn(closes[a], usable(a))
  BY HistoryFacts DEF DataInv, DataType, ClosesInv
<1> HIDE DEF k
<1>3. last_days(usable(a), k) = last_days(closes[a], k)
  BY <1>1, <1>2, SameLast
<1> QED  BY <1>1, <1>3

(* The invariant has all of the history when nothing failed.               *)
LEMMA CompleteHistory == DataInv => HistoryIsComplete
<1> SUFFICES ASSUME DataInv, job \in {"decided", "refused"},
                    NEW a \in Assets, a \notin cut, history[a].unusable = {}
             PROVE  closes[a] = last_days(Window(a), PageSize * MaxPages)
  BY DEF HistoryIsComplete, Window
<1>1. walk.left = <<>>
  BY DEF DataInv, BuffersInv
<1>2. a \notin Range(walk.left)
  BY <1>1 DEF Range
<1> QED  BY <1>2 DEF DataInv, ClosesInv

(* The invariant has no burn-in count without the prices it counts.        *)
LEMMA WarmSignals == DataInv => SignalsAreWarm
<1> SUFFICES ASSUME DataInv, NEW s \in Signals, NEW a \in get_assets(0),
                    NEW l \in stored_lookbacks(s)
             PROVE  /\ warmup >= l => Len(buffers[s][a][l]) = l
                    /\ job = "decided" => Len(buffers[s][a][l]) > 0
  BY DEF SignalsAreWarm
<1>0. /\ a \in Assets /\ l \in Nat \ {0} /\ l <= longest_lookback /\ warmup \in Nat
      /\ longest_lookback \in Nat
  BY LongestLookback DEF get_assets, DataInv, DataType
<1>1. CASE job \in {"gate", "walk", "trade"}
  BY <1>0, <1>1 DEF DataInv, BuffersInv
<1>2. CASE job = "backtest"
  <2>1. Len(buffers[s][a][l]) = Least(l, warmup)
    BY <1>2 DEF DataInv, BuffersInv
  <2> QED  BY <1>0, <1>2, <2>1 DEF Least
<1>3. CASE job \in {"decided", "refused"}
  <2> DEFINE n == Cardinality(closes[a])
  <2>1. Len(buffers[s][a][l]) = Least(l, n)
    BY <1>0, <1>3, WarmBuffer
  <2>2. /\ warmup <= warmed_count(closes[a])
        /\ job = "decided" => warmed_count(closes[a]) > 0
    BY <1>0, <1>3 DEF DataInv, BuffersInv
  <2>3. n \in Nat
    BY <1>0, ClosesFinite, FS_CardinalityType DEF DataInv
  <2>4. warmed_count(closes[a]) = Least(n, longest_lookback)
    BY DEF warmed_count, Least
  <2> HIDE DEF n
  <2> QED  BY <1>0, <2>1, <2>2, <2>3, <2>4 DEF Least
<1> QED  BY <1>1, <1>2, <1>3 DEF DataInv, BuffersInv

(* The invariant holds in every state of a launch and of a backtest.       *)
LEMMA DataInvariant == Spec => []DataInv
<1>1. Init => GatewayInit /\ DataInv
  BY DataStart DEF Init
<1>2. Spec => []GatewayInv
  <2>1. Spec => GatewaySpec
    BY <1>1, UsesTheGateway, PTL DEF Spec, GatewaySpec
  <2> QED  BY <2>1, GatewayInvariant, PTL
<1>3. GatewayInv' => GatewayTypeOK'
  BY DEF GatewayInv
<1> QED  BY <1>1, <1>2, <1>3, DataInductive, PTL DEF Spec

(* For any histories, page size, number of pages and lookbacks, and        *)
(* whichever calls come back empty or fail: the prices in a launch's       *)
(* buffers are the asset's most recent usable closes, oldest first and     *)
(* without a hole (get_daily_closes, warm_up_signals,                      *)
(* AssetPriceBuffers.append).                                              *)
THEOREM WarmPricesAreLatest == Spec => []BuffersAreLatest
  BY DataInvariant, LatestInBuffers, PTL

(* For any page size and number of pages: when every page came back with   *)
(* rows and no bar was unusable, the walk has found every close of the     *)
(* window that its pages can hold (get_daily_closes).                      *)
THEOREM WalkFindsTheHistory == Spec => []HistoryIsComplete
  BY DataInvariant, CompleteHistory, PTL

(* For any signals and universe: when the warm-up count reaches a          *)
(* lookback, every asset that was there from the start has filled the      *)
(* buffers of that lookback, in a launch and in a backtest, and a launch   *)
(* never decides without a price for one of its assets                     *)
(* (SignalsCollection.update, warm_up_signals, run_rebalance).             *)
THEOREM BurnInIsReal == Spec => []SignalsAreWarm
  BY DataInvariant, WarmSignals, PTL
-----------------------------------------------------------------------------
(* Why the walk ends: what WarmUpEnds needs besides fairness.              *)

(* The pages get_daily_closes may still ask for.                           *)
PagesLeft == MaxPages * Len(walk.left) - walk.pages

(* Every answer takes one from them at least, nothing else touches them,   *)
(* and none is left exactly when the signals can be warmed.                *)
WalkDrawsNearer ==
    [][/\ PagesLeft \in Nat
       /\ PagesLeft = 0 <=> walk.left = <<>>
       /\ IF TakePage THEN PagesLeft' < PagesLeft ELSE PagesLeft' = PagesLeft]_vars

(* An asset that is left has not had its pages.                            *)
LeftInv == walk.left = <<>> => walk.pages = 0

(* A page is read of an asset that is left: the walk goes on with it or    *)
(* begins anew with the next.                                              *)
LEMMA WalkStep ==
    ASSUME DataInv, TakePage
    PROVE  /\ walk.left \in Seq(Assets) /\ walk.left # <<>>
           /\ \/ /\ Len(walk'.left) = Len(walk.left) - 1 /\ walk'.pages = 0
              \/ /\ walk'.left = walk.left /\ walk'.pages = walk.pages + 1
<1>1. job = "walk" /\ pc[Main] = "answered"
  BY DEF TakePage, Return
<1>2. DataType /\ walk.left # <<>>
  BY <1>1 DEF DataInv, CallerInv
<1>3. walk.left \in Seq(Assets) /\ Len(Tail(walk.left)) = Len(walk.left) - 1
  BY <1>2, HeadTailProperties DEF DataType
<1>4. \/ walk' = FirstWalk(Tail(walk.left))
      \/ \E c, k : walk' = [walk EXCEPT !.cursor = c, !.pages = @ + 1, !.collected = k]
  BY DEF TakePage
<1>5. CASE walk' = FirstWalk(Tail(walk.left))
  BY <1>2, <1>3, <1>5 DEF FirstWalk
<1>6. ASSUME NEW c, NEW k,
             walk' = [walk EXCEPT !.cursor = c, !.pages = @ + 1, !.collected = k]
      PROVE  walk'.left = walk.left /\ walk'.pages = walk.pages + 1
  BY <1>2, <1>6 DEF DataType
<1> QED  BY <1>2, <1>3, <1>4, <1>5, <1>6

(* Nothing but a page that was read changes the walk.                      *)
LEMMA WalkFrame == ASSUME [Next]_vars, ~TakePage PROVE walk' = walk
  BY DEF Next, Wait, PassGate, AskPage, WarmUp, UpdateSignals, Call, Gateways, Time, vars,
     dataVars, signalVars

(* A launch asks the venue for MaxPages pages of each asset at most,       *)
(* whatever it answers: every answer, the failed ones included, brings     *)
(* the warm-up nearer, and nothing sets the walk back (get_daily_closes,   *)
(* MAX_CHART_PAGES).                                                       *)
THEOREM WalkIsBounded == Spec => WalkDrawsNearer
<1>0. MaxPages \in Nat /\ MaxPages > 0
  BY MarketDataAssumption
<1>1. Init => LeftInv
  BY DEF Init, FirstWalk, LeftInv
<1>2. DataInv /\ LeftInv /\ [Next]_vars => LeftInv'
  <2> SUFFICES ASSUME DataInv, LeftInv, [Next]_vars PROVE LeftInv'
    OBVIOUS
  <2>1. CASE TakePage
    BY <2>1, WalkStep DEF LeftInv
  <2>2. CASE ~TakePage
    BY <2>2, WalkFrame DEF LeftInv
  <2> QED  BY <2>1, <2>2
<1>3. DataInv /\ LeftInv /\ DataInv' /\ [Next]_vars =>
        [/\ PagesLeft \in Nat
         /\ PagesLeft = 0 <=> walk.left = <<>>
         /\ IF TakePage THEN PagesLeft' < PagesLeft ELSE PagesLeft' = PagesLeft]_vars
  <2> SUFFICES ASSUME DataInv, LeftInv, DataInv', [Next]_vars
               PROVE  /\ PagesLeft \in Nat
                      /\ PagesLeft = 0 <=> walk.left = <<>>
                      /\ IF TakePage THEN PagesLeft' < PagesLeft ELSE PagesLeft' = PagesLeft
    OBVIOUS
  <2> DEFINE n == Len(walk.left)
             p == walk.pages
  <2>1. n \in Nat /\ p \in Nat /\ p < MaxPages /\ (n = 0 <=> walk.left = <<>>)
    BY DEF DataInv, DataType, WalkInv
  <2>2. n = 0 => p = 0
    BY <2>1 DEF LeftInv
  <2>3. PagesLeft = MaxPages * n - p
    BY DEF PagesLeft
  <2>4. n = 0 => PagesLeft = 0
    BY <1>0, <2>1, <2>2, <2>3
  <2>5. n > 0 => MaxPages * n = MaxPages * (n - 1) + MaxPages /\ MaxPages * (n - 1) \in Nat
    BY <1>0, <2>1, SMT
  <2>6. n > 0 => PagesLeft \in Nat /\ PagesLeft > 0
    <3> HIDE DEF n, p
    <3> QED  BY <1>0, <2>1, <2>3, <2>5
  <2>7. ASSUME TakePage PROVE PagesLeft' < PagesLeft
    <3>1. n > 0
      BY <2>1, <2>7, WalkStep
    <3>2. \/ PagesLeft' = MaxPages * (n - 1) - 0
          \/ PagesLeft' = MaxPages * n - (p + 1)
      BY <2>7, WalkStep DEF PagesLeft
    <3>3. MaxPages * n \in Int /\ MaxPages * (n - 1) \in Int
      BY <1>0, <2>1, SMT
    <3> HIDE DEF n, p
    <3> QED  BY <1>0, <2>1, <2>3, <2>5, <3>1, <3>2, <3>3
  <2>8. ASSUME ~TakePage PROVE PagesLeft' = PagesLeft
    BY <2>8, WalkFrame DEF PagesLeft
  <2> HIDE DEF n, p
  <2>9. PagesLeft \in Nat /\ (PagesLeft = 0 <=> n = 0)
    BY <2>1, <2>4, <2>6
  <2> QED  BY <2>1, <2>7, <2>8, <2>9
<1> QED  BY <1>1, <1>2, <1>3, DataInvariant, PTL DEF Spec, WalkDrawsNearer
==============================================================================
