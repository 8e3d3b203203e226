SPECIFICATION Spec
CHECK_DEADLOCK FALSE
CONSTANTS
  main = main
  worker = worker
  a1 = a1
  a2 = a2
  Threads = {main, worker}
  NoThread = NoThread
  Main = main
  MinCallInterval = 3
  SettleSeconds = 4
  Backoff = 2
  Attempts = 3
  SmartSleep = 1
  RateLimit = 4
  MaxAge = 5
  Universe <- MCUniverse
  Signals <- MCSignals
  Histories <- MCHistories
  ExtraCalendarDays = 0
  Entries = {0, 2}
  Today = 6
  PageSize = 2
  MaxPages = 2
  LastDay = 5
  Weekend = {5}
  Closures = {{}, {1}, {3}, {4}}
  FetchDays = 2
  CalendarPage = 2
  Times = {8, 9, 15}
  OpenTime = 9
  CloseTime = 15
  RebalanceDates = {1, 3, 4, 5}
INVARIANTS
  BuffersAreLatest
  HistoryIsComplete
  SignalsAreWarm
  CallsAreFew
PROPERTIES
  GateFollowsTheVenue
  PassesAreSpaced
  WarmUpEnds
