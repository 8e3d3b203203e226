SPECIFICATION UseSpec
CONSTANTS
  FeeUnit = 4
  commission_pct = 1
  tax_pct = 1
  TaxOnSalesOnly = TRUE
  PriceUnit = 5
  NaN = NaN
  BufferUnit = 10
  cash_buffer_percentage = 0
  gross_leverage = 2
  Assets = {1, 2}
  asset_dates <- MCAssetDates
  Prices = {2, 3}
  Decisions <- MCDecisions
  InitialCash = 8
  Sessions <- MCSessions
  MonthEnds = {4}
  HandIds = {1, 2}
  HandAmounts <- MCHandAmounts
  HandOrders <- MCHandOrders
  HandPrices <- MCHandPrices
  MaxCalls = 6
INVARIANTS
  EquityIsProfit
  HeadsForTarget
  ScheduleIsMet
  OverdraftIsRounding
PROPERTIES
  TradesAtOpenings
  OrdersLostOnlyByExceptions
CHECK_DEADLOCK FALSE
