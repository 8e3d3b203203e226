SPECIFICATION UseSpec
CONSTANTS
  FeeUnit = 100
  commission_pct = 1
  tax_pct = 0
  TaxOnSalesOnly = TRUE
  PriceUnit = 1
  NaN = NaN
  BufferUnit = 10
  cash_buffer_percentage = 0
  gross_leverage = 2
  Assets = {1, 2}
  asset_dates <- MCAssetDates
  Prices = {2, 3}
  Decisions <- MCDecisions
  InitialCash = 12
  Sessions <- MCLongOnlyDaily
  MonthEnds = {4}
  HandIds = {}
  HandAmounts <- MCHandAmounts
  HandOrders <- MCHandOrders
  HandPrices <- MCHandPrices
  MaxCalls = 6
INVARIANT UnreferencedIsSoldOut
CHECK_DEADLOCK FALSE
