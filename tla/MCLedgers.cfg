SPECIFICATION Spec
CONSTANTS
  None = None
  m1 = m1
  m2 = m2
  Trades <- AllTrades
  Symbol <- SymbolOf
  Quantity <- Ordered
  FactKeys = {"k1", "k2"}
  Slots <- Slot
  UniqueSlots <- Slot
  Ids = {"x1", "x2"}
  Bodies = {"b1"}
  Requests <- AllRequests
  Reports <- AllReports
  LegacyCalls <- Both
  MaxVersion <- Versions
  MaxSeq = 2
  Focus <- TwoParts
  Instants = {0, 1, 2, 3}
  DayLength = 3
  Equities = {1, 2, 3}
  MaxArrivals = 4
  UsageKeys <- Usages
  Services = {"text", "macro"}
  Sources = {"x", "xapi"}
  ServiceOf <- UsageService
  SourceOf <- UsageSource
  Cost <- UsageCost
  Monthly <- MonthlyBudget
  InCampaign = {"macro"}
  Adoptions <- Receipts
  Reservers <- Both
  MaxCursor = 1
  MaxMonth = 1
  NewsKeys = {1, 2}
  Batches = {{1, 2}, {2}}
  Callers <- AllCallers
  Attempts = {"a1", "a2"}
  AttemptOf <- CallerAttempt
SYMMETRY Twins
INVARIANTS TypeOK StoryIsExact OneExit OneOpenTrade RowIsSummary BudgetsHold ClaimedOnce
CHECK_DEADLOCK FALSE
