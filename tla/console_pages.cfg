SPECIFICATION Spec
CHECK_DEADLOCK FALSE
CONSTANTS
  Pages = {"dashboard", "markets", "paper", "risk", "rules", "lab", "arena", "mission", "decisions", "records", "backtests", "live", "instant", "preview"}
  Clicks <- PagesClicks
  Failures <- PagesFailures
  Ranges = {r1, r2}
  Health <- MCHealth
  HistoryPages = 2
  Frames = 2
  Assets <- MCAssets
  Intervals = {"1h", "1d"}
  CandlesOf <- MCCandles
  Periods = {1, 3}
  PaperAssets = {p1}
  Balances = {20, 30}
  NewAccount = "N"
  TradeSize = 10
  TradeFee = 1
  MaxTrades = 1
  Accounts = {a1, a2}
  RuleSets <- MCRules
  RuleChanges = 3
  Queries = {q1, q2}
  EventPages = 2
  Endings = {"COMPLETED"}
  MaxRuns = 2
  Strategies <- MCStrategies
  StoredSets <- MCSets
  Backtests <- MCBacktests
  Typed <- MCTyped
  Names = {"n"}
  Capitals = {10}
  Ranking <- MCRanking
  Adapters <- MCAdapters
  MaxGeneration = 2
  Windows <- MCWindows
  ExpectedGap <- MCGaps
  CapturedAt <- MCCaptures
  Modes = {"paper", "live"}
  Dates = {1, 5}
  Sections = {"research"}
  Lists <- MCLists
  Details <- MCDetails
  Matching <- MCMatching
  PageSize = 2
  Actions = {"buy"}
  TypedSizes = {3}
  DefaultSize = 1
  LargestSize = 3
  Evidence <- MCEvidence
  MaxDecisions = 2
  BtStrategies <- MCBtStrategies
  BtSets <- MCBtSets
  Outcomes <- MCOutcomes
  Earlier = {"pending", "completed"}
  MaxBacktests = 2
  ProfileOf <- MCProfiles
  ReadinessOf <- MCReadiness
  Tokens = {"t1", "t2"}
  Connections <- MCConnections
  BuyAmounts = {1, 2}
  BuyKeys = {"k1", "k2"}
  PreviewAmounts = {1, 2}
  MaxWindow = 1
  r1 = r1
  r2 = r2
  a1 = a1
  a2 = a2
  p1 = p1
  q1 = q1
  q2 = q2
INVARIANTS
  TradingPagesAgree
  ResearchPagesAgree
  DecisionPagesAgree
  ReviewedOnce
  ShownIsActive
  DetailAgreesWithList
  BoughtOnce
  PreviewedOnce
  RulesWithinAcknowledged
