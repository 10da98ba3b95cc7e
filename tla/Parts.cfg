SPECIFICATION Spec
CONSTANTS
  Procs = {p, q, o}
  LeaseOrders = {x}
  Stale = 1
  MaxClock = 1
  MaxStarts = 1
  Gone = Gone
  Calls <- MCCalls
  RouteOf <- MCRouteOf
  ScopeOf <- MCScopeOf
  PayloadOf <- MCPayloadOf
  Timestamp <- MCTimestamp
  BodyOf <- MCBodyOf
  Keys <- MCKeys
  MaxAge = 1
  MaxSkew = 1
  MaxPending = 1
  MaxEntries = 1
  MaxSeconds = 3
  MaxFailures = 1
  MaxValidity = 2
  Intents <- MCIntents
  Terms <- MCTerms
  CostBps = 1000
  MinFill = 2
  MaxFill = 100
  Float = 18
  PricingMs = 1
  LatencyMs = 1
  BidLifetime = 1
  MaxAhead = 4
  MaxExclusive = 3
  MaxTracked = 1
  Discount = 1
  MaxNow = 7
  MaxAnnounced = 2
  MaxLost = 1
  MaxLog = 2
  MaxBoots = 2
  MaxRuns = 2
  MaxFaults = 1
  Requests = {r, s}
  Lifetime = 3
  RenewBefore = 1
  MaxAttempts = 2
  MaxHours = 4
  MaxRotations = 2
  MaxRefusals = 2
  QuoteCalls = {"qa", "qb", "qc"}
  RequestOf <- MCRequestOf
  ForcedCalls = {"qb"}
  QuoteTtl = 1
  QuoteAttempts = 2
  MaxQuoteClock = 2
  Executes = {"ea", "eb"}
  MaxPolls = 1
  AutoConnect = FALSE
  MaxPendingRpc = 1
  MaxDocuments = 3
  MaxRequests = 1
  MaxSwaps = 1
  MaxWalletEvents = 1
  Totals = {0, 3, 7, 11, 13}
  SplitConfigs <- MCSplitConfigs
  MinSplitThreshold = 2
  MaxSubTradesCap = 4
  Scores = {1, 2}
  ShieldedMinScore = 2
  GasEstimates <- MCGasEstimates
  Preferences <- MCPreferences
  GasBudgets = {0, 6, 9}
  Windows = {0, 5, 11}
  MinSpacing = 3
  JitterSteps = 3
  MaxLies = 2
  MaxIntentAhead = 2
  MaxPullAfter = 2
  QuoteAsks <- MCQuoteAsks
  DepositRequests <- MCDepositRequests
  MinDepositWindow = 1
  ServerFolds = TRUE
  MaxDeposits = 2
  ClaimAsks <- MCClaimAsks
  EscrowAsks <- MCEscrowAsks
  MaxFalse = 2
  ClaimWindow = 1
  FillInclusion = 1
  AttestationLatency = 1
  SafetyMargin = 1
  AcceptBudget = 1
  BidOutput = 3
  Descriptors = {"d", "e"}
  MaxAgeSeconds = 0
  MaxFutureSkewSeconds = 0
  BridgeLead = 0
  MaxBlocks = 3
  MaxUnix = 1
  MaxAttested = 2
  MaxVerified = 1
INVARIANTS NoOrderErased ProviderSound BidderSound TransportSound
INVARIANTS BridgeSound PlanSound SignsOnlyAsked ReceiptsSound EscrowBinds
VIEW View
CHECK_DEADLOCK FALSE
