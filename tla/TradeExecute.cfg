CONSTANTS
  None = None
  i1 = i1
  i2 = i2
  w1 = w1
  w2 = w2
  home = home
  away = away
  d1 = d1
  EXECUTE_RESEND_MARGIN = 0
  QUOTED_EXPIRY_GRACE = 1
  MIN_RESEND_DELAY = 1
  RETRY_AFTER_MAX_AGE = 1
  STATUS_POLL = 1
  FLAT_CEILING = 1
  POLL_CEILING_MAX = 8
  DEPOSIT_POLL_GRACE = 1
  DEPOSIT_MIN_WINDOW = 1
  CLAIM_SKEW = 1
  Chains = {home, away}
  MAX_EXECUTE_RESENDS = 1
  QUOTE_REFRESH_BUFFER = 2
  RECONCILE_AFTER_ATTEMPTS = 2
  Intents = {i1}
  Wallets = {w1}
  Addresses = {}
  Contexts <- OneContext
  Amounts = {"1"}
  Shapes <- PlainShapes
  Outcomes = {"quoted","executing","not_executed","completed","failed"}
  Host = {"quote", "sign"}
  Faults = {"execute", "threw", "unmapped"}
  RetryAfters = {1}
  MaxNow = 4
  MaxQuoteAt = 0
  MaxAsks = 2
  MaxPolls = 3
SPECIFICATION Spec
CHECK_DEADLOCK FALSE
INVARIANTS VerdictsConsistent  PollOutlivesFinish
PROPERTIES RetryOnlyIfNothingMoved
