CONSTANTS
  p1 = p1
  p2 = p2
  p3 = p3
  p4 = p4
  Procs = {p1, p2, p3, p4}
  Commands = {"exit", "refund", "reconcile"}
  MaxAlive = 1
  OxideToken = TRUE
  Shells = {sh1, sh2}
  OutPairs <- MCOutPairs
  MaxChallenges = 1
  MaxSealed = 2
  MaxDrills = 1
  MaxMishaps = 1
  ExpiryOf <- MCExpiryOf
  ReceiptNonce = 9
  Subjects = {1, 2}
  MaxSigned = 2
  MaxAcked = 2
  MaxDays = 2
SPECIFICATION RecipientSpec
SYMMETRY Symmetry
CHECK_DEADLOCK FALSE
INVARIANTS SingleFlight AbortedNeverSent SentIsRecorded UnresolvedIsLocked
INVARIANTS EnrollmentSound AcksSound
