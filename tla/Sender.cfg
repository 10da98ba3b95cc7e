SPECIFICATION Spec
CONSTANTS
    fillA = fillA
    fillB = fillB
    approval = approval
    Guarded <- OneFill
    Plain <- Approvals
    LandBy <- OneDeadline
    Market = {1}
    AfterBlocks = 1
    AfterPasses = 1
    WithinSec = 1
    Redelivered = FALSE
    MaxTime = 2
    MaxNonce = 1
    MaxFaults = 1
INVARIANTS OneSlot FollowsLive 
PROPERTY ImplementsPayment
CHECK_DEADLOCK FALSE
