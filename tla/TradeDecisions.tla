--------------------------- MODULE TradeDecisions ---------------------------
(***************************************************************************)
(* The pure decisions of the intent lifecycle: packages/client/src/machine *)
(* /decisions.ts, phase.ts and the status table of shared/intents.ts.      *)
(*                                                                         *)
(* Time is counted in whole units.  A quote is a record whose display      *)
(* fields (figures, hashes, wording) are left out; what remains is what a  *)
(* decision reads.  NoQuote stands for the code's `null`.                  *)
(***************************************************************************)
EXTENDS Integers, FiniteSetsExt

CONSTANTS
    None,                      \* the code's null / undefined
    MAX_EXECUTE_RESENDS,       \* shared/schemas.ts
    EXECUTE_RESEND_MARGIN,     \* EXECUTE_RESEND_MARGIN_SECS
    QUOTED_EXPIRY_GRACE,       \* QUOTED_EXPIRY_GRACE_SECS
    MIN_RESEND_DELAY,          \* the "now + 1000" of decideExecuteResend
    RETRY_AFTER_MAX_AGE,       \* RETRY_AFTER_MAX_AGE_SECS
    STATUS_POLL,               \* STATUS_POLL_MS
    FLAT_CEILING,              \* STATUS_POLL_FLAT_CEILING_MS
    POLL_CEILING_MAX,          \* POLL_CEILING_MAX_MS
    DEPOSIT_POLL_GRACE         \* DEPOSIT_POLL_GRACE_MS

ASSUME DecisionConstants ==
    /\ MAX_EXECUTE_RESENDS \in Nat
    /\ EXECUTE_RESEND_MARGIN \in Nat
    /\ QUOTED_EXPIRY_GRACE \in Nat
    /\ MIN_RESEND_DELAY \in Nat
    /\ RETRY_AFTER_MAX_AGE \in Nat
    /\ STATUS_POLL \in Nat \ {0}
    /\ FLAT_CEILING \in Nat
    /\ POLL_CEILING_MAX \in Nat
    /\ DEPOSIT_POLL_GRACE \in Nat

-----------------------------------------------------------------------------
\* shared/intents.ts: the statuses and the edges between them.
IntentStatus == {"idle", "pending", "quoting", "quoted", "signing",
                 "awaiting_deposit", "executing", "bridging", "settling",
                 "completed", "refunded", "failed", "expired"}

INTENT_STATUS_TRANSITIONS ==
    [idle |-> {"quoting", "pending"},
     pending |-> {"quoting", "failed"},
     quoting |-> {"quoted", "failed", "idle", "quoting"},
     quoted |-> {"signing", "awaiting_deposit", "executing", "completed",
                 "expired", "quoting", "failed", "idle"},
     signing |-> {"executing", "completed", "failed", "quoted"},
     awaiting_deposit |-> {"executing", "bridging", "settling", "completed",
                           "refunded", "failed", "expired", "quoting", "idle"},
     executing |-> {"bridging", "settling", "completed", "refunded", "failed"},
     bridging |-> {"settling", "completed", "refunded", "failed"},
     settling |-> {"completed", "refunded", "failed"},
     completed |-> {"idle", "quoting"},
     refunded |-> {"idle", "quoting"},
     failed |-> {"idle", "quoting"},
     expired |-> {"quoting", "idle"}]

canTransitionTo(from, to) == to \in INTENT_STATUS_TRANSITIONS[from]

QUOTE_BUSY_STATES == {"signing", "awaiting_deposit", "executing", "bridging", "settling"}
ALLOCATABLE_STATES == {"idle", "pending", "quoting", "quoted"}
ENDED_STATES == {"completed", "refunded"}
WALLET_INTERRUPTIBLE_STATES_NotSigning == {"quoted", "expired", "failed"}     \* mutant
WALLET_INTERRUPTIBLE_STATES == {"quoted", "signing", "expired", "failed"}
POLL_INFLIGHT_STATES == {"awaiting_deposit", "executing", "bridging", "settling"}

-----------------------------------------------------------------------------
(***************************************************************************)
(* A served quote.  `pull` is the verdict validateSolverPin would give on  *)
(* its origin pull ("none" when it carries no pull), `payoutOk` the        *)
(* verdict of validatePayoutPin, `pullBefore` the pull's own deadline.     *)
(***************************************************************************)
NoQuote == [held |-> FALSE, intent |-> None, canSolve |-> FALSE, preview |-> FALSE,
            address |-> None, eip712 |-> FALSE, pull |-> "none", payoutOk |-> FALSE,
            expiry |-> 0, deadline |-> 0, pullBefore |-> 0, depositDeadline |-> 0]

Never == -1     \* no deadline / no time: the code's null where a time is due

\* Retry is safe after a `failed` only with the Worker's nothing-moved marker.
failureMayHaveMoved_Never(marker) == FALSE     \* mutant: every failure is Retry
failureMayHaveMoved(marker) == ~marker

\* When the Worker has ended an intent nobody executed; Never without a quote.
unexecutedFinishAt(q) ==
    IF ~q.held THEN Never
    ELSE Max({q.expiry} \cup IF q.eip712 THEN {q.deadline} ELSE {})
         + QUOTED_EXPIRY_GRACE

\* The earliest deadline the signed request carries; Never without a quote.
executeDeadline(q) ==
    IF ~q.held THEN Never
    ELSE Min({q.expiry} \cup (IF q.eip712 THEN {q.deadline} ELSE {})
                          \cup (IF q.pull # "none" THEN {q.pullBefore} ELSE {}))

CeilDiv(a, b) == (a + b - 1) \div b

\* How many elapsed intervals without news a poll of this phase is given.
pollCeilingAttempts_Flat(status, depositDeadline, now, finish) ==     \* mutant: one ceiling for all
    CeilDiv(FLAT_CEILING, STATUS_POLL)
pollCeilingAttempts(status, depositDeadline, now, finish) ==
    LET flat == CeilDiv(FLAT_CEILING, STATUS_POLL)
        window == CASE status = "awaiting_deposit" /\ depositDeadline > 0
                         -> depositDeadline - now + DEPOSIT_POLL_GRACE
                    [] status = "executing" /\ finish > 0
                         -> finish - now + STATUS_POLL
                    [] OTHER -> 0
    IN  IF window <= 0 THEN flat
        ELSE Max({flat, CeilDiv(Min({window, POLL_CEILING_MAX}), STATUS_POLL)})

\* Wait this long and resend the execute the server refused, or give up (Never).
decideExecuteResend(resends, retryAfter, deadline, now) ==
    LET sendAt == Max({retryAfter, now + MIN_RESEND_DELAY})
    IN  IF \/ resends >= MAX_EXECUTE_RESENDS
           \/ retryAfter = Never
           \/ retryAfter < now - RETRY_AFTER_MAX_AGE
           \/ deadline = Never
           \/ sendAt > deadline - EXECUTE_RESEND_MARGIN
        THEN Never
        ELSE sendAt - now

-----------------------------------------------------------------------------
quoteAccessDecision(connected, trade, allocate) ==
    CASE trade.settlement # "public" -> IF connected THEN "executable" ELSE "needs_wallet"
      [] trade.deposit /\ ~allocate  -> "preview"
      [] trade.deposit /\ allocate   -> IF connected THEN "executable" ELSE "needs_wallet"
      [] OTHER                       -> IF connected THEN "executable" ELSE "preview"

shouldUpgradePreviewQuote(ctx, amount, intent) ==
    /\ ~ctx.trade.deposit
    /\ ctx.address # None
    /\ amount # ""
    /\ intent.status = "quoted"
    /\ intent.quote.preview

canSignQuote(status, q) == status = "quoted" /\ q.held /\ q.canSolve /\ ~q.preview

shouldRefreshQuote(status, hidden, hasAllocatedDeposit) ==
    status = "quoted" /\ ~hidden /\ ~hasAllocatedDeposit

shouldRefreshOnReturn(status, paused, hasAllocatedDeposit) ==
    ~paused /\ ~hasAllocatedDeposit /\ status \in {"quoted", "expired"}

\* Where a Confirm is turned back to, or "proceed".
decideSignPreflight(ctx, intent, now) ==
    CASE ctx.address = None                                               -> "quoted"
      [] intent.quotedAddress # None /\ ctx.address # intent.quotedAddress -> "quoted"
      [] ctx.chainId # ctx.trade.fromChainId                              -> "quoted"
      [] intent.quotedChainId # None /\ ctx.chainId # intent.quotedChainId -> "quoted"
      [] intent.quote.held /\ now >= intent.quote.expiry                  -> "expired"
      [] OTHER                                                            -> "proceed"

(***************************************************************************)
(* What an execute response means.  `reconciling` is the response's own    *)
(* flag, or ~success when it carries none.                                 *)
(***************************************************************************)
decideExecuteResult(r) ==
    CASE r.status = "failed" /\ ~r.success /\ ~r.reconciling
           -> [kind |-> "failed", status |-> "failed", reconciling |-> FALSE,
               mayHaveMoved |-> failureMayHaveMoved(r.marker)]
      [] r.status = "completed"
           -> [kind |-> "transition", status |-> "completed", reconciling |-> FALSE,
               mayHaveMoved |-> FALSE]
      [] r.status = "failed" /\ (r.success \/ r.reconciling)
           -> [kind |-> "transition", status |-> "executing", reconciling |-> TRUE,
               mayHaveMoved |-> FALSE]
      [] OTHER
           -> [kind |-> "transition", status |-> r.status, reconciling |-> r.reconciling,
               mayHaveMoved |-> FALSE]

\* phase.ts: what the user is shown.
phaseFromStatus(i) ==
    CASE i.status = "signing"          -> "awaiting-wallet"
      [] i.status = "awaiting_deposit" -> "deposit"
      [] i.status = "executing"        -> IF i.notSent THEN "not-sent"
                                          ELSE IF i.reconciling THEN "pending" ELSE "submitting"
      [] i.status \in {"bridging", "settling"}
                                       -> IF i.reconciling THEN "pending" ELSE i.status
      [] i.status = "completed"        -> "success"
      [] i.status = "refunded"         -> "refunded"
      [] i.status = "failed"           -> IF i.mayHaveMoved THEN "may-have-moved" ELSE "failed"
      [] OTHER                         -> "confirm"
=============================================================================
