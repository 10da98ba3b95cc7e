---------------------------- MODULE TradeMachine ----------------------------
(***************************************************************************)
(* packages/client/src/machine/machine.ts: update(model, msg), the only    *)
(* place the quote -> sign -> execute -> status lifecycle changes.         *)
(*                                                                         *)
(* A handler of the code maps a model and a message to a model and a list  *)
(* of effects.  Here it is an operator from a record m to a record: the    *)
(* fields of the code's Model, and the effects still standing in the host  *)
(* (m.timers, the timers armed; m.asks, the API and wallet calls not yet   *)
(* answered; m.allocs, the allocations not yet reported).  Fields that are *)
(* only shown or only echoed to the server are left out: errors, refusals, *)
(* hashes, the fill clock, the countdown figure, the allocation key.       *)
(*                                                                         *)
(* The code numbers flights, sign flows and poll armings from one counter. *)
(* The numbers are only compared for equality with those still held, so    *)
(* nextId takes any number that nothing holds.                             *)
(***************************************************************************)
EXTENDS TradeDecisions

CONSTANTS
    QUOTE_REFRESH_BUFFER,       \* QUOTE_REFRESH_BUFFER_MS
    RECONCILE_AFTER_ATTEMPTS,
    DEPOSIT_MIN_WINDOW          \* DEPOSIT_MIN_WINDOW_SECONDS of @xochi/signer

ASSUME MachineConstants ==
    /\ QUOTE_REFRESH_BUFFER \in Nat
    /\ RECONCILE_AFTER_ATTEMPTS \in Nat \ {0}
    /\ DEPOSIT_MIN_WINDOW \in Nat

TimerName == {"debounce", "refresh", "expiry", "poll", "signPrompt", "execute"}

-----------------------------------------------------------------------------
(* The initial model. *)

INITIAL_INTENT_STATE ==
    [status |-> "idle", intentId |-> None, quote |-> NoQuote,
     quotedAddress |-> None, quotedChainId |-> None, quotedFromAmount |-> None,
     depositDeadline |-> Never, reconciling |-> FALSE, pollExhausted |-> FALSE,
     mayHaveMoved |-> FALSE, notSent |-> FALSE]

\* No sign flow: `sign: null`.  `sig` and `pullSig` name the intent whose digest
\* each held signature covers, `request` the intent the dispatched execute names.
NoSign == [stage |-> "none", id |-> 0, origin |-> "sign", sig |-> None, pullSig |-> None,
           request |-> None, resends |-> 0, resendAt |-> Never]

\* No poll: `poll: null`.  (intentId, phase, resend) is the code's poll.key.
NoPoll == [live |-> FALSE, intentId |-> None, phase |-> "idle", resend |-> FALSE,
           gen |-> 0, polls |-> 0, answered |-> 0, spent |-> 0, max |-> 0,
           stopped |-> FALSE]

NoRefresh == [on |-> FALSE, amount |-> "", hasAllocatedDeposit |-> FALSE]

init(ctx) ==
    [ctx |-> ctx, hidden |-> FALSE, intent |-> INITIAL_INTENT_STATE, amount |-> "",
     awaitingPull |-> FALSE, isSigningPull |-> FALSE, pendingIntentSig |-> None,
     flights |-> {}, sign |-> NoSign, poll |-> NoPoll, refresh |-> NoRefresh,
     quotedTrade |-> None, seenDepositAddresses |-> {},
     watched |-> [wallet |-> None, upgrade |-> None, expiry |-> Never],
     timers |-> [t \in TimerName |-> Never], asks |-> {}, allocs |-> {}, event |-> "none"]

-----------------------------------------------------------------------------
(* Effects. *)

\* Timers shorter than a unit of time (debounce, countdown, wallet prompt) may
\* fire at any moment once armed.
AtOnce == 0

setTimer(m, t, due) == [m EXCEPT !.timers[t] = due]
clearTimer(m, t) == [m EXCEPT !.timers[t] = Never]
clearTimers(m, ts) ==
    [m EXCEPT !.timers = [t \in TimerName |-> IF t \in ts THEN Never ELSE m.timers[t]]]
armed(m, t) == m.timers[t] # Never

NoAsk == [op |-> "none", id |-> 0, intentId |-> None, sig |-> None, pullSig |-> None,
          attempt |-> 0, read |-> "unread"]

perform(m, a) == [m EXCEPT !.asks = @ \cup {a}]

\* The outcome of an explicit allocation, reported to the host that waits for it.
endAllocation(m, ref, ok) ==
    IF ref = 0 THEN m
    ELSE [m EXCEPT !.allocs = @ \ {ref}, !.event = IF ok THEN "allocated" ELSE "refused"]

idsHeld(m) == {f.id : f \in m.flights} \cup {f.ref : f \in m.flights}
              \cup {a.id : a \in m.asks} \cup m.allocs \cup {m.sign.id, m.poll.gen}

nextId_Constant(m) == 1     \* mutant: a later flow reuses the id of an earlier one
nextId(m) ==
    CHOOSE i \in 1..(Cardinality(idsHeld(m)) + 1) : i \notin idsHeld(m)

patch(m, intent) == [m EXCEPT !.intent = intent]

-----------------------------------------------------------------------------
(* Ceremony and flights: what every handler below is built from. *)

awaitingResend(m) == m.sign.stage = "execute" /\ m.sign.resendAt # Never

endSignFlow(m, flow) ==
    [m EXCEPT !.sign = NoSign,
              !.isSigningPull = IF flow.origin = "pull" THEN FALSE ELSE @]

\* End the whole ceremony: nothing signed so far can execute after this.
abandonSign_KeepsPrompt(m) ==     \* mutant: the prompt's timer is left running
    [clearTimers(m, IF awaitingResend(m) THEN {"execute"} ELSE {})
        EXCEPT !.sign = NoSign, !.pendingIntentSig = None,
               !.awaitingPull = FALSE, !.isSigningPull = FALSE]
abandonSign(m) ==
    [clearTimers(m, (IF m.sign.stage # "none" THEN {"signPrompt"} ELSE {})
                    \cup (IF awaitingResend(m) THEN {"execute"} ELSE {}))
        EXCEPT !.sign = NoSign, !.pendingIntentSig = None,
               !.awaitingPull = FALSE, !.isSigningPull = FALSE]

withoutFlight(m, id) == [m EXCEPT !.flights = {f \in @ : f.id # id}]
putFlight(m, flight) == [m EXCEPT !.flights = {f \in @ : f.id # flight.id} \cup {flight}]

supersedeFlights_Noop(m) == m     \* mutant: flights are left in the air
supersedeFlights_Silent(m) == [m EXCEPT !.flights = {}]     \* mutant: the host is not told
supersedeFlights(m) ==
    LET refs == {f.ref : f \in m.flights} \ {0}
    IN  [m EXCEPT !.flights = {}, !.allocs = @ \ refs,
                  !.event = IF refs = {} THEN @ ELSE "refused"]

\* A validated status move to the intent `updated`; an invalid one changes nothing.
transition(m, to, updated) ==
    LET from == m.intent.status
        moved == patch(m, [updated EXCEPT !.status = to, !.notSent = FALSE])
        next == IF to \in QUOTE_BUSY_STATES /\ from \notin QUOTE_BUSY_STATES
                THEN supersedeFlights(moved) ELSE moved
        ownExecute == to = "executing" /\ m.sign.stage = "execute"
        leftCeremony == from = "executing" \/ (from = "signing" /\ ~ownExecute)
    IN  IF ~canTransitionTo(from, to) THEN m
        ELSE IF leftCeremony THEN abandonSign(next) ELSE next

\* The request fields of a context, normalised as the quote request normalises them.
tradeKey_NoChain(c) ==     \* mutant: the wallet's chain is left out of the key
    [trade |-> c.trade, address |-> c.address]
tradeKey(c) ==
    [trade |-> [c.trade EXCEPT !.keys = c.trade.settlement = "stealth" /\ @],
     address |-> c.address, chainId |-> c.chainId]

holdsCurrentQuote(m) ==
    m.intent.quotedFromAmount = m.amount /\ m.quotedTrade = tradeKey(m.ctx)

-----------------------------------------------------------------------------
(* Quoting.  A flight is a quote asked for and not yet answered; its ctx is *)
(* the context the request was built from.                                  *)

quoteOpts(amount) == [amount |-> amount, silent |-> FALSE, ref |-> 0]

validRequest(flight) == flight.amount # "0" /\ flight.ctx.trade.valid

sendQuote(m, flight) ==
    LET trade == flight.ctx.trade
        dropped == withoutFlight(endAllocation(m, flight.ref, FALSE), flight.id)
        next == IF flight.silent THEN m ELSE transition(m, "quoting", m.intent)
    IN  IF trade.settlement = "stealth" /\ ~trade.keys
        THEN IF flight.silent THEN dropped
             ELSE transition(dropped, "quoting", [m.intent EXCEPT !.quote = NoQuote])
        ELSE IF ~validRequest(flight)
        THEN IF flight.silent THEN dropped
             ELSE patch(dropped, [m.intent EXCEPT !.status = "failed"])
        ELSE perform(putFlight(next, [flight EXCEPT !.stage = "api"]),
                     [NoAsk EXCEPT !.op = "quote", !.id = flight.id])

\* "May have moved" holds until Reset: no quote lands over it.
heldUntilReset_Never(intent) == FALSE     \* mutant: it does not hold
heldUntilReset(intent) == intent.status = "failed" /\ intent.mayHaveMoved

\* An executable deposit route proves the wallet to the worker first.  (The
\* code's silent-without-a-wallet return needs an executable quote with no
\* wallet, which quoteAccessDecision never answers.)
startQuote(m, opts) ==
    LET access == quoteAccessDecision(m.ctx.address # None, m.ctx.trade, opts.ref # 0)
        flight == [id |-> nextId(m), stage |-> "session", amount |-> opts.amount,
                   silent |-> opts.silent, ref |-> opts.ref, ctx |-> m.ctx,
                   preview |-> access = "preview"]
    IN  IF heldUntilReset(m.intent) \/ access = "needs_wallet" THEN endAllocation(m, opts.ref, FALSE)
        ELSE IF access = "executable" /\ m.ctx.trade.deposit
        THEN perform(putFlight(m, flight), [NoAsk EXCEPT !.op = "session", !.id = flight.id])
        ELSE sendQuote(m, flight)

dropStaleFlight(m, flight) == withoutFlight(endAllocation(m, flight.ref, FALSE), flight.id)

\* A failed allocation leaves the indicative price on screen, and never
\* reopens a trade that has ended.
allocationFailed(m) ==
    IF m.intent.status \in ALLOCATABLE_STATES
    THEN patch(m, [m.intent EXCEPT !.status = "quoted"]) ELSE m

\* The session or the request failed: applied only when somebody is looking.
quoteFailed(m, flight) ==
    LET next == endAllocation(m, flight.ref, FALSE)
    IN  IF flight.silent THEN next
        ELSE IF flight.ref # 0 THEN allocationFailed(next)
        ELSE patch(next, [m.intent EXCEPT !.status = "failed", !.quote = NoQuote])

onSession(m, id, result) ==
    LET found == {f \in m.flights : f.id = id /\ f.stage = "session"}
        flight == CHOOSE f \in found : TRUE
    IN  IF found = {} THEN m
        ELSE IF m.intent.status \in QUOTE_BUSY_STATES THEN dropStaleFlight(m, flight)
        ELSE IF result = "ok" THEN sendQuote(m, flight)
        ELSE quoteFailed(withoutFlight(m, id), flight)

refuseQuote(m, flight, quote) ==
    LET next == endAllocation(m, flight.ref, FALSE)
    IN  IF flight.silent THEN next
        ELSE transition(next, "failed", [m.intent EXCEPT !.quote = quote])

(***************************************************************************)
(* The gates on a served quote, in the code's order.  A reply says whether *)
(* the server answered success, and with which quote; `genuine` is the     *)
(* verdict of the checks on its contents (recipient echo, claim info,      *)
(* destination token), `matches` that of checkSignableQuote on the intent  *)
(* it asks to sign, `attested` that of the deposit attestation.            *)
(***************************************************************************)
quoteRefusal(reply, flight) ==
    LET q == reply.quote
    IN  \/ ~reply.success
        \/ ~q.canSolve
        \/ q.preview # flight.preview
        \/ ~reply.genuine
        \/ q.preview /\ q.address # None
        \/ ~q.preview /\ flight.ctx.trade.deposit # (q.address # None)
        \/ q.address = None /\ q.eip712 /\ ~reply.matches

\* A deposit address already attested for another intent this session.
addressReuse_Unchecked(m, q) == FALSE     \* mutant: reuse is not noticed
addressReuse(m, q) ==
    \E pair \in m.seenDepositAddresses : pair[1] = q.address /\ pair[2] # q.intent

acceptQuote(m, flight, q, now) ==
    LET accepted == [m.intent EXCEPT
                        !.intentId = q.intent, !.quote = q,
                        !.quotedAddress = IF q.preview THEN None ELSE flight.ctx.address,
                        !.quotedChainId = flight.ctx.chainId,
                        !.quotedFromAmount = flight.amount,
                        !.depositDeadline = IF q.address # None THEN q.depositDeadline
                                            ELSE Never]
        fresh == [accepted EXCEPT !.pollExhausted = FALSE]
        landed == \/ m.intent.status = "quoted"
                  \/ ~flight.silent /\ canTransitionTo(m.intent.status, "quoted")
        next == IF flight.silent THEN patch(m, accepted)
                ELSE IF m.intent.status = "quoted" THEN patch(m, fresh)
                ELSE transition(m, "quoted", fresh)
        traded == IF landed THEN [next EXCEPT !.quotedTrade = tradeKey(flight.ctx)] ELSE next
        planned == IF q.expiry - QUOTE_REFRESH_BUFFER > now
                   THEN [setTimer(traded, "refresh", q.expiry - QUOTE_REFRESH_BUFFER)
                         EXCEPT !.refresh = [on |-> TRUE, amount |-> flight.amount,
                                             hasAllocatedDeposit |-> q.address # None]]
                   ELSE traded
    IN  IF flight.silent /\ m.intent.status # "quoted" THEN m
        ELSE endAllocation(planned, flight.ref, TRUE)

onQuote(model, id, reply, now) ==
    LET found == {f \in model.flights : f.id = id /\ f.stage = "api"}
        flight == CHOOSE f \in found : TRUE
        m == withoutFlight(model, id)
        q == reply.quote
        seen == [m EXCEPT !.seenDepositAddresses = @ \cup {<<q.address, q.intent>>}]
    IN  IF found = {} THEN model
        ELSE IF model.intent.status \in QUOTE_BUSY_STATES \cup ENDED_STATES
        THEN dropStaleFlight(model, flight)
        ELSE IF reply.threw THEN quoteFailed(m, flight)
        ELSE IF quoteRefusal(reply, flight)
        THEN refuseQuote(m, flight, IF reply.success /\ ~q.canSolve THEN q ELSE NoQuote)
        ELSE IF q.address = None THEN acceptQuote(m, flight, q, now)
        ELSE IF ~reply.attested \/ addressReuse(m, q) THEN refuseQuote(m, flight, NoQuote)
        ELSE acceptQuote(seen, flight, q, now)

-----------------------------------------------------------------------------
(* Sign and execute. *)

tickExpiry(m, now) ==
    IF m.intent.quote.held /\ now >= m.intent.quote.expiry
    THEN transition(m, "expired", m.intent) ELSE m

\* Ask the wallet for a signature, for a bounded time.
openPrompt_Unbounded(m, a) == perform(m, a)     \* mutant: the timer is forgotten
openPrompt(m, a) == setTimer(perform(m, a), "signPrompt", AtOnce)

\* Enough of the attested window is left to reveal the deposit address.
windowOpen_Unchecked(deadline, now) == deadline # Never     \* mutant
windowOpen(deadline, now) == deadline # Never /\ deadline - now >= DEPOSIT_MIN_WINDOW

\* Confirm.
beginSign(m, now) ==
    LET q == m.intent.quote
        preflight == decideSignPreflight(m.ctx, m.intent, now)
        id == nextId(m)
        signing == transition(m, "signing", m.intent)
    IN  IF ~canSignQuote(m.intent.status, q) \/ ~holdsCurrentQuote(m) THEN m
        ELSE IF q.address # None
        THEN transition(m, IF windowOpen(m.intent.depositDeadline, now)
                           THEN "awaiting_deposit" ELSE "expired", m.intent)
        ELSE IF ~q.eip712 \/ preflight = "quoted" THEN m
        ELSE IF preflight = "expired" THEN transition(m, "expired", m.intent)
        ELSE IF ~q.payoutOk THEN m
        ELSE [openPrompt(signing, [NoAsk EXCEPT !.op = "signIntent", !.id = id,
                                                !.intentId = q.intent])
              EXCEPT !.sign = [NoSign EXCEPT !.stage = "intent", !.id = id]]

\* The origin pull: the solver pin first, then the token approval.
completePull(m, flow) ==
    LET q == m.intent.quote
    IN  IF q.pull = "none" \/ ~q.eip712 THEN endSignFlow(m, flow)
        ELSE IF q.pull # "pinned"
        THEN transition([m EXCEPT !.sign = flow], "quoted", m.intent)
        ELSE [perform(m, [NoAsk EXCEPT !.op = "approval", !.id = flow.id])
              EXCEPT !.sign = [flow EXCEPT !.stage = "approval"]]

\* The "Sign 2 of 2" tap.
beginPullSign(m, now) ==
    LET flow == [NoSign EXCEPT !.stage = "approval", !.id = nextId(m),
                               !.origin = "pull", !.sig = m.pendingIntentSig]
    IN  IF \/ m.pendingIntentSig = None \/ m.intent.quote.pull = "none"
           \/ m.isSigningPull \/ m.sign.stage # "none"
        THEN m
        ELSE IF decideSignPreflight(m.ctx, m.intent, now) # "proceed"
        THEN transition([m EXCEPT !.awaitingPull = FALSE], "quoted", m.intent)
        ELSE completePull([m EXCEPT !.isSigningPull = TRUE], flow)

\* A wallet step failed: "rejected", "timeout" (the signPrompt timer) or "error".
signFlowFailed(m, failure) ==
    LET flow == m.sign
        next == endSignFlow(clearTimer(m, "signPrompt"), flow)
    IN  IF flow.stage = "none" THEN m
        ELSE IF flow.origin = "sign"
        THEN transition(next, IF failure = "error" THEN "failed" ELSE "quoted", m.intent)
        ELSE IF failure = "rejected"
        THEN transition([next EXCEPT !.awaitingPull = FALSE], "quoted", m.intent)
        ELSE next

onApproval(m, id, result) ==
    LET flow == m.sign
    IN  IF flow.id # id \/ flow.stage # "approval" THEN m
        ELSE IF result \in {"rejected", "error"} THEN signFlowFailed(m, result)
        ELSE IF result = "declined" THEN transition(m, "quoted", m.intent)
        ELSE IF m.intent.quote.pull = "none" THEN endSignFlow(m, flow)
        ELSE [openPrompt(m, [NoAsk EXCEPT !.op = "signPull", !.id = flow.id,
                                          !.intentId = m.intent.quote.intent])
              EXCEPT !.sign = [flow EXCEPT !.stage = "pull"]]

\* Dispatch the collected signatures.
runExecute(m, flow, pullSig) ==
    LET staged == [m EXCEPT !.sign = [flow EXCEPT !.stage = "execute",
                                          !.request = m.intent.intentId,
                                          !.pullSig = pullSig,
                                          !.resends = 0, !.resendAt = Never]]
        executing == transition(staged, "executing", m.intent)
    IN  IF m.intent.status # "signing" THEN abandonSign(m)
        ELSE perform(executing, [NoAsk EXCEPT !.op = "execute", !.id = flow.id,
                                              !.intentId = m.intent.intentId,
                                              !.sig = flow.sig, !.pullSig = pullSig])

\* A signature, or its refusal.  `signed` is the intent the prompt was for.
onSigned(m, id, purpose, result, signed) ==
    LET flow == m.sign
        quiet == clearTimer(m, "signPrompt")
        signedFlow == [flow EXCEPT !.sig = signed]
        next == [quiet EXCEPT !.pendingIntentSig = signed]
    IN  IF flow.id # id \/ flow.stage # purpose THEN m
        ELSE IF m.intent.status # "signing" THEN abandonSign(m)
        ELSE IF result # "ok" THEN signFlowFailed(quiet, result)
        ELSE IF purpose = "pull"
        THEN runExecute([quiet EXCEPT !.awaitingPull = FALSE], flow, signed)
        ELSE IF m.intent.quote.pull = "none" THEN runExecute(next, signedFlow, None)
        ELSE IF m.ctx.stepwise THEN [next EXCEPT !.awaitingPull = TRUE, !.sign = NoSign]
        ELSE completePull(next, signedFlow)

\* Give up resending: the signed request stays executable, so "not sent yet".
stopResending_KeepsFlow(m, flow) ==     \* mutant: the flow is not ended
    patch(m, [m.intent EXCEPT !.notSent = TRUE])
stopResending_Retry(m, flow) ==     \* mutant: giving up offers Retry
    transition(endSignFlow(m, flow), "failed", m.intent)
stopResending(m, flow) ==
    LET ended == endSignFlow(m, flow) IN patch(ended, [m.intent EXCEPT !.notSent = TRUE])

\* The server proved it accepted nothing: wait and resend, or stop.
onNotAccepted(m, flow, retryAfter, now) ==
    LET quiet == [m EXCEPT !.pendingIntentSig = None]
        delay == decideExecuteResend(flow.resends, retryAfter,
                                     executeDeadline(m.intent.quote), now)
    IN  IF delay = Never THEN stopResending(quiet, flow)
        ELSE [setTimer(quiet, "execute", now + delay)
              EXCEPT !.sign = [flow EXCEPT !.resendAt = now + delay]]

resendExecute(m, now) ==
    LET flow == m.sign
        deadline == executeDeadline(m.intent.quote)
        id == nextId(m)
    IN  IF ~awaitingResend(m) \/ m.intent.status # "executing" THEN m
        ELSE IF deadline = Never \/ now > deadline - EXECUTE_RESEND_MARGIN
        THEN stopResending(m, flow)
        ELSE [perform(m, [NoAsk EXCEPT !.op = "execute", !.id = id, !.intentId = flow.request,
                                       !.sig = flow.sig, !.pullSig = flow.pullSig])
              EXCEPT !.sign = [flow EXCEPT !.id = id, !.resends = @ + 1, !.resendAt = Never]]

\* A poll tick or a returning tab does the work of an `execute` timer that is due.
resendBackstop(m, now) ==
    IF m.sign.resendAt = Never \/ now < m.sign.resendAt THEN m
    ELSE resendExecute(clearTimer(m, "execute"), now)

(***************************************************************************)
(* The execute answered.  kind "threw" stands for every answer that leaves *)
(* it in doubt: a thrown call, or a body that is not this intent's execute *)
(* response.                                                               *)
(***************************************************************************)
onExecuted(m, id, r, now) ==
    LET flow == m.sign
        refused == /\ r.kind = "notAccepted" /\ m.intent.intentId # None
                   /\ flow.request = m.intent.intentId
                   /\ m.intent.status = "executing" /\ ~m.intent.reconciling
        next == endSignFlow([m EXCEPT !.pendingIntentSig = None], flow)
        doubt == patch(next, [m.intent EXCEPT !.reconciling = TRUE])
        decision == decideExecuteResult(r)
        inDoubt == decision.reconciling \/ r.unmapped
        moved == transition(next, decision.status, [m.intent EXCEPT !.reconciling = inDoubt])
    IN  IF flow.id # id \/ flow.stage # "execute" \/ awaitingResend(m) THEN m
        ELSE IF refused THEN onNotAccepted(m, flow, r.retryAfter, now)
        ELSE IF r.kind # "response" THEN doubt
        ELSE IF /\ ~r.success /\ r.status = "quoted"
                /\ m.intent.status = "executing" /\ ~m.intent.reconciling
        THEN patch(next, [m.intent EXCEPT !.notSent = TRUE])
        ELSE IF decision.kind = "failed"
        THEN transition(next, "failed", [m.intent EXCEPT !.mayHaveMoved = decision.mayHaveMoved])
        ELSE IF inDoubt /\ ~canTransitionTo(m.intent.status, decision.status) THEN doubt
        ELSE moved

-----------------------------------------------------------------------------
(* Status. *)

\* The intent after an update read as `u`, when it is a move to u.status.
mapStatusUpdate_KeepsDoubt(intent, u) ==     \* mutant: news does not clear the doubt
    [intent EXCEPT !.mayHaveMoved = u.status = "failed" /\ failureMayHaveMoved(u.marker)]
mapStatusUpdate(intent, u) ==
    [intent EXCEPT !.reconciling = FALSE,
                   !.mayHaveMoved = IF u.status = "failed"
                                       /\ intent.status \in POLL_INFLIGHT_STATES
                                    THEN failureMayHaveMoved(u.marker) ELSE @]

\* One status update, from the poll or the stream.
applyStatusUpdate(m, u) ==
    LET next == IF u.status = m.intent.status THEN m
                ELSE transition(m, u.status, mapStatusUpdate(m.intent, u))
        doubted == IF u.unmapped /\ next.intent.status \in POLL_INFLIGHT_STATES
                   THEN patch(next, [next.intent EXCEPT !.reconciling = TRUE]) ELSE next
    IN  IF doubted.intent.notSent /\ u.status # "quoted"
        THEN patch(doubted, [doubted.intent EXCEPT !.notSent = FALSE, !.reconciling = TRUE])
        ELSE doubted

pollTick(m, elapsedInterval) ==
    LET p == m.poll
    IN  IF ~p.live THEN m
        ELSE [perform(m, [NoAsk EXCEPT !.op = "status", !.id = p.gen, !.intentId = p.intentId,
                                       !.attempt = p.polls + 1])
              EXCEPT !.poll = [p EXCEPT !.polls = @ + 1,
                                        !.spent = IF elapsedInterval THEN @ + 1 ELSE @]]

readsNotSent(m, attempt, r) ==
    /\ attempt >= m.poll.answered
    /\ r.kind = "data" /\ r.status = "quoted" /\ ~r.unmapped
    /\ m.intent.intentId = m.poll.intentId
    /\ m.intent.status = "executing" /\ m.sign.stage = "none" /\ ~m.intent.reconciling

escalatesToReconcile(m, attempt) ==
    /\ attempt >= RECONCILE_AFTER_ATTEMPTS
    /\ m.intent.intentId = m.poll.intentId
    /\ ~m.intent.reconciling /\ ~m.intent.notSent

sweptPastFinish(m, now) ==
    LET finish == unexecutedFinishAt(m.intent.quote)
    IN  /\ m.intent.notSent /\ m.intent.intentId = m.poll.intentId
        /\ finish # Never /\ now > finish

\* The ceiling is spent: stop, and say so.
exhaustPoll_Silent(m) ==     \* mutant: the stop is not surfaced
    [clearTimer(m, "poll") EXCEPT !.poll.stopped = TRUE]
exhaustPoll(m) ==
    [clearTimer(m, "poll") EXCEPT
        !.poll.stopped = TRUE,
        !.intent.pollExhausted = @ \/ m.intent.intentId = m.poll.intentId]

(***************************************************************************)
(* A status read answered.  kind "threw" is a thrown read, "null" a        *)
(* transient failure, "notFound" a 404, "foreign" data that names another  *)
(* intent, "data" the polled intent's row.                                 *)
(***************************************************************************)
onStatus(m, gen, attempt, r, now) ==
    LET p == m.poll
        ok == r.kind # "threw"
        unsentRead == readsNotSent(m, attempt, r)
        answered == [p EXCEPT !.answered = IF ok THEN Max({@, attempt}) ELSE @]
        unsent == IF unsentRead THEN patch(m, [m.intent EXCEPT !.notSent = TRUE]) ELSE m
        read == IF escalatesToReconcile(unsent, attempt)
                THEN patch(unsent, [unsent.intent EXCEPT !.reconciling = TRUE]) ELSE unsent
        swept == r.kind = "notFound" /\ sweptPastFinish(read, now)
        next == IF swept
                THEN transition(read, "failed", [read.intent EXCEPT !.reconciling = FALSE,
                                                                    !.mayHaveMoved = FALSE])
                ELSE IF r.kind = "data" THEN applyStatusUpdate(read, r)
                ELSE read
        resumedNotSent == unsentRead /\ next.intent.notSent /\ ~next.intent.quote.held
        stop == \/ swept /\ next.intent.status = "failed"
                \/ r.kind = "data" /\ r.terminal
        progress == /\ r.kind = "data"
                    /\ next.intent.status # read.intent.status \/ resumedNotSent
    IN  IF \/ ~p.live \/ p.gen # gen \/ p.stopped
           \/ ok /\ attempt < p.answered
           \/ r.kind = "foreign"
        THEN m
        ELSE IF stop
        THEN [clearTimer(next, "poll") EXCEPT !.poll = [answered EXCEPT !.stopped = TRUE]]
        ELSE IF progress THEN [next EXCEPT !.poll = [answered EXCEPT !.spent = 0]]
        ELSE IF p.spent < p.max THEN [next EXCEPT !.poll = answered]
        ELSE exhaustPoll([next EXCEPT !.poll = answered])

-----------------------------------------------------------------------------
(* The reactive rules, run after every step until nothing changes. *)

watchWallet(m) ==
    LET key == [address |-> m.ctx.address, chainId |-> m.ctx.chainId,
                quotedAddress |-> m.intent.quotedAddress,
                quotedChainId |-> m.intent.quotedChainId]
        next == [m EXCEPT !.watched.wallet = key]
        accountChanged == m.ctx.address # m.intent.quotedAddress
        chainChanged == /\ m.intent.quotedChainId # None
                        /\ m.ctx.chainId # m.intent.quotedChainId
    IN  IF key = m.watched.wallet THEN m
        ELSE IF \/ m.intent.quotedAddress = None
                \/ ~accountChanged /\ ~chainChanged
                \/ m.intent.status \notin WALLET_INTERRUPTIBLE_STATES
                \/ m.intent.mayHaveMoved
        THEN next
        ELSE [clearTimers(next, {"debounce", "refresh", "signPrompt"})
                EXCEPT !.intent = INITIAL_INTENT_STATE, !.refresh = NoRefresh,
                       !.awaitingPull = FALSE, !.isSigningPull = FALSE,
                       !.pendingIntentSig = None, !.sign = NoSign]

upgradePreview(m) ==
    LET key == [trade |-> tradeKey(m.ctx), amount |-> m.amount,
                preview |-> m.intent.quote.preview, status |-> m.intent.status]
        next == [m EXCEPT !.watched.upgrade = key]
    IN  IF key = m.watched.upgrade THEN m
        ELSE IF ~shouldUpgradePreviewQuote(m.ctx, m.amount, m.intent) THEN next
        ELSE startQuote(next, [quoteOpts(m.amount) EXCEPT !.silent = TRUE])

armExpiry(m, now) ==
    LET q == m.intent.quote
        key == IF m.intent.status = "quoted" /\ q.held /\ q.address = None
               THEN q.expiry ELSE Never
        next == [m EXCEPT !.watched.expiry = key,
                          !.timers["expiry"] = IF key = Never THEN Never ELSE AtOnce]
    IN  IF key = m.watched.expiry THEN m
        ELSE IF key = Never THEN next ELSE tickExpiry(next, now)

armPoll(m, now) ==
    LET i == m.intent
        waiting == awaitingResend(m)
        executePending == m.sign.stage = "execute" /\ ~waiting
        due == ~executePending /\ i.status \in POLL_INFLIGHT_STATES /\ i.intentId # None
        current == /\ m.poll.live
                   /\ m.poll.intentId = i.intentId
                   /\ m.poll.phase = i.status
                   /\ m.poll.resend = waiting
        poll == [NoPoll EXCEPT !.live = TRUE, !.intentId = i.intentId, !.phase = i.status,
                               !.resend = waiting, !.gen = nextId(m),
                               !.max = pollCeilingAttempts(i.status, i.depositDeadline, now,
                                                           unexecutedFinishAt(i.quote))]
        next == [setTimer(m, "poll", now + STATUS_POLL) EXCEPT !.poll = poll]
    IN  IF due = m.poll.live /\ (due => current) THEN m
        ELSE IF ~due THEN [clearTimer(m, "poll") EXCEPT !.poll = NoPoll]
        ELSE IF waiting THEN next ELSE pollTick(next, FALSE)

settlePass(m, now) == armPoll(armExpiry(upgradePreview(watchWallet(m)), now), now)

\* At most four passes, fewer once one changes nothing (a further pass over a
\* stable model would change nothing either).
settle(m, now) ==
    LET first == settlePass(m, now)
        second == settlePass(first, now)
    IN  IF second = first THEN first
        ELSE settlePass(settlePass(second, now), now)

-----------------------------------------------------------------------------
(* Messages from the host. *)

contextChanged(m, ctx) ==
    LET next == [m EXCEPT !.ctx = ctx]
        reasked == IF m.intent.status = "quoting" /\ m.amount # ""
                   THEN setTimer(next, "debounce", AtOnce) ELSE next
    IN  IF m.flights = {} \/ tradeKey(ctx) = tradeKey(m.ctx) THEN next
        ELSE supersedeFlights(reasked)

survivesClearedAmount(intent) ==
    heldUntilReset(intent) \/ intent.notSent

quoteRequested(m, amount) ==
    LET quiet == clearTimer(clearTimer(m, "debounce"), "refresh")
        kept == IF amount = m.amount THEN quiet ELSE supersedeFlights(quiet)
        next == [kept EXCEPT !.amount = amount, !.refresh = NoRefresh]
    IN  IF amount \notin {"", "0"} THEN setTimer(next, "debounce", AtOnce)
        ELSE IF survivesClearedAmount(m.intent) THEN next
        ELSE abandonSign(patch(next, INITIAL_INTENT_STATE))

allocationRefused(m) ==
    \/ m.amount = "" \/ ~m.ctx.trade.deposit \/ m.ctx.address = None
    \/ m.intent.status \notin ALLOCATABLE_STATES

allocateRequested(m) ==
    LET ref == nextId(m)
    IN  IF allocationRefused(m) THEN [m EXCEPT !.event = "refused"]
        ELSE startQuote([m EXCEPT !.allocs = @ \cup {ref}],
                        [quoteOpts(m.amount) EXCEPT !.ref = ref])

\* RefreshRequested, and the debounce timer.
refreshRequested(m) ==
    IF m.intent.status \in QUOTE_BUSY_STATES \/ m.amount = "" THEN m
    ELSE startQuote(m, quoteOpts(m.amount))

cancelSignRequested(m) ==
    IF m.intent.status # "signing" \/ m.sign.stage = "none" THEN m
    ELSE transition(abandonSign(m), "quoted", m.intent)

resetRequested(m) ==
    LET quiet == clearTimers(m, {"debounce", "refresh", "signPrompt"}
                                \cup (IF awaitingResend(m) THEN {"execute"} ELSE {}))
    IN  [supersedeFlights(quiet) EXCEPT
            !.intent = INITIAL_INTENT_STATE, !.amount = "",
            !.awaitingPull = FALSE, !.isSigningPull = FALSE, !.pendingIntentSig = None,
            !.refresh = NoRefresh, !.quotedTrade = None, !.sign = NoSign]

canAdoptResumedIntent(intent) == intent.status = "idle" /\ intent.intentId = None

resumeRequested(m, stored) ==
    LET resumed == [INITIAL_INTENT_STATE EXCEPT
                       !.intentId = stored.intentId, !.status = stored.status,
                       !.quotedAddress = stored.owner,
                       !.depositDeadline = stored.depositDeadline,
                       !.mayHaveMoved = /\ stored.status = "failed"
                                        /\ failureMayHaveMoved(stored.marker)]
    IN  IF ~canAdoptResumedIntent(m.intent) THEN m
        ELSE supersedeFlights(patch(clearTimer(m, "debounce"), resumed))

\* A returning user gets a fresh budget: the rules below arm a new poll.
restartPoll_KeepsStopped(m) ==     \* mutant: the old poll is kept
    patch(m, [m.intent EXCEPT !.pollExhausted = FALSE])
restartPoll(m) ==
    [patch(m, [m.intent EXCEPT !.pollExhausted = FALSE]) EXCEPT !.poll = NoPoll]

visibilityChanged(m, hidden, now) ==
    LET seen == [m EXCEPT !.hidden = hidden]
        stale == /\ m.amount # ""
                 /\ shouldRefreshOnReturn(m.intent.status, m.ctx.paused,
                                          m.intent.quote.address # None)
        next == IF stale THEN startQuote(seen, quoteOpts(m.amount)) ELSE seen
    IN  IF hidden THEN seen
        ELSE IF awaitingResend(next) THEN resendBackstop(next, now)
        ELSE IF next.poll.live /\ next.poll.stopped THEN restartPoll(next)
        ELSE pollTick(next, FALSE)

streamStatus(m, intentId, u) ==
    IF intentId # m.intent.intentId THEN m ELSE applyStatusUpdate(m, u)

\* The host has already disarmed a one-shot timer that fires.
onTimer(m, timer, now) ==
    LET plan == m.refresh
        next == [m EXCEPT !.refresh = NoRefresh]
    IN  CASE timer = "debounce" -> refreshRequested(m)
          [] timer = "refresh" ->
               IF ~plan.on THEN m
               ELSE IF ~shouldRefreshQuote(m.intent.status, m.hidden, plan.hasAllocatedDeposit)
               THEN next
               ELSE startQuote(next, [quoteOpts(plan.amount) EXCEPT !.silent = m.ctx.paused])
          [] timer = "expiry" -> tickExpiry(m, now)
          [] timer = "poll" ->
               IF awaitingResend(m) THEN resendBackstop(m, now)
               ELSE IF m.poll.live /\ ~m.poll.stopped THEN pollTick(m, TRUE) ELSE m
          [] timer = "signPrompt" -> signFlowFailed(m, "timeout")
          [] timer = "execute" -> resendExecute(m, now)
=============================================================================
