---------------------------- MODULE TradeSystem ----------------------------
(***************************************************************************)
(* The trade machine in its host: one update per message, with the wallet, *)
(* the clock, the timers and the Worker the messages come from.  The       *)
(* Worker is not part of this repository; its rows and answers are modelled *)
(* from how machine.ts, schemas.ts and the client README rely on them.     *)
(***************************************************************************)
EXTENDS TradeMachine

CONSTANTS
    Intents,          \* the intent ids the Worker can issue
    Wallets,          \* accounts the wallet can be connected with
    Chains,           \* chains the wallet can report
    Addresses,        \* deposit addresses the server can serve
    Contexts,         \* the forms and wallets the host can report
    Amounts,          \* amounts the panel can ask to quote
    Shapes,           \* the kinds of quote the server can serve
    Host,             \* which host messages this instance sends
    Faults,           \* which failures of a call this instance injects
    Outcomes,         \* the row states a claimed or funded order can move through
    RetryAfters,      \* how far ahead a not-accepted refusal asks to wait
    CLAIM_SKEW,       \* how late the database clock may accept a claim
    MaxNow,           \* bound: the clock
    MaxQuoteAt,       \* bound: the last time a quote is served
    MaxAsks,          \* bound: calls unanswered at once
    MaxPolls          \* bound: reads of one poll arming

-----------------------------------------------------------------------------
(* Types. *)

Times == Int
OrNone(S) == S \cup {None}
AmountField == Amounts \cup {"", "0"}

\* The states of the Worker's row of an order, and those in which funds may
\* have moved.
Moved == {"executing", "bridging", "settling", "completed", "refunded", "failed"}
RowState == Moved \cup {"none", "quoted", "claimed", "awaiting", "not_executed",
                        "expired", "gone"}

Trade == [name : STRING, deposit : BOOLEAN, settlement : {"public", "stealth"},
          keys : BOOLEAN, valid : BOOLEAN, fromChainId : Chains]
Context == [trade : Trade, address : OrNone(Wallets), chainId : OrNone(Chains),
            stepwise : BOOLEAN, paused : BOOLEAN]
TradeKey == [trade : Trade, address : OrNone(Wallets), chainId : OrNone(Chains)]

Quote == [held : BOOLEAN, intent : OrNone(Intents), canSolve : BOOLEAN, preview : BOOLEAN,
          address : OrNone(Addresses), eip712 : BOOLEAN, pull : {"none", "pinned", "unpinned"},
          payoutOk : BOOLEAN, expiry : Times, deadline : Times, pullBefore : Times,
          depositDeadline : Times]
Intent == [status : IntentStatus, intentId : OrNone(Intents), quote : Quote,
           quotedAddress : OrNone(Wallets), quotedChainId : OrNone(Chains),
           quotedFromAmount : OrNone(AmountField), depositDeadline : Times,
           reconciling : BOOLEAN, pollExhausted : BOOLEAN, mayHaveMoved : BOOLEAN,
           notSent : BOOLEAN]
Flight == [id : Nat, stage : {"session", "api"}, amount : AmountField, silent : BOOLEAN,
           ref : Nat, ctx : Context, preview : BOOLEAN]
SignFlow == [stage : {"none", "intent", "approval", "pull", "execute"}, id : Nat,
             origin : {"sign", "pull"}, sig : OrNone(Intents), pullSig : OrNone(Intents),
             request : OrNone(Intents), resends : Nat, resendAt : Times]
PollState == [live : BOOLEAN, intentId : OrNone(Intents), phase : IntentStatus,
              resend : BOOLEAN, gen : Nat, polls : Nat, answered : Nat, spent : Nat,
              max : Times, stopped : BOOLEAN]
Ask == [op : {"session", "quote", "signIntent", "signPull", "approval", "execute", "status"},
        id : Nat, intentId : OrNone(Intents), sig : OrNone(Intents),
        pullSig : OrNone(Intents), attempt : Nat, read : RowState \cup {"unread"}]

Model == [ctx : Context, hidden : BOOLEAN, intent : Intent, amount : AmountField,
          awaitingPull : BOOLEAN, isSigningPull : BOOLEAN,
          pendingIntentSig : OrNone(Intents),
          flights : SUBSET Flight, sign : SignFlow, poll : PollState,
          refresh : [on : BOOLEAN, amount : AmountField, hasAllocatedDeposit : BOOLEAN],
          quotedTrade : OrNone(TradeKey),
          seenDepositAddresses : SUBSET (Addresses \X OrNone(Intents)),
          watched : [wallet : OrNone([address : OrNone(Wallets), chainId : OrNone(Chains),
                                      quotedAddress : OrNone(Wallets),
                                      quotedChainId : OrNone(Chains)]),
                     upgrade : OrNone([trade : TradeKey, amount : AmountField,
                                       preview : BOOLEAN, status : IntentStatus]),
                     expiry : Times],
          timers : [TimerName -> Times], asks : SUBSET Ask, allocs : SUBSET Nat,
          event : {"none", "allocated", "refused"}]

\* A kind of quote the server can serve, and the verdicts of the checks on it.
Shape == [success : BOOLEAN, canSolve : BOOLEAN, preview : BOOLEAN,
          address : OrNone(Addresses), eip712 : BOOLEAN,
          pull : {"none", "pinned", "unpinned"}, payoutOk : BOOLEAN,
          genuine : BOOLEAN, matches : BOOLEAN, attested : BOOLEAN,
          ttl : Nat, slack : Nat]

ASSUME SystemConstants ==
    /\ CLAIM_SKEW \in Nat /\ CLAIM_SKEW <= QUOTED_EXPIRY_GRACE
    /\ MaxNow \in Nat /\ MaxQuoteAt \in Nat /\ MaxAsks \in Nat /\ MaxPolls \in Nat
    /\ None \notin Intents \cup Wallets \cup Amounts
    /\ Contexts \subseteq Context
    /\ Shapes \subseteq Shape
    /\ Outcomes \subseteq RowState
    /\ RetryAfters \subseteq Nat

\* An emptied field is AmountCleared, never a quote request.
ASSUME AmountsFilled == Amounts \cap {"", "0"} = {}

VARIABLES
    m,            \* the model, with the host's timers and unanswered calls
    now,          \* the clock every message is stamped with
    rows,         \* the Worker's row of each intent
    dispatched,   \* intents an execute was sent for, or a deposit address shown
    released      \* intents the user gave up with Reset, or by clearing the amount

vars == <<m, now, rows, dispatched, released>>

-----------------------------------------------------------------------------
(***************************************************************************)
(* A row: "quoted" until an execute claims it; "claimed" may be undone     *)
(* (quoted again) or ended unexecuted; "executing" and after, funds may    *)
(* have moved.  A deposit route waits in "awaiting".                       *)
(***************************************************************************)
RowEdges ==
    [claimed   |-> {"quoted", "executing", "not_executed"},
     awaiting  |-> {"executing", "expired"},
     executing |-> {"bridging", "settling", "completed", "refunded", "failed"},
     bridging  |-> {"settling", "completed", "refunded", "failed"},
     settling  |-> {"completed", "refunded", "failed"}]

claimable(i) == rows[i].st = "quoted" /\ now <= rows[i].deadline + CLAIM_SKEW

\* The wire status a row reads as.
readRow(st) ==
    [kind |-> "data",
     status |-> CASE st = "not_executed" -> "failed" [] st = "claimed" -> "executing"
                  [] st = "awaiting" -> "awaiting_deposit" [] OTHER -> st,
     marker |-> st = "not_executed",
     unmapped |-> FALSE,
     terminal |-> st \in {"completed", "refunded", "failed", "not_executed", "expired"}]

NoRow == [st |-> "none", deadline |-> 0]

Init ==
    /\ \E c \in Contexts : m = settle(init(c), 0)
    /\ now = 0
    /\ rows = [i \in Intents |-> NoRow]
    /\ dispatched = {}
    /\ released = {}

-----------------------------------------------------------------------------
(* One update: the handler, then the reactive rules. *)

fresh == [m EXCEPT !.event = "none"]
answered(a) == [fresh EXCEPT !.asks = @ \ {a}]

update(next) ==
    /\ m' = settle(next, now)
    /\ dispatched' = dispatched \cup {i \in Intents :
                         \/ \E a \in m'.asks : a.op = "execute" /\ a.intentId = i
                         \/ m'.intent.status = "awaiting_deposit" /\ m'.intent.intentId = i}
    /\ Cardinality(m'.asks) <= MaxAsks
    /\ m'.poll.polls <= MaxPolls
    /\ now' = now

ContextChanged ==
    /\ "context" \in Host
    /\ \E c \in Contexts : c # m.ctx /\ update(contextChanged(fresh, c))
    /\ UNCHANGED <<rows, released>>

QuoteRequested ==
    /\ "quote" \in Host
    /\ \E amount \in Amounts : update(quoteRequested(fresh, amount))
    /\ UNCHANGED <<rows, released>>

\* The amount field emptied: the only quote request that can drop an intent.
AmountCleared ==
    /\ "clear" \in Host
    /\ \E amount \in {"", "0"} : update(quoteRequested(fresh, amount))
    /\ released' = IF m'.intent.intentId = m.intent.intentId THEN released
                   ELSE released \cup {m.intent.intentId}
    /\ UNCHANGED rows

AllocateRequested ==
    /\ "allocate" \in Host
    /\ update(allocateRequested(fresh))
    /\ UNCHANGED <<rows, released>>

RefreshRequested ==
    /\ "refresh" \in Host
    /\ update(refreshRequested(fresh))
    /\ UNCHANGED <<rows, released>>

SignRequested ==
    /\ "sign" \in Host
    /\ update(beginSign(fresh, now))
    /\ UNCHANGED <<rows, released>>

PullSignRequested ==
    /\ "sign" \in Host
    /\ update(beginPullSign(fresh, now))
    /\ UNCHANGED <<rows, released>>

CancelSignRequested ==
    /\ "cancel" \in Host
    /\ update(cancelSignRequested(fresh))
    /\ UNCHANGED <<rows, released>>

ResetRequested ==
    /\ "reset" \in Host
    /\ update(resetRequested(fresh))
    /\ released' = released \cup ({m.intent.intentId} \ {None})
    /\ UNCHANGED rows

\* The host adopts an intent of an earlier page from its stored record.
ResumeRequested ==
    /\ "resume" \in Host
    /\ \E i \in dispatched, owner \in Wallets :
         LET st == rows[i].st
         IN  update(resumeRequested(fresh,
                 [intentId |-> i, owner |-> owner, depositDeadline |-> Never,
                  marker |-> st = "not_executed",
                  status |-> IF st \in {"none", "quoted", "gone"} THEN "executing"
                             ELSE readRow(st).status]))
    /\ released' = released \ {m'.intent.intentId}
    /\ UNCHANGED rows

VisibilityChanged ==
    /\ "visibility" \in Host
    /\ update(visibilityChanged(fresh, ~m.hidden, now))
    /\ UNCHANGED <<rows, released>>

\* mapStatusFrame passes in-flight frames only; a frame may arrive late.
StreamStatus ==
    /\ "stream" \in Host
    /\ \E i \in Intents, st \in RowState :
         /\ st = rows[i].st \/ (st = "executing" /\ rows[i].st \in Moved)
         /\ readRow(st).status \in POLL_INFLIGHT_STATES
         /\ update(streamStatus(fresh, i, readRow(st)))
    /\ UNCHANGED <<rows, released>>

\* A timer fires no earlier than it is due; the host re-arms a repeating one.
TimerFired(t) ==
    /\ armed(m, t) /\ now >= m.timers[t]
    /\ LET again == CASE t = "poll" -> now + STATUS_POLL [] t = "expiry" -> AtOnce [] OTHER -> Never
       IN  update(onTimer(setTimer(fresh, t, again), t, now))
    /\ UNCHANGED <<rows, released>>

-----------------------------------------------------------------------------
(* Answers from the wallet and the server. *)

\* Ids the Worker has given out and something still refers to.
idsInUse == dispatched \cup {m.intent.intentId} \cup {a.intentId : a \in m.asks}
            \cup {pair[2] : pair \in m.seenDepositAddresses}

\* The quote the server serves under intent i: a shape, with its times from now.
serve(shape, i) ==
    [held |-> TRUE, intent |-> i, canSolve |-> shape.canSolve, preview |-> shape.preview,
     address |-> shape.address, eip712 |-> shape.eip712, pull |-> shape.pull,
     payoutOk |-> shape.payoutOk, expiry |-> now + shape.ttl,
     deadline |-> now + shape.ttl + shape.slack, pullBefore |-> now + shape.ttl + shape.slack,
     depositDeadline |-> now + shape.ttl + shape.slack]

QuoteThrew(a) ==
    /\ "quote" \in Faults
    /\ update(onQuote(answered(a), a.id, [threw |-> TRUE, quote |-> NoQuote], now))
    /\ UNCHANGED <<rows, released>>

QuoteServed(a) ==
    \E shape \in Shapes :
        LET unused == IF shape.preview THEN {None} ELSE Intents \ idsInUse
            i == CHOOSE j \in unused : TRUE
            q == serve(shape, i)
            row == [st |-> IF q.address # None THEN "awaiting" ELSE "quoted",
                    deadline |-> q.deadline]
        IN  /\ unused # {} /\ now <= MaxQuoteAt
            /\ update(onQuote(answered(a), a.id,
                              [threw |-> FALSE, success |-> shape.success, quote |-> q,
                               genuine |-> shape.genuine, matches |-> shape.matches,
                               attested |-> shape.attested], now))
            /\ rows' = IF i # None /\ m'.intent.intentId = i
                       THEN [rows EXCEPT ![i] = row] ELSE rows
            /\ UNCHANGED released

QuoteReplied == \E a \in m.asks : a.op = "quote" /\ (QuoteThrew(a) \/ QuoteServed(a))

SessionReplied ==
    /\ \E a \in m.asks, result \in {"ok"} \cup ({"refused"} \cap Faults) :
         a.op = "session" /\ update(onSession(answered(a), a.id, result))
    /\ UNCHANGED <<rows, released>>

SignReplied ==
    /\ \E a \in m.asks, result \in {"ok"} \cup ({"rejected", "error"} \cap Faults) :
         \/ a.op = "signIntent" /\ update(onSigned(answered(a), a.id, "intent", result, a.intentId))
         \/ a.op = "signPull" /\ update(onSigned(answered(a), a.id, "pull", result, a.intentId))
    /\ UNCHANGED <<rows, released>>

ApprovalReplied ==
    /\ \E a \in m.asks, result \in {"approved"} \cup ({"declined", "rejected", "error"} \cap Faults) :
         a.op = "approval" /\ update(onApproval(answered(a), a.id, result))
    /\ UNCHANGED <<rows, released>>

(***************************************************************************)
(* The Worker answers an execute or a read from the row as it finds it;    *)
(* the answer travels, so the row may have moved on when it arrives.  A    *)
(* read that finds a row unexecuted past its finish ends it.               *)
(***************************************************************************)
WorkerAnswers ==
    /\ \E a \in m.asks :
         LET row == rows[a.intentId]
             finished == /\ a.op = "status" /\ row.st = "quoted"
                         /\ now > row.deadline + QUOTED_EXPIRY_GRACE
             st == IF finished THEN "not_executed" ELSE row.st
         IN  /\ a.op \in {"execute", "status"} /\ a.read = "unread" /\ a.intentId \in Intents
             /\ m' = [m EXCEPT !.asks = (@ \ {a}) \cup {[a EXCEPT !.read = st]}]
             /\ rows' = [rows EXCEPT ![a.intentId].st = st]
    /\ UNCHANGED <<now, dispatched, released>>

response(status, success, reconciling, marker, unmapped) ==
    [kind |-> "response", status |-> status, success |-> success,
     reconciling |-> reconciling, marker |-> marker, unmapped |-> unmapped]

\* The answers an execute can get when the Worker found the row in state st.
executeAnswers(st) ==
    CASE st = "quoted" -> {[kind |-> "notAccepted", retryAfter |-> now + d] : d \in RetryAfters}
                          \cup {[kind |-> "notAccepted", retryAfter |-> Never],
                                response("quoted", FALSE, TRUE, FALSE, FALSE)}
      [] st \in {"claimed", "executing"} ->
                          {response("executing", TRUE, FALSE, FALSE, FALSE),
                           response("failed", FALSE, TRUE, FALSE, FALSE)}
                          \cup IF "unmapped" \in Faults
                               THEN {response("executing", TRUE, FALSE, FALSE, TRUE)} ELSE {}
      [] st \in {"bridging", "settling", "completed", "refunded"} ->
                          {response(st, TRUE, FALSE, FALSE, FALSE)}
      [] st \in {"failed", "not_executed"} ->
                          {response("failed", FALSE, FALSE, st = "not_executed", FALSE)}
      [] OTHER -> {}

ExecuteReplied ==
    /\ \E a \in m.asks :
         /\ a.op = "execute"
         /\ \E r \in executeAnswers(a.read) \cup {x \in {[kind |-> "threw"]} : "execute" \in Faults} :
              update(onExecuted(answered(a), a.id, r, now))
    /\ UNCHANGED <<rows, released>>

\* The answers a read can get when the Worker found the row in state st.
statusAnswers(st) ==
    {r \in {[kind |-> "threw"], [kind |-> "null"], [kind |-> "foreign"]} : r.kind \in Faults}
    \cup (IF st = "gone" \/ "404" \in Faults THEN {[kind |-> "notFound"]} ELSE {})
    \cup (IF st \in {"unread", "none", "gone"} THEN {} ELSE {readRow(st)})
    \cup (IF "unmapped" \in Faults /\ st \in {"executing", "bridging", "settling"}
          THEN {[readRow(st) EXCEPT !.status = "executing", !.unmapped = TRUE]} ELSE {})

StatusReplied ==
    /\ \E a \in m.asks :
         /\ a.op = "status"
         /\ \E r \in statusAnswers(a.read) :
              update(onStatus(answered(a), a.id, a.attempt, r, now))
    /\ UNCHANGED <<rows, released>>

-----------------------------------------------------------------------------
(* The Worker and the clock on their own. *)

\* A signed request can be claimed until its deadline by anyone holding it.
WorkerClaims ==
    /\ \E i \in dispatched : claimable(i) /\ rows' = [rows EXCEPT ![i].st = "claimed"]
    /\ UNCHANGED <<m, now, dispatched, released>>

WorkerMoves ==
    /\ \E i \in dispatched :
         /\ rows[i].st \in DOMAIN RowEdges
         /\ \E st \in RowEdges[rows[i].st] \cap Outcomes : rows' = [rows EXCEPT ![i].st = st]
    /\ UNCHANGED <<m, now, dispatched, released>>

\* The quote sweep deletes a row nothing executed.
WorkerSweeps ==
    /\ \E i \in dispatched :
         rows[i].st = "quoted" /\ now > rows[i].deadline /\ rows' = [rows EXCEPT ![i].st = "gone"]
    /\ UNCHANGED <<m, now, dispatched, released>>

Tick ==
    /\ now < MaxNow
    /\ now' = now + 1
    /\ UNCHANGED <<m, rows, dispatched, released>>

HostMessage ==
    \/ ContextChanged \/ QuoteRequested \/ AmountCleared \/ AllocateRequested
    \/ RefreshRequested \/ SignRequested \/ PullSignRequested \/ CancelSignRequested
    \/ ResetRequested \/ ResumeRequested \/ VisibilityChanged \/ StreamStatus

Reply ==
    \/ QuoteReplied \/ SessionReplied \/ SignReplied \/ ApprovalReplied
    \/ ExecuteReplied \/ StatusReplied

Worker == WorkerAnswers \/ WorkerClaims \/ WorkerMoves \/ WorkerSweeps

Next == HostMessage \/ Reply \/ Worker \/ Tick \/ \E t \in TimerName : TimerFired(t)

Spec == Init /\ [][Next]_vars

(***************************************************************************)
(* Fairness.  The host runs the timers it armed, and a call to the server  *)
(* ends (an answer, or the caller's own timeout, which arrives as "threw"). *)
(* Nothing is assumed of the user, the wallet or the Worker's rows.  The   *)
(* clock is bounded, so it waits for the work of each unit: an open        *)
(* ceremony, an execute not yet answered, a resend or a poll that is due.  *)
(***************************************************************************)
WorkDone ==
    /\ m.intent.status # "signing"
    /\ \A t \in {"poll", "execute"} : armed(m, t) => m.timers[t] > now
    /\ \A a \in m.asks : a.op # "execute"

TimelyTick == WorkDone /\ Tick

\* Each condition implies that its action is enabled (a thrown call is always
\* a possible answer, and the bounds leave room).
TimerDue(t) == armed(m, t) /\ now >= m.timers[t]
Room == Cardinality(m.asks) < MaxAsks /\ m.poll.polls < MaxPolls

Unanswered(op) == \E a \in m.asks : a.op = op

Fairness ==
    /\ WF_vars(TimelyTick)
    /\ <>[]Unanswered("execute") => []<><<ExecuteReplied>>_vars
    /\ <>[]Unanswered("status") => []<><<StatusReplied>>_vars
    /\ <>[](TimerDue("poll") /\ Room) => []<><<TimerFired("poll")>>_vars
    /\ <>[](TimerDue("execute") /\ Room) => []<><<TimerFired("execute")>>_vars
    /\ <>[]TimerDue("signPrompt") => []<><<TimerFired("signPrompt")>>_vars

TimelyNext ==
    HostMessage \/ Reply \/ Worker \/ TimelyTick \/ \E t \in TimerName : TimerFired(t)

FairSpec == Init /\ [][TimelyNext]_vars /\ Fairness

-----------------------------------------------------------------------------
\* Every variable stays in its type.
TypeOK ==
    /\ m \in Model
    /\ now \in Nat
    /\ rows \in [Intents -> [st : RowState, deadline : Times]]
    /\ dispatched \subseteq Intents
    /\ released \subseteq OrNone(Intents)

-----------------------------------------------------------------------------
(* Safety. *)

busy == m.intent.status \in QUOTE_BUSY_STATES

\* The sign flow, the status, the held signature and the prompt and resend
\* timers tell one story: a prompt is open only while signing, an execute is
\* out only while executing, the wait for the second tap never overlaps the
\* first prompt, nothing signed outlives the ceremony or is held for a resend
\* (which carries its own request), and no timer of a ceremony outlives it.
CeremonyConsistent ==
    /\ m.sign.stage \in {"intent", "approval", "pull"} => m.intent.status = "signing"
    /\ m.sign.stage = "execute" => m.intent.status = "executing"
    /\ m.awaitingPull => m.intent.status = "signing" /\ m.sign.stage # "intent"
    /\ m.pendingIntentSig # None =>
          m.intent.status = "signing" \/ (m.sign.stage = "execute" /\ ~awaitingResend(m))
    /\ armed(m, "signPrompt") => m.sign.stage \in {"intent", "pull"}
    /\ armed(m, "execute") <=> awaitingResend(m)

\* "Not sent yet" is an executing order with no request of this client left to
\* answer, and "may have moved" is a failed order.
VerdictsConsistent ==
    /\ m.intent.notSent => m.intent.status = "executing" /\ m.sign.stage = "none"
    /\ m.intent.mayHaveMoved => m.intent.status = "failed"

\* "Still confirming" is said of an order in flight only: every verdict clears
\* the doubt.
DoubtOnlyInFlight == m.intent.reconciling => m.intent.status \in POLL_INFLIGHT_STATES

\* No quote is in the air over a ceremony, an order in flight or an order that
\* may have moved, so no answer can replace or fail it.
NoFlightOverOrder == busy \/ m.intent.mayHaveMoved => m.flights = {}

\* Whatever the interleaving of prompts, edits and replies, an execute carries
\* signatures over the very intent it names.
SignedForDispatched ==
    \A a \in m.asks : a.op = "execute" =>
        a.intentId # None /\ a.sig = a.intentId /\ a.pullSig \in {None, a.intentId}

\* The wallet that holds an open ceremony is the one the quote was made for.
WalletHoldsCeremony ==
    m.intent.status = "signing" =>
        /\ m.ctx.address # None /\ m.ctx.address = m.intent.quotedAddress
        /\ m.intent.quotedChainId \in {None, m.ctx.chainId}

\* An order in flight whose execute has answered is being polled, or the user
\* is told that polling stopped.
NoSilentStop ==
    (m.intent.status \in POLL_INFLIGHT_STATES /\ m.sign.stage # "execute") =>
        /\ m.poll.live /\ m.poll.intentId = m.intent.intentId
        /\ armed(m, "poll") \/ m.intent.pollExhausted

\* An order can still move funds: claimed or under way, or claimable.
unsettled(i) == rows[i].st \in {"claimed", "executing", "bridging", "settling"} \/ claimable(i)

\* Unless the user gave one up, no two orders can both still move funds: a new
\* one is offered only once the last is settled or can no longer execute.
OneLiveOrder ==
    \A i, j \in dispatched \ released : unsettled(i) /\ unsettled(j) => i = j

\* An order in flight turns into the Retry view only if nothing moved and
\* nothing can move any more.
RetryOnlyIfNothingMoved ==
    [][(/\ m.intent.status \in POLL_INFLIGHT_STATES
        /\ m'.intent.intentId = m.intent.intentId
        /\ phaseFromStatus(m'.intent) = "failed")
       => ~unsettled(m.intent.intentId)' /\ rows'[m.intent.intentId].st \notin Moved]_vars

\* "May have moved" is left by Reset only.
MayHaveMovedHolds ==
    [][m.intent.mayHaveMoved /\ m'.intent # m.intent => ResetRequested]_vars

\* The poll of an executing order outlives the Worker's finish: giving up
\* before it would leave a not-sent order without its verdict.
PollOutlivesFinish ==
    (m.intent.status = "executing" /\ m.intent.pollExhausted /\ m.intent.quote.held)
        => now > unexecutedFinishAt(m.intent.quote)

\* A deposit address vouches for one intent of the session.
OneIntentPerAddress ==
    \A p, r \in m.seenDepositAddresses : p[1] = r[1] => p[2] = r[2]

\* A deposit address is shown only while enough of its window is left.
RevealedInWindow ==
    [][m.intent.status # "awaiting_deposit" /\ m'.intent.status = "awaiting_deposit"
       => m'.intent.depositDeadline - now >= DEPOSIT_MIN_WINDOW]_vars

\* Every allocation the host waits for belongs to a quote still in the air.
AllocationsAnswered == m.allocs = {f.ref : f \in m.flights} \ {0}

-----------------------------------------------------------------------------
(* Liveness, under FairSpec. *)

inFlight == m.intent.status \in POLL_INFLIGHT_STATES

\* An order in flight reaches an end, or the user is told that nobody is
\* looking any more: no spinner turns for ever, whatever the Worker does.
OrderSettles == inFlight ~> (~inFlight \/ m.intent.pollExhausted)

\* A signature prompt the wallet never answers is closed by its timer.
PromptCloses == m.sign.stage \in {"intent", "pull"} ~> m.sign.stage \notin {"intent", "pull"}

=============================================================================
