---------------------------- MODULE IntentCalls -----------------------------
(***************************************************************************)
(* The intent side of the HTTP client (client/src/transport/client.ts):    *)
(* execute, which is sent once and whose every failure is classified in    *)
(* doubt or not, the read token it brings back, and getIntentStatus, which *)
(* presents that token and so must not let it, or the answer, leave the    *)
(* API's origin.                                                           *)
(*                                                                         *)
(* Two callers (two tabs, or a host's replay) execute one intent.  The     *)
(* Worker is external: it claims an intent once, after the intent's promo  *)
(* redemption, and answers as the comments the transport relies on say     *)
(* (client.ts:186-208).  fetch is external too: it follows redirects unless *)
(* told not to, a browser hides where a redirect it did not follow leads,  *)
(* and an injected fetch may rebuild the response, losing its url.         *)
(***************************************************************************)
EXTENDS Integers, FiniteSets

CONSTANTS
  Executes,    \* the calls of execute, all for one intent
  MaxPolls     \* bound on the calls of getIntentStatus

VARIABLES
  worker,      \* the Worker's row: its status, its promo, who claimed it
  executes,    \* call -> its request and the answer on its way back
  outcomes,    \* call -> what execute returned or threw
  readToken,   \* the read token the caller holds for the intent
  fetchKind,   \* what kind of fetch the client was given
  poll,        \* the status read in flight
  polls,       \* status reads made
  sentToken,   \* the hosts a read token was ever sent to (history)
  tookFrom     \* the hosts whose answer was ever taken (history)

callVars == <<worker, executes, outcomes, readToken, fetchKind, poll, polls, sentToken, tookFrom>>

Origin == "origin"
Elsewhere == "elsewhere"
Unsent == "unsent"

ASSUME IntentCallsAssumption == Unsent \notin Executes

NoOutcome == [st |-> "none", inDoubt |-> FALSE, notAccepted |-> FALSE, clear |-> FALSE]
NoRead == [st |-> "idle", token |-> FALSE, hops |-> 0]

\* What the Worker's answer to an execute carries, as the transport reads it.
\* "clear" is not read: whether the Worker held no claim on the intent and had
\* moved nothing when it answered.
Answer(status, body, reconciling, token, clear) ==
  [st |-> "answered", status |-> status, body |-> body, reconciling |-> reconciling,
   token |-> token, clear |-> clear]

\* A request with no answer yet.
Request(st) == [Answer(0, "none", FALSE, FALSE, FALSE) EXCEPT !.st = st]

CallsInit ==
  /\ worker = [st |-> "quoted", promo |-> FALSE, claim |-> Unsent, moved |-> FALSE]
  /\ executes = [c \in Executes |-> Request(Unsent)]
  /\ outcomes = [c \in Executes |-> NoOutcome]
  /\ readToken \in BOOLEAN   \* a caller may have kept one from an earlier execute
  /\ fetchKind \in {"node", "browser", "rebuilding"}
  /\ poll = NoRead
  /\ polls = 0
  /\ sentToken = {}
  /\ tookFrom = {}

-----------------------------------------------------------------------------
(* The Worker.                                                             *)

clearNow == ~worker.moved /\ worker.claim = Unsent

\* Refusals that never read the row, or read it before another request claimed it.
WorkerRefuses(c) ==
  /\ executes[c].st = "sent"
  /\ \E status \in {400, 401, 429, 500} :
       executes' = [executes EXCEPT ![c] = Answer(status, "none", FALSE, FALSE, clearNow)]
  /\ UNCHANGED worker

\* The promo redemption: keyed by the intent and idempotent, before any claim.
WorkerRedeems(c) ==
  /\ executes[c].st = "sent"
  /\ ~worker.promo
  /\ \/ /\ worker' = [worker EXCEPT !.promo = TRUE]
        /\ UNCHANGED executes
     \/ /\ executes' = [executes EXCEPT ![c] = Answer(409, "promo_unavailable", FALSE, FALSE, clearNow)]
        /\ UNCHANGED worker

WorkerClaims(c) ==
  /\ executes[c].st = "sent"
  /\ worker.promo
  /\ IF worker.st = "quoted" /\ worker.claim = Unsent
     THEN /\ worker' = [worker EXCEPT !.claim = c]
          /\ executes' = [executes EXCEPT ![c] = Request("claimed")]
     ELSE /\ executes' = [executes EXCEPT ![c] = Answer(409, "none", FALSE, FALSE, clearNow)]
          /\ UNCHANGED worker

\* A claimed request moves the funds; or its claim is undone; or the intent
\* ends with nothing moved.
WorkerFinishes(c) ==
  /\ executes[c].st = "claimed"
  /\ \/ /\ worker' = [worker EXCEPT !.st = "executing", !.moved = TRUE]
        /\ \E a \in {Answer(200, "executed", FALSE, TRUE, FALSE), Answer(502, "none", FALSE, TRUE, FALSE),
                     Answer(503, "notAccepted", TRUE, FALSE, FALSE)} :
             executes' = [executes EXCEPT ![c] = a]
     \/ /\ worker' = [worker EXCEPT !.claim = Unsent]
        /\ executes' = [executes EXCEPT ![c] = Answer(503, "notAccepted", FALSE, FALSE, clearNow')]
     \/ /\ worker' = [worker EXCEPT !.st = "failed", !.claim = Unsent]
        /\ executes' = [executes EXCEPT ![c] = Answer(502, "notExecuted", FALSE, FALSE, clearNow')]

-----------------------------------------------------------------------------
(* execute and its answer.                                                 *)

isNotAcceptedExecuteBody(a) == a.status = 503 /\ a.body = "notAccepted"

\* Mutant: a 409 taken for a refusal of the intent, not of this request alone.
isInDoubtExecuteAnswer_Conflict(a) ==
  IF a.token \/ a.reconciling THEN TRUE
  ELSE a.status # 409 /\ ~isNotAcceptedExecuteBody(a) /\ ~(a.status = 502 /\ a.body = "notExecuted")

\* Fail closed: in doubt unless the answer speaks for the intent itself.
isInDoubtExecuteAnswer(a) ==
  IF a.token \/ a.reconciling THEN TRUE
  ELSE IF a.status = 409 THEN a.body # "promo_unavailable"
  ELSE /\ ~isNotAcceptedExecuteBody(a)
       /\ ~(a.status = 502 /\ a.body = "notExecuted")

Execute(c) ==
  /\ executes[c].st = Unsent
  /\ executes' = [executes EXCEPT ![c] = Request("sent")]
  /\ UNCHANGED <<worker, outcomes, readToken, fetchKind, poll, polls, sentToken, tookFrom>>

\* One attempt, and manual redirects: an answer naming no url is refused unread.
ExecuteAnswered(c) ==
  /\ outcomes[c] = NoOutcome
  /\ executes[c].st = "answered"
  /\ LET a == executes[c]
         inDoubt == a.status # 200 /\ isInDoubtExecuteAnswer(a)
     IN IF fetchKind = "rebuilding"
        THEN /\ outcomes' = [outcomes EXCEPT ![c] =
                  [st |-> "thrown", inDoubt |-> TRUE, notAccepted |-> FALSE, clear |-> FALSE]]
             /\ UNCHANGED <<readToken, tookFrom>>
        ELSE /\ outcomes' = [outcomes EXCEPT ![c] =
                  [st |-> IF a.status = 200 THEN "returned" ELSE "thrown",
                   inDoubt |-> inDoubt,
                   notAccepted |-> ~inDoubt /\ isNotAcceptedExecuteBody(a),
                   clear |-> a.clear]]
             /\ readToken' = (readToken \/ a.token)
             /\ tookFrom' = tookFrom \cup {Origin}
  /\ UNCHANGED <<worker, executes, fetchKind, poll, polls, sentToken>>

\* The timeout fires, the connection drops, or something in front of the Worker
\* answers with a redirect: refused or rejected, never sent again.
ExecuteLost(c) ==
  /\ executes[c].st # Unsent
  /\ outcomes[c] = NoOutcome
  /\ outcomes' = [outcomes EXCEPT ![c] =
       [st |-> "thrown", inDoubt |-> TRUE, notAccepted |-> FALSE, clear |-> FALSE]]
  /\ UNCHANGED <<worker, executes, readToken, fetchKind, poll, polls, sentToken, tookFrom>>

-----------------------------------------------------------------------------
(* getIntentStatus.                                                        *)

GetIntentStatus ==
  /\ poll.st = "idle"
  /\ polls < MaxPolls
  /\ polls' = polls + 1
  /\ poll' = [st |-> "fetching", token |-> readToken, hops |-> 0]
  /\ sentToken' = IF readToken THEN sentToken \cup {Origin} ELSE sentToken
  /\ UNCHANGED <<worker, executes, outcomes, readToken, fetchKind, tookFrom>>

\* Mutant: the Location of a redirect is not compared with the origin.
sameOriginRedirectTarget_Any(target) == fetchKind # "browser"

\* A redirect a token read may follow by hand: a plain one, seen, on the origin.
sameOriginRedirectTarget(target) == fetchKind # "browser" /\ target = Origin

\* The origin answers directly.  A rebuilt answer names no url, and a token
\* read refuses one.
PollAnswered ==
  /\ poll.st = "fetching"
  /\ IF poll.token /\ fetchKind = "rebuilding"
     THEN /\ poll' = [poll EXCEPT !.st = "refused"]
          /\ UNCHANGED tookFrom
     ELSE /\ poll' = NoRead
          /\ tookFrom' = tookFrom \cup {Origin}
  /\ UNCHANGED <<worker, executes, outcomes, readToken, fetchKind, polls, sentToken>>

\* A token read answered by a redirect: followed once by hand when it stays on
\* the origin, refused otherwise.
TokenPollRedirected(target) ==
  /\ poll.st = "fetching" /\ poll.token
  /\ IF poll.hops = 0 /\ sameOriginRedirectTarget(target)
     THEN /\ poll' = [poll EXCEPT !.hops = 1]
          /\ sentToken' = sentToken \cup {target}
     ELSE /\ poll' = [poll EXCEPT !.st = "refused"]
          /\ UNCHANGED sentToken
  /\ UNCHANGED <<worker, executes, outcomes, readToken, fetchKind, polls, tookFrom>>

\* Whether the answer of a redirect fetch followed is taken: only one whose url
\* is on the origin; a rebuilt one names none, and nothing shows it was followed.
staysOnOrigin(target) == target = Origin \/ fetchKind = "rebuilding"

\* A read without the token: fetch follows, and the answer's url is checked.
PollRedirected(target) ==
  /\ poll.st = "fetching" /\ ~poll.token
  /\ poll' = NoRead
  /\ tookFrom' = IF staysOnOrigin(target) THEN tookFrom \cup {target} ELSE tookFrom
  /\ UNCHANGED <<worker, executes, outcomes, readToken, fetchKind, polls, sentToken>>

\* A refused token read is made again without the token.
PollWithoutToken ==
  /\ poll.st = "refused"
  /\ poll' = [st |-> "fetching", token |-> FALSE, hops |-> 0]
  /\ UNCHANGED <<worker, executes, outcomes, readToken, fetchKind, polls, sentToken, tookFrom>>

\* A failed or timed-out read: null, and the caller polls again.
PollLost ==
  /\ poll.st = "fetching"
  /\ poll' = NoRead
  /\ UNCHANGED <<worker, executes, outcomes, readToken, fetchKind, polls, sentToken, tookFrom>>

CallsNext ==
  \/ \E c \in Executes :
       \/ /\ WorkerRefuses(c) \/ WorkerRedeems(c) \/ WorkerClaims(c) \/ WorkerFinishes(c)
          /\ UNCHANGED <<outcomes, readToken, fetchKind, poll, polls, sentToken, tookFrom>>
       \/ Execute(c) \/ ExecuteAnswered(c) \/ ExecuteLost(c)
  \/ \E target \in {Origin, Elsewhere} : TokenPollRedirected(target) \/ PollRedirected(target)
  \/ GetIntentStatus \/ PollAnswered \/ PollWithoutToken \/ PollLost

-----------------------------------------------------------------------------

\* An execute failure the transport calls not in doubt (and so a not-accepted
\* answer the caller may send again) was given when no request, of this caller
\* or of another, held the intent's claim and nothing had moved.
NotInDoubtIsClear ==
  \A c \in Executes : (outcomes[c].st = "thrown" /\ ~outcomes[c].inDoubt) => outcomes[c].clear

\* The read token, a bearer secret, is never sent off the API's origin, and no
\* other host's answer is taken for the intent's, unless the host injected a
\* fetch that rebuilds its responses.
TokenStaysHome ==
  /\ Elsewhere \notin sentToken
  /\ fetchKind # "rebuilding" => Elsewhere \notin tookFrom

\* What a caller of execute and getIntentStatus may rely on: see the two parts.
AnswersSound == NotInDoubtIsClear /\ TokenStaysHome
=============================================================================
