------------------------------ MODULE Provider ------------------------------
(***************************************************************************)
(* The provider's signing daemon and its ledger: the HTTP server's queue   *)
(* and shutdown (daemon/src/server.ts, index.ts), the handlers and their   *)
(* audit log (handlers.ts, audit.ts), signing through the ledger           *)
(* (src/replay-db.ts, signer.ts, keystore.ts).  A program embedding the    *)
(* package may call the ledger directly beside the daemon.  The custody    *)
(* adapter is external: it may fail, and each signature it makes differs.  *)
(***************************************************************************)
EXTENDS Integers, Sequences, FiniteSets, FiniteSetsExt

CONSTANTS
    Calls,      \* requests, each made once
    RouteOf,    \* [Calls -> {"sign", "multi", "root", "direct"}]
    ScopeOf,    \* [Calls -> {"signals", "credentialRoot"}]: what its credential holds
    PayloadOf,  \* [Calls -> payload]: its submitter and digest
    Timestamp,  \* [payload -> Int]: the signed timestamp
    BodyOf,     \* [Calls -> body]: json, deployment, provider, weights, signals, notBefore, notAfter
    MaxValidity,\* the policy's credentialRootMaxValiditySeconds
    MaxAge, MaxSkew, \* the policy's freshness window
    MaxPending, \* MAX_PENDING_BARRETENBERG_REQUESTS
    MaxEntries, \* the ledger's cap
    Keys,       \* signer identities, in the order they are rotated to
    MaxSeconds, \* bound: the last second
    MaxFailures \* bound: failures of the audit stream

ASSUME ProviderConstants ==
    /\ RouteOf \in [Calls -> {"sign", "multi", "root", "direct"}]
    /\ PayloadOf \in [Calls -> DOMAIN Timestamp]
    /\ \A p \in DOMAIN Timestamp : Timestamp[p] \in Int
    /\ MaxAge \in Nat /\ MaxSkew \in Nat
    /\ DOMAIN Keys \subseteq Nat \ {0}

VARIABLES
    second,
    key,        \* the daemon's signer: a position in Keys, or 0 once destroyed
    entries,    \* MemoryReplayDb.entries: [payload, key, sig, turn], inserted in the order of turn
    waiting,    \* BoundedSerialQueue: admitted calls, the running one first
    listening,  \* "no", "yes", "closing", "closed"
    auditBroken,\* FileAuditSink.failure
    request,    \* each call: where it is, its signer, its candidate or result, its answer
    made,       \* signatures custody has made
    failures,
    log,        \* audit lines: [call, outcome]
    dropped     \* ghost: payloads whose record left the ledger, and why

providerVars == <<second, key, entries, waiting, listening, auditBroken, request, made,
                  failures, log, dropped>>

NoRequest == [pc |-> "new", key |-> 0, since |-> 0, sig |-> 0, replayed |-> FALSE, answer |-> "none"]
Errors == {"ROUTE_NOT_PERMITTED", "BAD_JSON", "OVERLOADED", "BAD_REQUEST", "DEPLOYMENT_MISMATCH",
           "TIMESTAMP_OUT_OF_WINDOW", "PROVIDER_MISMATCH", "BAD_RANGE", "WINDOW_EXPIRED",
           "VALIDITY_TOO_LONG", "SIGN_FAILED", "AUDIT_FAILED"}
inFlight(c) == request[c].pc \notin {"new", "done"}
daemon(c) == RouteOf[c] # "direct"
step(c, label) == request' = [request EXCEPT ![c].pc = label]
finish(c, answer) == request' = [request EXCEPT ![c].pc = "done", ![c].answer = answer]

retentionSeconds == MaxAge + MaxSkew

ProviderInit ==
    /\ second = 0 /\ key = 1 /\ entries = {} /\ waiting = <<>> /\ listening = "yes"
    /\ auditBroken = FALSE /\ request = [c \in Calls |-> NoRequest]
    /\ made = 0 /\ failures = 0 /\ log = {} /\ dropped = {}
-----------------------------------------------------------------------------
(* MemoryReplayDb                                                          *)

expired(e) == Timestamp[e.payload] < second - retentionSeconds
(* Mutant: a record leaves when the policy's age has passed.               *)
retained_AgeOnly == {e \in entries : Timestamp[e.payload] >= second - MaxAge + 1}
retained == {e \in entries : ~expired(e)}

rowOf(es, p) == {e \in es : e.payload = p}
lookup(p) == rowOf(retained, p)
left(es, new, why) == {[payload |-> e.payload, why |-> why] : e \in es \ new}
oldest(es) == CHOOSE e \in es : \A other \in es : e.turn <= other.turn
nextTurn == IF entries = {} THEN 1 ELSE 1 + Max({e.turn : e \in entries})

(* The row of this identity if there is one, else the candidate, replacing *)
(* another identity's row; beyond the cap the oldest inserted goes.        *)
recordCanonical(p, k, sig) ==
    LET with == (retained \ lookup(p)) \cup {[payload |-> p, key |-> k, sig |-> sig, turn |-> nextTurn]}
        capped == IF Cardinality(with) > MaxEntries THEN with \ {oldest(with)} ELSE with
    IN IF \E e \in lookup(p) : e.key = k
       THEN [entries |-> retained, inserted |-> FALSE, gone |-> left(entries, retained, "expired")]
       ELSE [entries |-> capped, inserted |-> TRUE,
             gone |-> left(entries, retained, "expired") \cup left(retained, with, "replaced")
                          \cup left(with, capped, "capped")]
-----------------------------------------------------------------------------
(* The server                                                              *)

usesBarretenberg(c) == RouteOf[c] \in {"sign", "multi"}
scopeOf(route) == IF route = "root" THEN "credentialRoot" ELSE "signals"

(* The write of an audit line: a stream that failed once rejects them all. *)
writes(c, outcome) ==
    /\ ~auditBroken
    /\ log' = log \cup {[call |-> c, outcome |-> outcome]} /\ UNCHANGED <<auditBroken, failures>>
writeFails ==
    \/ auditBroken /\ UNCHANGED <<log, auditBroken, failures>>
    \/ /\ ~auditBroken /\ failures < MaxFailures /\ failures' = failures + 1
       /\ auditBroken' = TRUE /\ UNCHANGED log

rejected(c, code) ==
    \/ writes(c, "rejected") /\ finish(c, code)
    \/ writeFails /\ finish(c, "AUDIT_FAILED")

(* handler: the credential's scope, the body, then a place in the queue for *)
(* a route that hashes.  A client may still send on an open connection     *)
(* while the listener closes.                                              *)
refusal(c) ==
    IF ScopeOf[c] # scopeOf(RouteOf[c]) THEN "ROUTE_NOT_PERMITTED"
    ELSE IF ~BodyOf[c].json THEN "BAD_JSON"
    ELSE IF usesBarretenberg(c) /\ Len(waiting) >= MaxPending THEN "OVERLOADED"
    ELSE "none"

Arrive(c) ==
    /\ request[c].pc = "new" /\ daemon(c) /\ listening \in {"yes", "closing"}
    /\ \/ refusal(c) # "none" /\ rejected(c, refusal(c)) /\ UNCHANGED waiting
       \/ /\ refusal(c) = "none" /\ step(c, "queued")
          /\ waiting' = IF usesBarretenberg(c) THEN Append(waiting, c) ELSE waiting
          /\ UNCHANGED <<auditBroken, failures, log>>
    /\ UNCHANGED <<second, key, entries, listening, made, dropped>>

running(c) == usesBarretenberg(c) => waiting # <<>> /\ Head(waiting) = c
leaves(c) == waiting' = IF usesBarretenberg(c) THEN Tail(waiting) ELSE waiting

(* Some slot is active, an inactive one carries no signal and, for the     *)
(* single-signed circuits, the active ones form a prefix.                  *)
parseSignalFields(body, contiguous) ==
    LET active(i) == body.weights[i] > 0
    IN /\ \E i \in DOMAIN body.weights : active(i)
       /\ \A i \in DOMAIN body.weights : ~active(i) => body.signals[i] = 0
       /\ contiguous => \A i \in DOMAIN body.weights : active(i) /\ i > 1 => active(i - 1)

enforceSignalPolicy(c) ==
    IF ~BodyOf[c].deployment THEN "DEPLOYMENT_MISMATCH"
    ELSE IF \/ Timestamp[PayloadOf[c]] < second - MaxAge
            \/ Timestamp[PayloadOf[c]] > second + MaxSkew THEN "TIMESTAMP_OUT_OF_WINDOW"
    ELSE "none"

enforceCredentialRootPolicy(c) ==
    IF ~BodyOf[c].deployment THEN "DEPLOYMENT_MISMATCH"
    ELSE IF ~BodyOf[c].provider THEN "PROVIDER_MISMATCH"
    ELSE IF BodyOf[c].notAfter < BodyOf[c].notBefore THEN "BAD_RANGE"
    ELSE IF BodyOf[c].notAfter <= second THEN "WINDOW_EXPIRED"
    ELSE IF BodyOf[c].notAfter > second + MaxValidity THEN "VALIDITY_TOO_LONG"
    ELSE "none"

policyRefusal(c) ==
    IF RouteOf[c] = "root" THEN enforceCredentialRootPolicy(c)
    ELSE IF ~parseSignalFields(BodyOf[c], RouteOf[c] = "sign") THEN "BAD_REQUEST"
    ELSE enforceSignalPolicy(c)

(* handleSignalRoute and handleSignCredentialRoot, up to the signing: the  *)
(* policy is read when the request's turn comes.                           *)
Enforce(c) ==
    /\ request[c].pc = "queued" /\ running(c)
    /\ \/ policyRefusal(c) # "none" /\ rejected(c, policyRefusal(c)) /\ leaves(c)
       \/ /\ policyRefusal(c) = "none"
          /\ request' = [request EXCEPT ![c] = IF RouteOf[c] = "root" THEN [@ EXCEPT !.pc = "sign", !.key = key]
                                               ELSE [@ EXCEPT !.pc = "hash", !.since = second, !.key = key]]
          /\ UNCHANGED <<waiting, auditBroken, failures, log>>
    /\ UNCHANGED <<second, key, entries, listening, made, dropped>>

(* A program calls signSignalsWithReplayProtection on the same ledger.     *)
CallDirect(c) ==
    /\ request[c].pc = "new" /\ ~daemon(c) /\ key # 0
    /\ request' = [request EXCEPT ![c].pc = "hash", ![c].since = second, ![c].key = key]
    /\ UNCHANGED <<second, key, entries, waiting, listening, auditBroken, made, failures, log, dropped>>
-----------------------------------------------------------------------------
(* signThroughLedger: the digest is hashed, the ledger is read, custody    *)
(* signs, the candidate is recorded; others run between any two of these.  *)

Lookup(c) ==
    /\ request[c].pc = "hash"
    /\ entries' = retained
    /\ dropped' = dropped \cup left(entries, retained, "expired")
    /\ LET hit == {e \in lookup(PayloadOf[c]) : e.key = request[c].key}
       IN request' = [request EXCEPT ![c] =
              IF hit # {} THEN [@ EXCEPT !.pc = "reply", !.replayed = TRUE, !.since = 0,
                                         !.sig = (CHOOSE e \in hit : TRUE).sig]
              ELSE [@ EXCEPT !.pc = "sign", !.since = 0]]
    /\ UNCHANGED <<second, key, waiting, listening, auditBroken, made, failures, log>>

(* validatedSignDigest: signed, or refused by custody (external), which a  *)
(* destroyed signer always does.                                           *)
Sign(c) ==
    /\ request[c].pc = "sign"
    /\ \/ /\ key # 0 /\ made' = made + 1
          /\ request' = [request EXCEPT ![c].pc = IF RouteOf[c] = "root" THEN "reply" ELSE "record",
                                        ![c].sig = made']
          /\ UNCHANGED <<waiting, auditBroken, failures, log>>
       \/ /\ IF daemon(c) THEN rejected(c, "SIGN_FAILED") /\ leaves(c)
             ELSE finish(c, "SIGN_FAILED") /\ UNCHANGED <<waiting, auditBroken, failures, log>>
          /\ UNCHANGED made
    /\ UNCHANGED <<second, key, entries, listening, dropped>>

Record(c) ==
    /\ request[c].pc = "record"
    /\ LET r == recordCanonical(PayloadOf[c], request[c].key, request[c].sig)
           row == CHOOSE e \in rowOf(r.entries, PayloadOf[c]) : TRUE
       IN /\ entries' = r.entries /\ dropped' = dropped \cup r.gone
          /\ request' = [request EXCEPT ![c] = [@ EXCEPT !.pc = "reply", !.replayed = ~r.inserted,
                                                         !.sig = IF r.inserted THEN request[c].sig ELSE row.sig]]
    /\ UNCHANGED <<second, key, waiting, listening, auditBroken, made, failures, log>>

(* audited: the line first, then the signature; none without its line.     *)
Reply_Unaudited(c) ==
    /\ request[c].pc = "reply"
    /\ finish(c, "signature") /\ leaves(c) /\ (writeFails \/ writes(c, "signed"))
    /\ UNCHANGED <<second, key, entries, listening, made, dropped>>
Reply(c) ==
    /\ request[c].pc = "reply"
    /\ IF ~daemon(c) THEN finish(c, "signature") /\ UNCHANGED <<waiting, auditBroken, failures, log>>
       ELSE /\ leaves(c)
            /\ \/ writes(c, IF request[c].replayed THEN "replayed" ELSE "signed") /\ finish(c, "signature")
               \/ writeFails /\ finish(c, "AUDIT_FAILED")
    /\ UNCHANGED <<second, key, entries, listening, made, dropped>>
-----------------------------------------------------------------------------
(* index.ts: shutdown stops intake, drains, then destroys the signer.      *)

Close ==
    /\ listening = "yes" /\ listening' = "closing"
    /\ UNCHANGED <<second, key, entries, waiting, auditBroken, request, made, failures, log, dropped>>

(* The listener is closed once no connection is open, which a client may   *)
(* cut while its request runs; then every active request is awaited.       *)
Drained_Listener == TRUE
Drained == \A c \in Calls : daemon(c) => ~inFlight(c)
Destroy ==
    /\ listening = "closing" /\ Drained
    /\ listening' = "closed" /\ key' = 0
    /\ UNCHANGED <<second, entries, waiting, auditBroken, request, made, failures, log, dropped>>

(* The daemon starts again with the next key and an empty ledger.          *)
Start ==
    /\ listening = "closed" /\ \A c \in Calls : ~inFlight(c)
    /\ \E k \in DOMAIN Keys : key' = k
    /\ Cardinality({c \in Calls : request[c].pc = "new"}) > 0
    /\ listening' = "yes" /\ auditBroken' = FALSE
    /\ dropped' = dropped \cup left(entries, {}, "restarted") /\ entries' = {}
    /\ UNCHANGED <<second, waiting, request, made, failures, log>>

(* Hashing a payload takes less than the policy's skew.                    *)
HashInTime == \A c \in Calls : request[c].pc = "hash" => second < request[c].since + MaxSkew
Second ==
    /\ second < MaxSeconds /\ HashInTime /\ second' = second + 1
    /\ UNCHANGED <<key, entries, waiting, listening, auditBroken, request, made, failures, log, dropped>>

ProviderNext ==
    \/ \E c \in Calls : \/ Arrive(c) \/ Enforce(c) \/ CallDirect(c) \/ Lookup(c) \/ Sign(c)
                        \/ Record(c) \/ Reply(c)
    \/ Close \/ Destroy \/ Start \/ Second
-----------------------------------------------------------------------------
(* Two answers for one payload under one identity carry the same signature *)
(* (an identical retry, or a concurrent one), unless the record was lost   *)
(* to the cap, to another identity or to a restart.  Age never loses one   *)
(* the daemon's policy still accepts; a direct caller has no policy.       *)
answered(c) == request[c].answer = "signature" /\ RouteOf[c] # "root"
lost(c, d) ==
    \E g \in dropped : /\ g.payload = PayloadOf[c]
                       /\ g.why = "expired" => ~daemon(c) \/ ~daemon(d)
SameSignature ==
    \A c, d \in Calls :
        (/\ answered(c) /\ answered(d)
         /\ PayloadOf[c] = PayloadOf[d] /\ request[c].key = request[d].key)
            => request[c].sig = request[d].sig \/ lost(c, d)

(* No signature leaves the daemon without a line in the audit log that     *)
(* says it was signed or replayed, whatever failed on the way (audited).   *)
ReleasedIsAudited ==
    \A c \in Calls : daemon(c) /\ request[c].answer = "signature" =>
        \E l \in log : l.call = c /\ l.outcome \in {"signed", "replayed"}

(* A request the daemon admitted never meets a destroyed signer: shutdown  *)
(* destroys it only after the last admitted request has been answered.     *)
NoUseAfterDestroy == \A c \in Calls : daemon(c) /\ inFlight(c) => key # 0

(* What the provider lets out: a payload asked again within its window     *)
(* gets the same signature, and what leaves the daemon is audited and of a *)
(* living signer.  Code: replay-db.ts, daemon/src.                         *)
ProviderSound == SameSignature /\ ReleasedIsAudited /\ NoUseAfterDestroy
=============================================================================
