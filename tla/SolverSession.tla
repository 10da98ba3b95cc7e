--------------------------- MODULE SolverSession ---------------------------
(***************************************************************************)
(* The solver's session (solver-sdk/src/session.ts) under concurrent       *)
(* authenticated requests (authed, client.ts): the event loop and the      *)
(* background claims share one token, renew it before it expires and       *)
(* register again when the venue refuses it.  External: the venue, which   *)
(* may rotate its secret and may be unavailable.                           *)
(***************************************************************************)
EXTENDS Integers, FiniteSets

CONSTANTS
    Requests,       \* authenticated calls, each made once
    Lifetime, RenewBefore, MaxAttempts,
    MaxHours, MaxRotations, MaxRefusals \* bounds: the clock, rotations, refused registrations

ASSUME SessionAssumption == Lifetime \in Nat

VARIABLES
    hour,
    current,    \* [token, renewAt]; token 0 for none
    attempting,   \* the attempt of the shared registration, 0 when there is none
    call,       \* [Requests -> [pc, token, again]]
    venue,      \* tokens the venue honours: [token, expires]
    minted, rotations, refusals,
    latest,     \* ghost: the last token accepted
    needless    \* ghost: a registration was begun although it was honoured and not due

sessionVars == <<hour, current, attempting, call, venue, minted, rotations, refusals, latest, needless>>

noToken == [token |-> 0, renewAt |-> 0]
waiters == {r \in Requests : call[r].pc = "wait"}

SessionInit ==
    /\ hour = 0 /\ current = noToken /\ attempting = 0
    /\ call = [r \in Requests |-> [pc |-> "new", token |-> 0, again |-> FALSE]]
    /\ venue = {} /\ minted = 0 /\ rotations = 0 /\ refusals = 0
    /\ latest = noToken /\ needless = FALSE
-----------------------------------------------------------------------------
(* token(): the held one while it is not due, else the registration in     *)
(* flight, begun under this request's signal if there is none.             *)
due(t) == hour >= t.renewAt
honoured(token) == \E v \in venue : v.token = token /\ hour < v.expires

joins == attempting # 0

Token(r) ==
    /\ call[r].pc \in {"new", "again"}
    /\ IF current.token # 0 /\ ~due(current)
       THEN /\ call' = [call EXCEPT ![r].pc = "send", ![r].token = current.token]
            /\ UNCHANGED <<attempting, needless>>
       ELSE /\ call' = [call EXCEPT ![r].pc = "wait"]
            /\ attempting' = IF joins THEN attempting ELSE 1
            /\ needless' = (needless \/ (~joins /\ honoured(latest.token) /\ ~due(latest)))
    /\ UNCHANGED <<hour, current, venue, minted, rotations, refusals, latest>>

(* accept: the token is held and due before it expires, at the latest      *)
(* halfway through its life.                                               *)
renewAt(expires) == expires - (IF 2 * RenewBefore < Lifetime THEN RenewBefore ELSE Lifetime \div 2)

settles(pc, token) ==
    /\ attempting' = 0
    /\ call' = [r \in Requests |-> IF r \in waiters THEN [call[r] EXCEPT !.pc = pc, !.token = token] ELSE call[r]]

(* registerOnce: answered; unavailable, and tried again with a fresh       *)
(* signature while attempts are left; or refused for good.                 *)
Registered ==
    /\ attempting # 0 /\ minted' = minted + 1
    /\ venue' = venue \cup {[token |-> minted', expires |-> hour + Lifetime]}
    /\ current' = [token |-> minted', renewAt |-> renewAt(hour + Lifetime)]
    /\ latest' = current'
    /\ settles("send", minted')
    /\ UNCHANGED <<hour, rotations, refusals, needless>>
Unavailable ==
    /\ attempting # 0 /\ refusals < MaxRefusals /\ refusals' = refusals + 1
    /\ IF attempting < MaxAttempts
       THEN attempting' = attempting + 1 /\ UNCHANGED call
       ELSE settles("failed", 0)
    /\ UNCHANGED <<hour, current, venue, minted, rotations, latest, needless>>
Refused ==
    /\ attempting # 0 /\ refusals < MaxRefusals /\ refusals' = refusals + 1
    /\ settles("failed", 0)
    /\ UNCHANGED <<hour, current, venue, minted, rotations, latest, needless>>
(* The first caller's signal aborts the registration of all who wait.      *)
AbortOwner ==
    /\ attempting # 0 /\ settles("failed", 0)
    /\ UNCHANGED <<hour, current, venue, minted, rotations, refusals, latest, needless>>

(* invalidate: only the token that was refused is forgotten.               *)
(* Mutant: whatever is held is forgotten.                                  *)
invalidate_Any(token) == noToken
invalidate(token) == IF current.token = token THEN noToken ELSE current

(* authed: a 401 drops the token, and the request is sent once more.       *)
Send(r) ==
    /\ call[r].pc = "send"
    /\ IF honoured(call[r].token)
       THEN call' = [call EXCEPT ![r].pc = "done"] /\ UNCHANGED current
       ELSE IF call[r].again
       THEN call' = [call EXCEPT ![r].pc = "failed"] /\ UNCHANGED current
       ELSE /\ call' = [call EXCEPT ![r].pc = "again", ![r].again = TRUE]
            /\ current' = invalidate(call[r].token)
    /\ UNCHANGED <<hour, attempting, venue, minted, rotations, refusals, latest, needless>>
-----------------------------------------------------------------------------
Rotate ==
    /\ rotations < MaxRotations /\ rotations' = rotations + 1 /\ venue' = {}
    /\ UNCHANGED <<hour, current, attempting, call, minted, refusals, latest, needless>>
Hour ==
    /\ hour < MaxHours /\ hour' = hour + 1
    /\ UNCHANGED <<current, attempting, call, venue, minted, rotations, refusals, latest, needless>>

SessionNext ==
    \/ \E r \in Requests : Token(r) \/ Send(r)
    \/ Registered \/ Unavailable \/ Refused \/ AbortOwner \/ Rotate \/ Hour
-----------------------------------------------------------------------------
(* The solver registers only when it must: while the last token it was     *)
(* given is honoured and not due, no request begins another registration,  *)
(* however the refusals of older tokens and the registrations they caused  *)
(* are ordered (token, invalidate, register).                              *)
RegistersOnce == ~needless
=============================================================================
