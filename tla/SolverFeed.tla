----------------------------- MODULE SolverFeed -----------------------------
(***************************************************************************)
(* The solver's event loop: SolverClient.run and its version gate,         *)
(* HttpSolverTransport.events and its cursor (solver-sdk/src/client.ts),   *)
(* restarted by superviseFeed (examples/supervise.ts).  External: the      *)
(* venue, its log of entries and its redeployment under another version;   *)
(* cursors are scoped to one boot of the venue (SOLVER-RFC.md 4.1).        *)
(***************************************************************************)
EXTENDS Integers, Sequences

CONSTANTS
    MaxLog, MaxBoots, MaxRuns, MaxFaults \* bounds: entries of a boot, boots, runs, failed calls

VARIABLES
    boot,       \* the venue's boot: [number, version]; version 1 is SOLVER_RFC_VERSION
    feedLog,    \* its entries: "announcement", "own", "other", "unknown", "malformed"
    ring,       \* entries that fell off its retention ring
    loop,       \* "off", "gate", "poll", "batch", "act", "fatal", "aborted"
    goal,       \* where a passed gate leads: "poll" or "act"
    cursor,     \* the transport's: [boot, at]; boot 0 is the initial "0"
    batch,      \* the answered batch: its entries still to yield and the cursor it carries
    recheck,    \* versionRecheckPending
    runs, faults,
    handlers,   \* whether the caller set onError and onInvalidEvent
    accounted,  \* ghost: entries handed to the solver, reported skipped or reported as a gap
    observed,   \* ghost: a reset, an unknown entry or an own award since the gate last passed
    signings    \* ghost: what was signed, and whether such an observation was unanswered

feedVars == <<boot, feedLog, ring, loop, goal, cursor, batch, recheck, runs, faults, handlers,
              accounted, observed, signings>>

noBatch == [boot |-> 0, left |-> <<>>, at |-> 0]
entry(b, p) == [boot |-> b, at |-> p]
here == entry(batch.boot, Head(batch.left).at)
kindHere == Head(batch.left).kind

FeedInit ==
    /\ boot = [number |-> 1, version |-> 1] /\ feedLog = <<>> /\ ring = 0
    /\ loop = "off" /\ goal = "poll" /\ cursor = [boot |-> 0, at |-> 0] /\ batch = noBatch
    /\ recheck = FALSE /\ runs = 0 /\ faults = 0 /\ handlers \in BOOLEAN
    /\ accounted = {} /\ observed = FALSE /\ signings = {}
-----------------------------------------------------------------------------
(* The venue                                                               *)

Publish ==
    /\ Len(feedLog) < MaxLog
    /\ \E k \in {"announcement", "own", "other", "malformed"}
                    \cup (IF boot.version = 1 THEN {} ELSE {"unknown"}) :
         feedLog' = Append(feedLog, k)
    /\ UNCHANGED <<boot, ring, loop, goal, cursor, batch, recheck, runs, faults, accounted, observed, signings, handlers>>

FallOff ==
    /\ ring < Len(feedLog) /\ ring' = ring + 1
    /\ UNCHANGED <<boot, feedLog, loop, goal, cursor, batch, recheck, runs, faults, accounted, observed, signings, handlers>>

Redeploy ==
    /\ boot.number < MaxBoots
    /\ \E v \in {1, 2} : boot' = [number |-> boot.number + 1, version |-> v]
    /\ feedLog' = <<>> /\ ring' = 0
    /\ UNCHANGED <<loop, goal, cursor, batch, recheck, runs, faults, accounted, observed, signings, handlers>>
-----------------------------------------------------------------------------
(* SolverClient.run                                                        *)

ends == loop' = "off" /\ batch' = noBatch

Run ==
    /\ loop = "off" /\ runs < MaxRuns /\ runs' = runs + 1
    /\ loop' = "gate" /\ goal' = "poll" /\ recheck' = FALSE
    /\ UNCHANGED <<boot, feedLog, ring, cursor, batch, faults, accounted, observed, signings, handlers>>

(* assertVenueRfcVersion: a skew is fatal to the supervisor, a call that   *)
(* was not answered ends this run only.                                    *)
AssertVenueRfcVersion ==
    /\ loop = "gate"
    /\ \/ /\ boot.version = 1 /\ loop' = goal
          /\ recheck' = FALSE /\ observed' = FALSE /\ UNCHANGED <<batch, faults>>
       \/ /\ boot.version # 1 /\ loop' = "fatal" /\ batch' = noBatch /\ UNCHANGED <<recheck, observed, faults>>
       \/ /\ faults < MaxFaults /\ faults' = faults + 1
          /\ ends /\ UNCHANGED <<recheck, observed>>
    /\ UNCHANGED <<boot, feedLog, ring, goal, cursor, runs, accounted, signings, handlers>>

(* events: one poll.  A cursor of another boot answers a reset; what fell  *)
(* off the ring is counted; both are reported before the batch is yielded. *)
isReset == cursor.boot \notin {0, boot.number}
from == IF cursor.boot = boot.number THEN cursor.at ELSE 0
start == IF from < ring THEN ring ELSE from

(* Mutant: the cursor is taken with the batch.                             *)
cursorAtPoll_Batch == [boot |-> boot.number, at |-> Len(feedLog)]
cursorAtPoll == cursor

Poll ==
    /\ loop = "poll"
    /\ \/ /\ isReset \/ from < Len(feedLog)
          /\ loop' = "batch" /\ cursor' = cursorAtPoll
          /\ batch' = [boot |-> boot.number, at |-> Len(feedLog),
                        left |-> [p \in 1..(Len(feedLog) - start) |->
                                      [at |-> start + p, kind |-> feedLog[start + p]]]]
          /\ recheck' = (recheck \/ isReset) /\ observed' = (observed \/ isReset)
          /\ accounted' = accounted \cup {entry(boot.number, p) : p \in (from + 1)..start}
          /\ UNCHANGED faults
       \/ /\ faults < MaxFaults /\ faults' = faults + 1
          /\ ends /\ UNCHANGED <<cursor, recheck, observed, accounted>>
    /\ UNCHANGED <<boot, feedLog, ring, goal, runs, signings, handlers>>

(* The next entry: skipped and reported, a throw out of events(), or       *)
(* yielded; what is yielded waits for the gate where it must.              *)
(* Mutant: only a reset re-arms the gate.                                  *)
rearms_ResetOnly(k) == FALSE
rearms(k) == k = "unknown"

Yield ==
    /\ loop = "batch" /\ batch.left # <<>>
    /\ \/ /\ kindHere = "unknown" \/ (kindHere = "malformed" /\ handlers)
          /\ batch' = [batch EXCEPT !.left = Tail(@)]
          /\ accounted' = accounted \cup {here}
          /\ recheck' = (recheck \/ rearms(kindHere))
          /\ observed' = (observed \/ kindHere = "unknown")
          /\ UNCHANGED <<loop, goal>>
       \/ /\ kindHere = "malformed" /\ ~handlers
          /\ ends /\ UNCHANGED <<goal, accounted, recheck, observed>>
       \/ /\ kindHere \in {"announcement", "own", "other"}
          /\ observed' = (observed \/ kindHere = "own")
          /\ IF recheck \/ kindHere = "own" THEN loop' = "gate" /\ goal' = "act"
                                            ELSE loop' = "act" /\ UNCHANGED goal
          /\ UNCHANGED <<batch, accounted, recheck>>
    /\ UNCHANGED <<boot, feedLog, ring, cursor, runs, faults, signings, handlers>>

(* The batch is done: its cursor is taken.                                 *)
TakeCursor ==
    /\ loop = "batch" /\ batch.left = <<>>
    /\ loop' = "poll" /\ cursor' = [boot |-> batch.boot, at |-> batch.at] /\ batch' = noBatch
    /\ UNCHANGED <<boot, feedLog, ring, goal, recheck, runs, faults, accounted, observed, signings, handlers>>

(* quote and submit a bid, or fill and submit the receipt; an error is     *)
(* reported and the loop goes on, or it ends the run.                      *)
Act ==
    /\ loop = "act" /\ goal' = "poll"
    /\ signings' = IF kindHere = "other" THEN signings
                   ELSE signings \cup {[kind |-> kindHere, unanswered |-> observed]}
    /\ \/ /\ loop' = "batch" /\ batch' = [batch EXCEPT !.left = Tail(@)]
          /\ accounted' = accounted \cup {here} /\ UNCHANGED faults
       \/ /\ ~handlers /\ faults < MaxFaults /\ faults' = faults + 1 /\ kindHere # "other"
          /\ ends /\ UNCHANGED accounted
    /\ UNCHANGED <<boot, feedLog, ring, cursor, recheck, runs, observed, handlers>>

Abort ==
    /\ loop \in {"gate", "poll", "batch"} /\ loop' = "aborted" /\ batch' = noBatch
    /\ UNCHANGED <<boot, feedLog, ring, goal, cursor, recheck, runs, faults, accounted, observed, signings, handlers>>

FeedNext ==
    \/ Publish \/ FallOff \/ Redeploy
    \/ Run \/ AssertVenueRfcVersion \/ Poll \/ Yield \/ TakeCursor \/ Act \/ Abort
-----------------------------------------------------------------------------
(* No entry is passed over in silence: whatever lies behind the cursor was *)
(* handed to the solver, reported as skipped or counted in a reported gap, *)
(* also when a run ended in the middle of a batch and another took over    *)
(* the transport (events takes the cursor last).                           *)
NoSilentGap ==
    \A p \in 1..cursor.at : entry(cursor.boot, p) \in accounted

(* Nothing is signed while a sign of a changed venue (a reset, an entry of *)
(* an unknown type) or an own award has been seen and the version has not  *)
(* been read again since (SolverClient.run's three points).                *)
SignedUnderGate == \A s \in signings : ~s.unanswered

(* What a solver may rely on when it runs the feed: see the two parts.     *)
FeedSound == NoSilentGap /\ SignedUnderGate
=============================================================================
