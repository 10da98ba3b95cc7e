----------------------------- MODULE FillLease -----------------------------
(***************************************************************************)
(* The lease on the solver's state file (StateLock and FillStateFile in    *)
(* examples/fill-state-file.ts, openStateFile in supervise.ts), shared by  *)
(* processes that start, stall, die and leave at any moment.  One step is  *)
(* one file operation; a process may be held up between any two of them.   *)
(***************************************************************************)
EXTENDS Integers, FiniteSets

CONSTANTS
    Procs,        \* solver processes given one SOLVER_STATE_FILE
    LeaseOrders,  \* orders a process may come to owe
    Stale,        \* LEASE_STALE_MS
    MaxClock,     \* bound: the last moment
    MaxStarts,    \* bound: starts of one process
    Gone          \* no file at a path

VARIABLES
    clock,
    lease,  \* `<state>.lock`: [token, at], or Gone; a token names one acquisition
    file,   \* the orders of the state file
    aside,  \* each process's `<lock>.<token>.stale`
    proc,   \* each process: where it is, its start, its renewal's time, the stale lease
            \* it read, its attempts, the orders it holds, what it is about to write;
            \* ghosts: it acts on what it saw of the lease, a successor has linked since
    recorded,   \* ghost: orders recorded and not yet removed
    unfenced    \* ghost: one that acted on what it saw landed after a successor had linked

leaseVars == <<clock, lease, file, aside, proc, recorded, unfenced>>

MaxTries == 3
Idle == [pc |-> "off", start |-> 0, at |-> 0, seen |-> Gone, attempt |-> 0,
         fills |-> {}, next |-> {}, sound |-> FALSE, over |-> FALSE]
token(p) == <<p, proc[p].start>>
isAt(p, label) == proc[p].pc = label
become(p, r) == proc' = [proc EXCEPT ![p] = r]
own(p) == lease # Gone /\ lease.token = token(p)
stale(l) == clock - l.at >= Stale

LeaseInit ==
    /\ clock = 0 /\ lease = Gone /\ file = {} /\ aside = [p \in Procs |-> Gone]
    /\ proc = [p \in Procs |-> Idle]
    /\ recorded = {} /\ unfenced = FALSE
-----------------------------------------------------------------------------
(* StateLock.acquire, called by openStateFile until it succeeds            *)

(* A token, and the lease to link, dated now.                              *)
Acquire(p) ==
    /\ isAt(p, "off") /\ proc[p].start < MaxStarts
    /\ become(p, [Idle EXCEPT !.pc = "link", !.start = proc[p].start + 1, !.at = clock])
    /\ UNCHANGED <<clock, lease, file, aside, recorded, unfenced>>

(* LeaseHeldError: openStateFile looks again later, with another token.    *)
refuse(p) == become(p, [Idle EXCEPT !.start = proc[p].start])
tryAgain(p) ==
    IF proc[p].attempt + 1 < MaxTries
    THEN become(p, [proc[p] EXCEPT !.pc = "link", !.seen = Gone, !.attempt = @ + 1,
                                   !.sound = FALSE, !.over = FALSE])
    ELSE refuse(p)

(* link(2) creates the lease only where there is none.  What others had    *)
(* checked before it is no longer sure.                                    *)
overtaken(p, q) == IF q # p /\ proc[q].sound THEN [proc[q] EXCEPT !.over = TRUE] ELSE proc[q]
Link(p) ==
    /\ isAt(p, "link")
    /\ \/ /\ lease = Gone
          /\ lease' = [token |-> token(p), at |-> proc[p].at]
          /\ proc' = [[q \in Procs |-> overtaken(p, q)] EXCEPT
                         ![p].pc = "load", ![p].attempt = 0]
       \/ /\ lease # Gone
          /\ become(p, [proc[p] EXCEPT !.pc = "judge"]) /\ UNCHANGED lease
    /\ UNCHANGED <<clock, file, aside, recorded, unfenced>>

Judge(p) ==
    /\ isAt(p, "judge")
    /\ \/ lease = Gone /\ tryAgain(p)
       \/ lease # Gone /\ ~stale(lease) /\ refuse(p)
       \/ /\ lease # Gone /\ stale(lease)
          /\ become(p, [proc[p] EXCEPT !.pc = "move", !.seen = lease])
    /\ UNCHANGED <<clock, lease, file, aside, recorded, unfenced>>

(* takeOverLock: the lease is moved aside, and compared with the one that  *)
(* was judged stale.                                                       *)
Move(p) ==
    /\ isAt(p, "move")
    /\ \/ lease = Gone /\ tryAgain(p) /\ UNCHANGED <<lease, aside>>
       \/ /\ lease # Gone
          /\ aside' = [aside EXCEPT ![p] = lease] /\ lease' = Gone
          /\ become(p, [proc[p] EXCEPT !.pc = "compare", !.sound = TRUE])
    /\ UNCHANGED <<clock, file, recorded, unfenced>>

Compare(p) ==
    /\ isAt(p, "compare")
    /\ \/ /\ aside[p] = proc[p].seen
          /\ aside' = [aside EXCEPT ![p] = Gone] /\ tryAgain(p)
       \/ /\ aside[p] # proc[p].seen
          /\ become(p, [proc[p] EXCEPT !.pc = "putBack"]) /\ UNCHANGED aside
    /\ UNCHANGED <<clock, lease, file, recorded, unfenced>>

(* link(2) again: what was found aside returns unless a successor is there. *)
(* It returns as well if one was there and left.                           *)
PutBack(p) ==
    /\ isAt(p, "putBack")
    /\ lease' = IF lease = Gone THEN aside[p] ELSE lease
    /\ unfenced' = (unfenced \/ (lease = Gone /\ proc[p].over))
    /\ aside' = [aside EXCEPT ![p] = Gone] /\ refuse(p)
    /\ UNCHANGED <<clock, file, recorded>>

(* The constructor of FillStateFile reads the file it now holds.           *)
Load(p) ==
    /\ isAt(p, "load")
    /\ become(p, [proc[p] EXCEPT !.pc = "run", !.fills = file])
    /\ UNCHANGED <<clock, lease, file, aside, recorded, unfenced>>
-----------------------------------------------------------------------------
(* The holder.  assertHeld comes before every write and every renewal, and *)
(* a lease found taken or gone is lost for good.                           *)

(* Mutant: the state file is written without looking at the lease.         *)
assertHeld_Trusts(p) == TRUE
assertHeld(p) == own(p)
loses(p) == become(p, [proc[p] EXCEPT !.pc = "lost", !.fills = {}])

(* put and remove: the check, then the rename of the whole file.  One of   *)
(* the orders may change, or only an entry that is not followed here.      *)
CheckWrite(p) ==
    /\ isAt(p, "run")
    /\ \/ /\ assertHeld(p)
          /\ \E new \in SUBSET LeaseOrders :
               /\ Cardinality((new \ proc[p].fills) \cup (proc[p].fills \ new)) <= 1
               /\ become(p, [proc[p] EXCEPT !.pc = "write", !.next = new, !.sound = own(p)])
       \/ ~assertHeld(p) /\ loses(p)
    /\ UNCHANGED <<clock, lease, file, aside, recorded, unfenced>>

Write(p) ==
    /\ isAt(p, "write")
    /\ file' = proc[p].next
    /\ recorded' = (recorded \cup (proc[p].next \ proc[p].fills)) \ (proc[p].fills \ proc[p].next)
    /\ unfenced' = (unfenced \/ proc[p].over)
    /\ become(p, [proc[p] EXCEPT !.pc = "run", !.fills = proc[p].next, !.next = {}, !.sound = FALSE, !.over = FALSE])
    /\ UNCHANGED <<clock, lease, aside>>

(* renew, every LEASE_RENEW_MS: the check, then a rename over whatever is  *)
(* there.                                                                  *)
CheckRenew(p) ==
    /\ isAt(p, "run")
    /\ \/ assertHeld(p) /\ become(p, [proc[p] EXCEPT !.pc = "renew", !.at = clock, !.sound = own(p)])
       \/ ~assertHeld(p) /\ loses(p)
    /\ UNCHANGED <<clock, lease, file, aside, recorded, unfenced>>

Renew(p) ==
    /\ isAt(p, "renew")
    /\ lease' = [token |-> token(p), at |-> proc[p].at]
    /\ unfenced' = (unfenced \/ proc[p].over)
    /\ become(p, [proc[p] EXCEPT !.pc = "run", !.sound = FALSE, !.over = FALSE])
    /\ UNCHANGED <<clock, file, aside, recorded>>

(* release, at the end of the process or of its drain after a lost lease.  *)
CheckRelease(p) ==
    /\ proc[p].pc \in {"run", "lost"}
    /\ IF own(p) THEN become(p, [proc[p] EXCEPT !.pc = "release", !.fills = {}, !.sound = TRUE])
                 ELSE refuse(p)
    /\ UNCHANGED <<clock, lease, file, aside, recorded, unfenced>>

Release(p) ==
    /\ isAt(p, "release")
    /\ lease' = Gone /\ unfenced' = (unfenced \/ proc[p].over) /\ refuse(p)
    /\ UNCHANGED <<clock, file, aside, recorded>>

(* SIGKILL: files stay as they are.                                        *)
Die(p) ==
    /\ ~isAt(p, "off") /\ refuse(p)
    /\ aside' = [aside EXCEPT ![p] = Gone] \* a file no other process reads
    /\ UNCHANGED <<clock, lease, file, recorded, unfenced>>

LeaseClock ==
    /\ clock < MaxClock /\ clock' = clock + 1
    /\ UNCHANGED <<lease, file, aside, proc, recorded, unfenced>>

LeaseNext ==
    \/ \E p \in Procs :
         \/ Acquire(p) \/ Link(p) \/ Judge(p) \/ Move(p) \/ Compare(p) \/ PutBack(p) \/ Load(p)
         \/ CheckWrite(p) \/ Write(p) \/ CheckRenew(p) \/ Renew(p)
         \/ CheckRelease(p) \/ Release(p) \/ Die(p)
    \/ LeaseClock

LeaseSpec == LeaseInit /\ [][LeaseNext]_leaseVars
-----------------------------------------------------------------------------
(* No recorded order is erased by another process that shares the file,    *)
(* but through a write, a renewal, a release or a lease put back that was  *)
(* past its look at the lease when a successor linked its own, which       *)
(* StateLock does not fence.                                               *)
NoOrderErased == recorded \subseteq file \/ unfenced
=============================================================================
