-------------------------- MODULE OperationJournal --------------------------
(***************************************************************************)
(* The recipient tool's journal of fund-moving operations, one file system *)
(* call per step, under processes that run at once and die anywhere.       *)
(*                                                                         *)
(* A process runs one command: it moves funds (spend, exit, refund) or     *)
(* reconciles.  Its pid, and the id and nonce of the operation it begins,  *)
(* are fresh, so the process itself stands for the three.                  *)
(***************************************************************************)
EXTENDS Naturals, Sequences, FiniteSets

CONSTANTS
    Procs,        \* the processes that ever run
    Commands,     \* the commands this instance runs
    MaxAlive      \* bound: processes alive at once

ASSUME JournalConstants ==
    /\ IsFiniteSet(Procs)
    /\ Commands \subseteq {"spend", "exit", "refund", "reconcile"}
    /\ MaxAlive \in Nat

VARIABLES
    lock,       \* the file active.lock
    records,    \* the status in each operation's record file
    claims,     \* the chain of release claims on each operation's lock
    proc,       \* where each process is, and its local state
    tx          \* what became of each operation's transaction

vars == <<lock, records, claims, proc, tx>>

-----------------------------------------------------------------------------
(* The files. *)

Status == {"building", "broadcast", "complete", "failed", "aborted", "in_doubt"}
none == "none"
Settled == {"included", "reverted"}

\* Mutant: an operation in doubt counts as over.
terminal_InDoubt(status) == status \in {"complete", "failed", "aborted", "in_doubt"}

terminal(status) == status \in {"complete", "failed", "aborted"}

transitions ==
    [building  |-> {"broadcast", "aborted"},
     broadcast |-> {"complete", "failed", "aborted", "in_doubt"},
     in_doubt  |-> {"complete", "failed", "in_doubt"},
     complete  |-> {}, failed |-> {}, aborted |-> {}]

\* A lock file is created empty by its owner, filled with the owner and the
\* initial record, and stripped of the record once that is a file of its own.
Absent == [st |-> "absent", owner |-> none, record |-> none]
Created(o) == [st |-> "created", owner |-> o, record |-> none]
Held(o, status) == [st |-> "held", owner |-> o, record |-> status]

ActiveLock == {Absent} \cup {Created(o) : o \in Procs}
              \cup {Held(o, s) : o \in Procs, s \in {none, "building", "broadcast"}}

-----------------------------------------------------------------------------
(***************************************************************************)
(* A process: `own` is the operation it works on, `record` the status it   *)
(* read of it (or the one a lock embeds), `next` the status it is to       *)
(* write, `then` where it goes after an update or a release, `k` how far   *)
(* along the chain of claims it is, `seen` the records a listing returned. *)
(* A fund movement is `guarded` while an error in it is caught, and        *)
(* `crossed` once its transaction may have left.                           *)
(***************************************************************************)
Pc == {"off", "gone", "open", "fill", "list", "scan", "publish", "strip",
       "readLock", "readRecord", "restoreRecord", "rewriteLock", "receipt", "apply",
       "build", "send", "await", "failOrAbort", "get", "assertOwns", "write",
       "release", "claim", "confirm", "unlink"}

Off == [pc |-> "off", command |-> none, own |-> none, record |-> none, next |-> none,
        then |-> none, k |-> 1, seen |-> {}, guarded |-> FALSE, crossed |-> FALSE]

Process ==
    [pc : Pc, command : Commands \cup {none}, own : Procs \cup {none},
     record : Status \cup {none}, next : Status \cup {none}, then : Pc \cup {none},
     k : Nat, seen : SUBSET Procs, guarded : BOOLEAN, crossed : BOOLEAN]

alive(p) == proc[p].pc \notin {"off", "gone"}

go(p, pc) == proc' = [proc EXCEPT ![p].pc = pc]
step(p, next) == proc' = [proc EXCEPT ![p] = next]

\* The command ends, with or without an error: the process exits.
exit(p) == step(p, [Off EXCEPT !.pc = "gone", !.command = proc[p].command])

\* An error ends the command too, unless a fund movement catches it.
throw(p) ==
    IF proc[p].guarded THEN step(p, [proc[p] EXCEPT !.pc = "failOrAbort", !.own = p])
    ELSE exit(p)

initial(p) == IF proc[p].command = "refund" THEN "broadcast" ELSE "building"

owns(o) == lock.st = "held" /\ lock.owner = o

Init ==
    /\ lock = Absent
    /\ records = [o \in Procs |-> none]
    /\ claims = [o \in Procs |-> <<>>]
    /\ proc = [p \in Procs |-> Off]
    /\ tx = [o \in Procs |-> "unsent"]

Start(p) ==
    /\ proc[p].pc = "off"
    /\ Cardinality({q \in Procs : alive(q)}) < MaxAlive
    /\ \E c \in Commands :
         step(p, [Off EXCEPT !.command = c, !.pc = IF c = "reconcile" THEN "readLock" ELSE "open",
                             !.then = IF c = "reconcile" THEN "receipt" ELSE "open"])
    /\ UNCHANGED <<lock, records, claims, tx>>

-----------------------------------------------------------------------------
(* begin and beginBroadcast. *)

\* Exclusive creation; an existing lock may be a terminal operation's.
OpenLock(p) ==
    /\ proc[p].pc = "open"
    /\ IF lock = Absent
       THEN lock' = Created(p) /\ step(p, [proc[p] EXCEPT !.pc = "fill", !.own = p])
       ELSE UNCHANGED lock /\ go(p, "readLock")
    /\ UNCHANGED <<records, claims, tx>>

\* The write goes to the file that was created, wherever its name points now.
FillLock(p) ==
    /\ proc[p].pc = "fill"
    /\ lock' = IF lock = Created(p) THEN Held(p, initial(p)) ELSE lock
    /\ go(p, "list")
    /\ UNCHANGED <<records, claims, tx>>

ListRecords(p) ==
    /\ proc[p].pc = "list"
    /\ step(p, [proc[p] EXCEPT !.pc = "scan", !.seen = {o \in Procs : records[o] # none}])
    /\ UNCHANGED <<lock, records, claims, tx>>

\* Is a listed record unresolved?  An owner then gives its lock back, and a
\* recoverer gives up; otherwise the one publishes and the other releases.
ScanRecords(p) ==
    /\ proc[p].pc = "scan"
    /\ LET self == [proc[p] EXCEPT !.seen = {}]
           unresolved == \E o \in proc[p].seen : ~terminal(records[o])
       IN  IF proc[p].own = p
           THEN step(p, [self EXCEPT !.pc = IF unresolved THEN "release" ELSE "publish",
                                     !.then = "gone"])
           ELSE IF unresolved THEN exit(p)
           ELSE step(p, [self EXCEPT !.pc = "release", !.then = "open"])
    /\ UNCHANGED <<lock, records, claims, tx>>

PublishRecord(p) ==
    /\ proc[p].pc = "publish"
    /\ records' = [records EXCEPT ![p] = initial(p)]
    /\ go(p, "strip")
    /\ UNCHANGED <<lock, claims, tx>>

\* The embedded copy is dropped and begin returns.
StripLock(p) ==
    /\ proc[p].pc = "strip"
    /\ lock' = Held(p, none)
    /\ go(p, IF proc[p].command = "refund" THEN "send" ELSE "build")
    /\ UNCHANGED <<records, claims, tx>>

-----------------------------------------------------------------------------
(* recordForLock, for a recovery (begin) and for activeUnresolved. *)

ReadLock(p) ==
    /\ proc[p].pc = "readLock"
    /\ IF lock.st = "held"
       THEN step(p, [proc[p] EXCEPT !.pc = "readRecord", !.own = lock.owner,
                                    !.record = lock.record])
       ELSE exit(p)
    /\ UNCHANGED <<lock, records, claims, tx>>

\* What a recoverer does with the record it found.
recovered(p, status) ==
    LET self == [proc[p] EXCEPT !.record = none]
    IN  IF proc[p].then = "open"
        THEN IF terminal(status) THEN step(p, [self EXCEPT !.pc = "list"]) ELSE exit(p)
        ELSE IF terminal(status) \/ status = "building" THEN exit(p)
        ELSE step(p, [self EXCEPT !.pc = self.then])

\* The record is there (its status is read), or the lock embeds it.
ReadRecord(p) ==
    /\ proc[p].pc = "readRecord"
    /\ LET embedded == proc[p].record
           status == records[proc[p].own]
       IN  IF status # none
           THEN IF embedded = none THEN recovered(p, status)
                ELSE step(p, [proc[p] EXCEPT !.pc = "rewriteLock", !.record = status])
           ELSE IF embedded # none THEN go(p, "restoreRecord") ELSE exit(p)
    /\ UNCHANGED <<lock, records, claims, tx>>

RestoreRecord(p) ==
    /\ proc[p].pc = "restoreRecord"
    /\ records' = [records EXCEPT ![proc[p].own] = proc[p].record]
    /\ go(p, "rewriteLock")
    /\ UNCHANGED <<lock, claims, tx>>

RewriteLock(p) ==
    /\ proc[p].pc = "rewriteLock"
    /\ lock' = Held(proc[p].own, none)
    /\ recovered(p, proc[p].record)
    /\ UNCHANGED <<records, claims, tx>>

-----------------------------------------------------------------------------
(* update, failOrAbort. *)

updates(p, o, status, after, caught) ==
    step(p, [proc[p] EXCEPT !.pc = "get", !.own = o, !.next = status, !.then = after,
                            !.guarded = caught])

Get(p) ==
    /\ proc[p].pc = "get"
    /\ step(p, [proc[p] EXCEPT !.pc = "assertOwns", !.record = records[proc[p].own]])
    /\ UNCHANGED <<lock, records, claims, tx>>

\* `next` is none in an update that keeps the status.
AssertOwns(p) ==
    /\ proc[p].pc = "assertOwns"
    /\ LET r == proc[p]
           legal == r.next \in {none, r.record} \cup transitions[r.record]
       IN  IF owns(r.own) /\ legal THEN go(p, "write") ELSE throw(p)
    /\ UNCHANGED <<lock, records, claims, tx>>

\* Mutant: every update of the status releases the lock.
Write_Releases(p) ==
    /\ proc[p].pc = "write"
    /\ LET r == proc[p]
       IN  /\ records' = [records EXCEPT ![r.own] = IF r.next = none THEN r.record ELSE r.next]
           /\ step(p, [r EXCEPT !.record = none, !.next = none, !.pc = "release"])
    /\ UNCHANGED <<lock, claims, tx>>

Write(p) ==
    /\ proc[p].pc = "write"
    /\ LET r == proc[p]
           status == IF r.next = none THEN r.record ELSE r.next
           done == [r EXCEPT !.record = none, !.next = none]
       IN  /\ records' = [records EXCEPT ![r.own] = status]
           /\ IF terminal(status) THEN step(p, [done EXCEPT !.pc = "release"])
              ELSE IF r.then = "gone" THEN exit(p)
              ELSE step(p, [done EXCEPT !.pc = r.then, !.then = none])
    /\ UNCHANGED <<lock, claims, tx>>

\* Mutant: the submission boundary is not consulted.
FailOrAbort_NoBoundary(p) ==
    /\ proc[p].pc = "failOrAbort"
    /\ IF terminal(records[p]) THEN exit(p)
       ELSE updates(p, p, IF records[p] = "in_doubt" THEN "in_doubt" ELSE "aborted", "gone", FALSE)
    /\ UNCHANGED <<lock, records, claims, tx>>

\* Aborted only if the transaction cannot have left.
FailOrAbort(p) ==
    /\ proc[p].pc = "failOrAbort"
    /\ LET status == records[p]
           before == IF proc[p].command = "refund" THEN status = "building"
                     ELSE ~proc[p].crossed /\ status \in {"building", "broadcast"}
       IN  IF terminal(status) THEN exit(p)
           ELSE updates(p, p, IF before THEN "aborted" ELSE "in_doubt", "gone", FALSE)
    /\ UNCHANGED <<lock, records, claims, tx>>

-----------------------------------------------------------------------------
(* releaseLock. *)

Release(p) ==
    /\ proc[p].pc = "release"
    /\ IF owns(proc[p].own) THEN step(p, [proc[p] EXCEPT !.pc = "claim", !.k = 1]) ELSE throw(p)
    /\ UNCHANGED <<lock, records, claims, tx>>

\* Link the next claim of the chain; a dead claimant is superseded.
Claim(p) ==
    /\ proc[p].pc = "claim"
    /\ LET o == proc[p].own
           k == proc[p].k
       IN  IF Len(claims[o]) < k
           THEN claims' = [claims EXCEPT ![o] = Append(@, p)] /\ go(p, "confirm")
           ELSE /\ UNCHANGED claims
                /\ IF alive(claims[o][k]) THEN throw(p)
                   ELSE step(p, [proc[p] EXCEPT !.k = @ + 1])
    /\ UNCHANGED <<lock, records, tx>>

Confirm(p) ==
    /\ proc[p].pc = "confirm"
    /\ IF owns(proc[p].own) THEN go(p, "unlink") ELSE throw(p)
    /\ UNCHANGED <<lock, records, claims, tx>>

Unlink(p) ==
    /\ proc[p].pc = "unlink"
    /\ IF lock = Absent THEN throw(p)
       ELSE IF proc[p].then = "gone" THEN exit(p)
       ELSE step(p, [proc[p] EXCEPT !.pc = proc[p].then, !.k = 1, !.own = none])
    /\ lock' = Absent
    /\ UNCHANGED <<records, claims, tx>>

-----------------------------------------------------------------------------
(* The commands. *)

\* Mutant: the transaction leaves before its hash is recorded.
Build_SendsFirst(p) ==
    /\ proc[p].pc = "build"
    /\ \/ go(p, "send")
       \/ step(p, [proc[p] EXCEPT !.pc = "failOrAbort", !.own = p])
    /\ UNCHANGED <<lock, records, claims, tx>>

\* Proving: an exit records its withdrawals; the hash is recorded right before
\* the transaction leaves; anything may fail.
Build(p) ==
    /\ proc[p].pc = "build"
    /\ \/ proc[p].command = "exit" /\ updates(p, p, none, "build", TRUE)
       \/ updates(p, p, "broadcast", "send", TRUE)
       \/ step(p, [proc[p] EXCEPT !.pc = "failOrAbort", !.own = p])
    /\ UNCHANGED <<lock, records, claims, tx>>

\* One attempt: the transaction leaves or not, and the answer comes or not.
Send(p) ==
    /\ proc[p].pc = "send"
    /\ \E arrives \in BOOLEAN : tx' = IF arrives THEN [tx EXCEPT ![p] = "sent"] ELSE tx
    /\ LET self == [proc[p] EXCEPT !.crossed = TRUE]
       IN  \/ step(p, [self EXCEPT !.pc = "failOrAbort", !.own = p])
           \/ /\ tx'[p] = "sent"
              /\ IF proc[p].command = "refund" THEN exit(p)
                 ELSE step(p, [self EXCEPT !.pc = "await"])
    /\ UNCHANGED <<lock, records, claims>>

\* Only a durably included transaction completes, whether it reverted or not;
\* any error leaves it in doubt.
Await(p) ==
    /\ proc[p].pc = "await"
    /\ \/ tx[p] \in Settled /\ updates(p, p, "complete", "gone", TRUE)
       \/ step(p, [proc[p] EXCEPT !.pc = "failOrAbort", !.own = p])
    /\ UNCHANGED <<lock, records, claims, tx>>

\* Reconciling: the receipt of the operation the lock names.  An L2 operation
\* completes whichever way it was included.  A refund that reverted failed, and
\* the lock is read anew before either is recorded.
Receipt(p) ==
    /\ proc[p].pc = "receipt"
    /\ LET o == proc[p].own
       IN  IF tx[o] \notin Settled THEN exit(p)
           ELSE IF proc[o].command = "refund"
           THEN step(p, [proc[p] EXCEPT !.pc = "readLock", !.then = "apply", !.seen = {o}])
           ELSE updates(p, o, "complete", "gone", FALSE)
    /\ UNCHANGED <<lock, records, claims, tx>>

\* The evidence must be that of the operation the lock names now.
ApplyReconciliation(p) ==
    /\ proc[p].pc = "apply"
    /\ LET o == proc[p].own
       IN  IF proc[p].seen = {o}
           THEN updates(p, o, IF tx[o] = "reverted" THEN "failed" ELSE "complete", "gone", FALSE)
           ELSE exit(p)
    /\ UNCHANGED <<lock, records, claims, tx>>

\* A process dies anywhere; what it wrote stays.
Crash(p) == alive(p) /\ exit(p) /\ UNCHANGED <<lock, records, claims, tx>>

Included(o) ==
    /\ tx[o] = "sent"
    /\ \E outcome \in Settled : tx' = [tx EXCEPT ![o] = outcome]
    /\ UNCHANGED <<lock, records, claims, proc>>

Next ==
    \E p \in Procs :
        \/ Start(p) \/ OpenLock(p) \/ FillLock(p) \/ ListRecords(p) \/ ScanRecords(p)
        \/ PublishRecord(p) \/ StripLock(p) \/ ReadLock(p) \/ ReadRecord(p)
        \/ RestoreRecord(p) \/ RewriteLock(p) \/ Get(p) \/ AssertOwns(p) \/ Write(p)
        \/ FailOrAbort(p) \/ Release(p) \/ Claim(p) \/ Confirm(p) \/ Unlink(p)
        \/ Build(p) \/ Send(p) \/ Await(p) \/ Receipt(p)
        \/ ApplyReconciliation(p) \/ Crash(p) \/ Included(p)

Spec == Init /\ [][Next]_vars

-----------------------------------------------------------------------------
\* Every file and every process stays in its type.
TypeOK ==
    /\ lock \in ActiveLock
    /\ records \in [Procs -> Status \cup {none}]
    /\ claims \in [Procs -> Seq(Procs)]
    /\ proc \in [Procs -> Process]
    /\ tx \in [Procs -> {"unsent", "sent"} \cup Settled]

\* Funds may still move for an operation: begin returned and its process may yet
\* send, or its transaction left and may be included.
moving(o) ==
    \/ proc[o].pc \in {"build", "send"}
    \/ proc[o].guarded /\ ~proc[o].crossed /\ proc[o].pc # "failOrAbort"
    \/ tx[o] = "sent"

\* "Fund-moving commands are single-flight across processes and restarts"
\* (OperationJournal).
SingleFlight == \A a, b \in Procs : moving(a) /\ moving(b) => a = b

\* An operation is called aborted only if its transaction never left and never will.
AbortedNeverSent ==
    \A o \in Procs : records[o] = "aborted" => tx[o] = "unsent" /\ proc[o].pc # "send"

\* A transaction leaves only once its operation's record holds its hash, and
\* the record never loses it: there is always something to reconcile.
SentIsRecorded ==
    \A o \in Procs : tx[o] # "unsent" => records[o] \in {"broadcast", "in_doubt", "complete", "failed"}

\* Whenever no process runs, an unresolved operation is the one the lock names:
\* a later process can reconcile it, and none can move funds before.
UnresolvedIsLocked ==
    (\A p \in Procs : ~alive(p)) =>
        \A o \in Procs : records[o] # none /\ ~terminal(records[o]) => owns(o)
=============================================================================
