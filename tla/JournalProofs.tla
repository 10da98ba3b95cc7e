---------------------------- MODULE JournalProofs ----------------------------
(***************************************************************************)
(* The journal never calls a transaction that left aborted, however many   *)
(* processes run at once and wherever they die; and, one process at a      *)
(* time, what may move funds is one operation, recorded and locked.        *)
(*                                                                         *)
(* Only the process of an operation decides that it was aborted, and after *)
(* that it only releases the lock.  The rest of the inductive invariant    *)
(* says why nothing else writes the verdict: a copy restored from a lock   *)
(* is the initial record, an update of the withdrawals keeps the status    *)
(* read before, and a refund, which never consults the submission          *)
(* boundary, is never found without its hash.                              *)
(***************************************************************************)
EXTENDS OperationJournal, FiniteSetTheorems, TLAPS

\* The process works on an operation, of a process that started.
OwnPcs == {"fill", "list", "scan", "readRecord", "restoreRecord", "rewriteLock", "receipt",
           "apply", "get", "assertOwns", "write", "release", "claim", "confirm"}

started(o) == o \in Procs /\ proc[o].pc # "off"

\* What a lock embeds is the initial record of a process that started.
LockSound(l) ==
    /\ l.st # "absent" => started(l.owner)
    /\ l.st = "held" => l.record \in {none, initial(l.owner)}

\* A recoverer's copy of the embedded record is the initial one.
Owners(r) ==
    /\ r.pc \in OwnPcs => started(r.own)
    /\ r.pc \in {"readRecord", "restoreRecord"} => r.record \in {none, initial(r.own)}

\* Where a recovery, an update and a release may lead.
Paths(r) ==
    /\ r.pc \in {"open", "readLock", "readRecord", "restoreRecord", "rewriteLock"} =>
            r.then \in {"open", "receipt", "apply"}
    /\ r.pc \in {"get", "assertOwns", "write"} => r.then \in {"build", "send", "gone"}
    /\ r.pc \in {"release", "claim", "confirm", "unlink"} =>
            r.then \in {"open", "build", "send", "gone"}

\* Only a process whose transaction has not left aborts, its own operation, and
\* it is then about to end; only its own status does a process carry over.
Updates(p, r, sent) ==
    r.pc \in {"get", "assertOwns", "write"} =>
        /\ r.next # "building"
        /\ r.next = none =>
             /\ r.own = p
             /\ r.command = "exit"
             /\ r.pc # "get" => r.record # "aborted"
        /\ r.next = "aborted" =>
             /\ r.own = p
             /\ ~r.guarded
             /\ r.then = "gone"
             /\ sent = "unsent"

\* The record and the transaction of a process, against where it is: an aborted
\* operation's process only releases the lock, and one that sent remembers it.
Outcome(r, status, sent) ==
    /\ r.pc = "off" => status = none /\ sent = "unsent"
    /\ r.command = "refund" => status # "building"
    /\ sent # "unsent" => r.crossed \/ r.pc = "gone"
    /\ status = "aborted" =>
         /\ sent = "unsent"
         /\ r.pc \in {"release", "claim", "confirm", "unlink", "gone"}
         /\ r.pc # "gone" => r.then = "gone" /\ ~r.guarded

Sound(p, r, status, sent) ==
    /\ Owners(r)
    /\ Paths(r)
    /\ Updates(p, r, sent)
    /\ Outcome(r, status, sent)

AbortInv ==
    /\ TypeOK
    /\ LockSound(lock)
    /\ \A p \in Procs : Sound(p, proc[p], records[p], tx[p])

-----------------------------------------------------------------------------
\* A step of one process keeps the invariant if the process itself, the lock and
\* the records of the others stay sound.
LEMMA StepKeeps ==
    ASSUME AbortInv, NEW p \in Procs, NEW n \in Process,
           proc' = [proc EXCEPT ![p] = n],
           n.pc # "off",
           proc[p].pc = "off" \/ n.command = proc[p].command,
           lock' \in ActiveLock, LockSound(lock'),
           claims' \in [Procs -> Seq(Procs)],
           records' \in [Procs -> Status \cup {none}],
           tx' \in [Procs -> {"unsent", "sent"} \cup Settled],
           Sound(p, n, records'[p], tx'[p]),
           \A q \in Procs \ {p} :
               /\ tx'[q] = tx[q]
               /\ \/ records'[q] = records[q]
                  \/ /\ started(q)
                     /\ records'[q] # "aborted"
                     /\ records'[q] = "building" => proc[q].command # "refund"
    PROVE  AbortInv'
<1>1. TypeOK'
  BY DEF AbortInv, TypeOK
<1>2. \A o : started(o) => started(o)' /\ initial(o)' = initial(o)
  BY DEF AbortInv, TypeOK, started, initial
<1>3. LockSound(lock)'
  BY <1>2 DEF LockSound
<1>4. ASSUME NEW q \in Procs
      PROVE  Sound(q, proc[q], records[q], tx[q])'
  <2>1. ASSUME NEW r, Owners(r) PROVE Owners(r)'
    BY <1>2, <2>1 DEF Owners, OwnPcs
  <2>2. CASE q = p
    <3>1. proc'[q] = n
      BY <2>2 DEF AbortInv, TypeOK
    <3>2. Owners(n)'
      BY <2>1 DEF Sound
    <3> QED BY <2>2, <3>1, <3>2 DEF Sound, Owners, Paths, Updates, Outcome
  <2>3. CASE q # p
    <3>1. /\ proc'[q] = proc[q]
          /\ tx'[q] = tx[q]
          /\ Sound(q, proc[q], records[q], tx[q])
      BY <2>3 DEF AbortInv, TypeOK
    <3>2. Outcome(proc[q], records'[q], tx[q])
      BY <2>3, <3>1 DEF Sound, Outcome, started, none
    <3>3. Owners(proc[q])'
      <4> DEFINE r == proc[q]
      <4>1. Owners(r)
        BY <3>1 DEF Sound
      <4> HIDE DEF r
      <4>2. r = proc'[q]
        BY <3>1 DEF r
      <4> QED BY <1>2, <3>1, <4>1, <4>2 DEF Owners, OwnPcs, r
    <3> QED BY <3>1, <3>2, <3>3 DEF Sound, Paths, Updates, Outcome
  <2> QED BY <2>2, <2>3
<1> QED BY <1>1, <1>3, <1>4 DEF AbortInv

\* The same when only the process moves.
LEMMA MoveKeeps ==
    ASSUME AbortInv, NEW p \in Procs, NEW n \in Process,
           proc' = [proc EXCEPT ![p] = n],
           n.pc # "off",
           n.command = proc[p].command,
           Sound(p, n, records[p], tx[p]),
           UNCHANGED <<lock, records, claims, tx>>
    PROVE  AbortInv'
<1>1. /\ lock' \in ActiveLock
      /\ LockSound(lock')
      /\ claims' \in [Procs -> Seq(Procs)]
      /\ records' \in [Procs -> Status \cup {none}]
      /\ tx' \in [Procs -> {"unsent", "sent"} \cup Settled]
  BY DEF AbortInv, TypeOK
<1>2. \A q \in Procs : records'[q] = records[q] /\ tx'[q] = tx[q]
  OBVIOUS
<1> QED BY <1>1, <1>2, StepKeeps

\* What the invariant says of one process.
LEMMA ProcessSound ==
    ASSUME AbortInv, NEW p \in Procs
    PROVE  /\ proc[p] \in Process
           /\ Sound(p, proc[p], records[p], tx[p])
           /\ records[p] \in Status \cup {none}
  BY DEF AbortInv, TypeOK

\* A process may end wherever it is.
LEMMA ExitKeeps ==
    ASSUME AbortInv, NEW p \in Procs, proc[p].pc # "off", exit(p),
           UNCHANGED <<lock, records, claims, tx>>
    PROVE  AbortInv'
<1> DEFINE n == [Off EXCEPT !.pc = "gone", !.command = proc[p].command]
<1>1. n \in Process /\ n.pc = "gone" /\ n.command = proc[p].command
  BY ProcessSound DEF Off, Process, Pc, none
<1>2. Sound(p, n, records[p], tx[p])
  BY <1>1, ProcessSound DEF Sound, Owners, OwnPcs, Paths, Updates, Outcome
<1>3. proc' = [proc EXCEPT ![p] = n]
  BY DEF exit, step
<1> HIDE DEF n
<1> QED BY <1>1, <1>2, <1>3, MoveKeeps

\* An error in an update or a release ends the process or is caught.
LEMMA ThrowKeeps ==
    ASSUME AbortInv, NEW p \in Procs, throw(p),
           proc[p].pc \in {"assertOwns", "release", "claim", "confirm", "unlink"},
           UNCHANGED <<lock, records, claims, tx>>
    PROVE  AbortInv'
<1>0. proc[p] \in Process /\ Sound(p, proc[p], records[p], tx[p])
  BY ProcessSound
<1>1. CASE ~proc[p].guarded
  BY <1>1, ExitKeeps DEF throw
<1>2. CASE proc[p].guarded
  <2> DEFINE n == [proc[p] EXCEPT !.pc = "failOrAbort", !.own = p]
  <2>1. n \in Process
    BY <1>0, Zenon DEF Process, Pc
  <2>2. /\ n.pc = "failOrAbort"
        /\ n.command = proc[p].command
        /\ n.crossed <=> proc[p].crossed
    BY <1>0 DEF Process
  <2>3. Sound(p, n, records[p], tx[p])
    BY <1>0, <1>2, <2>2 DEF Sound, Owners, OwnPcs, Paths, Updates, Outcome
  <2>4. proc' = [proc EXCEPT ![p] = n]
    BY <1>2 DEF throw, step
  <2> HIDE DEF n
  <2> QED BY <2>1, <2>2, <2>3, <2>4, MoveKeeps
<1> QED BY <1>1, <1>2

\* An update begins, of an operation whose process started.
LEMMA UpdatesKeeps ==
    ASSUME AbortInv, NEW p \in Procs, NEW o, NEW status \in Status \cup {none},
           NEW after \in {"build", "send", "gone"}, NEW caught \in BOOLEAN,
           updates(p, o, status, after, caught),
           proc[p].pc \notin {"off", "gone"}, started(o), records[p] # "aborted",
           status # "building",
           status = none => o = p /\ proc[p].command = "exit",
           status = "aborted" => o = p /\ ~caught /\ after = "gone" /\ tx[p] = "unsent",
           UNCHANGED <<lock, records, claims, tx>>
    PROVE  AbortInv'
<1> DEFINE n == [proc[p] EXCEPT !.pc = "get", !.own = o, !.next = status, !.then = after,
                                !.guarded = caught]
<1>0. proc[p] \in Process /\ Sound(p, proc[p], records[p], tx[p])
  BY ProcessSound
<1>1. n \in Process
  <2>1. "get" \in Pc /\ after \in Pc /\ o \in Procs
    BY DEF Pc, started
  <2> QED BY <1>0, <2>1, Zenon DEF Process
<1>2. /\ n.pc = "get"
      /\ n.own = o
      /\ n.next = status
      /\ n.then = after
      /\ n.guarded <=> caught
      /\ n.command = proc[p].command
      /\ n.crossed <=> proc[p].crossed
  BY <1>0 DEF Process
<1>3. Sound(p, n, records[p], tx[p])
  BY <1>0, <1>2 DEF Sound, Owners, OwnPcs, Paths, Updates, Outcome
<1>4. proc' = [proc EXCEPT ![p] = n]
  BY DEF updates, step
<1> HIDE DEF n
<1> QED BY <1>1, <1>2, <1>3, <1>4, MoveKeeps
-----------------------------------------------------------------------------
(* The actions. *)

\* A process starts with a command.
LEMMA StartKeeps ==
    ASSUME AbortInv, NEW p \in Procs, Start(p)
    PROVE  AbortInv'
<1>0. proc[p] \in Process /\ Sound(p, proc[p], records[p], tx[p])
  BY ProcessSound
<1>1. PICK c \in Commands :
         step(p, [Off EXCEPT !.command = c, !.pc = IF c = "reconcile" THEN "readLock" ELSE "open",
                             !.then = IF c = "reconcile" THEN "receipt" ELSE "open"])
  BY DEF Start
<1> DEFINE n == [Off EXCEPT !.command = c, !.pc = IF c = "reconcile" THEN "readLock" ELSE "open",
                            !.then = IF c = "reconcile" THEN "receipt" ELSE "open"]
<1>2. n \in Process /\ n.pc \in {"readLock", "open"} /\ n.then \in {"open", "receipt"}
  BY DEF Off, Process, Pc, none
<1>3. Sound(p, n, records[p], tx[p])
  BY <1>0, <1>2 DEF Start, Sound, Owners, OwnPcs, Paths, Updates, Outcome, none
<1>4. proc' = [proc EXCEPT ![p] = n]
  BY <1>1 DEF step
<1>5. lock' \in ActiveLock /\ LockSound(lock')
  BY DEF Start, AbortInv, TypeOK
<1>6. /\ claims' \in [Procs -> Seq(Procs)]
      /\ records' \in [Procs -> Status \cup {none}]
      /\ tx' \in [Procs -> {"unsent", "sent"} \cup Settled]
      /\ \A q \in Procs : tx'[q] = tx[q] /\ records'[q] = records[q]
  BY DEF Start, AbortInv, TypeOK
<1>7. proc[p].pc = "off" /\ n.pc # "off"
  BY <1>2 DEF Start
<1> HIDE DEF n
<1> QED BY <1>2, <1>3, <1>4, <1>5, <1>6, <1>7, StepKeeps

\* The lock is created, or a recovery of the one that exists begins.
LEMMA OpenLockKeeps ==
    ASSUME AbortInv, NEW p \in Procs, OpenLock(p)
    PROVE  AbortInv'
<1>0. proc[p] \in Process /\ Sound(p, proc[p], records[p], tx[p])
  BY ProcessSound
<1>1. CASE lock = Absent
  <2> DEFINE n == [proc[p] EXCEPT !.pc = "fill", !.own = p]
  <2>1. n \in Process
    BY <1>0, Zenon DEF Process, Pc
  <2>2. /\ n.pc = "fill"
        /\ n.command = proc[p].command
        /\ n.crossed <=> proc[p].crossed
        /\ n.then = proc[p].then
        /\ n.own = p
        /\ n.guarded <=> proc[p].guarded
        /\ n.record = proc[p].record
        /\ n.next = proc[p].next
    BY <1>0, <1>1 DEF Process
  <2>3. Sound(p, n, records[p], tx[p])
    BY <1>0, <1>1, <2>2 DEF Sound, Owners, OwnPcs, Paths, Updates, Outcome, OpenLock, started
  <2>4. proc' = [proc EXCEPT ![p] = n]
    BY <1>1 DEF OpenLock, step
  <2>5. lock' \in ActiveLock /\ LockSound(lock')
    BY <1>0, <1>1 DEF OpenLock, step, AbortInv, TypeOK, LockSound, started, ActiveLock, Created
  <2>6. /\ claims' \in [Procs -> Seq(Procs)]
        /\ records' \in [Procs -> Status \cup {none}]
        /\ tx' \in [Procs -> {"unsent", "sent"} \cup Settled]
    BY <1>0, <1>1 DEF OpenLock, step, AbortInv, TypeOK
  <2>7. \A q \in Procs : tx'[q] = tx[q] /\ records'[q] = records[q]
    BY <1>1 DEF OpenLock, step, AbortInv, TypeOK
  <2>8. n.pc # "off" /\ n.command = proc[p].command
    BY <2>2
  <2> HIDE DEF n
  <2> QED BY <2>1, <2>3, <2>4, <2>5, <2>6, <2>7, <2>8, StepKeeps
<1>2. CASE lock # Absent
  <2> DEFINE n == [proc[p] EXCEPT !.pc = "readLock"]
  <2>1. n \in Process
    BY <1>0, Zenon DEF Process, Pc
  <2>2. /\ n.pc = "readLock"
        /\ n.command = proc[p].command
        /\ n.crossed <=> proc[p].crossed
        /\ n.then = proc[p].then
        /\ n.own = proc[p].own
        /\ n.guarded <=> proc[p].guarded
        /\ n.record = proc[p].record
        /\ n.next = proc[p].next
    BY <1>0, <1>2 DEF Process
  <2>3. Sound(p, n, records[p], tx[p])
    BY <1>0, <1>2, <2>2 DEF Sound, Owners, OwnPcs, Paths, Updates, Outcome, OpenLock
  <2>4. proc' = [proc EXCEPT ![p] = n]
    BY <1>2 DEF OpenLock, go
  <2>5. UNCHANGED <<lock, records, claims, tx>>
    BY <1>2 DEF OpenLock, go
  <2> HIDE DEF n
  <2> QED BY <2>1, <2>2, <2>3, <2>4, <2>5, MoveKeeps
<1> QED BY <1>1, <1>2

\* The lock gets its owner and the initial record.
LEMMA FillLockKeeps ==
    ASSUME AbortInv, NEW p \in Procs, FillLock(p)
    PROVE  AbortInv'
<1>0. proc[p] \in Process /\ Sound(p, proc[p], records[p], tx[p])
  BY ProcessSound
<1> DEFINE n == [proc[p] EXCEPT !.pc = "list"]
<1>1. n \in Process
  BY <1>0, Zenon DEF Process, Pc
<1>2. /\ n.pc = "list"
      /\ n.command = proc[p].command
      /\ n.crossed <=> proc[p].crossed
      /\ n.then = proc[p].then
      /\ n.own = proc[p].own
      /\ n.guarded <=> proc[p].guarded
      /\ n.record = proc[p].record
      /\ n.next = proc[p].next
  BY <1>0 DEF Process
<1>3. Sound(p, n, records[p], tx[p])
  BY <1>0, <1>2 DEF Sound, Owners, OwnPcs, Paths, Updates, Outcome, FillLock
<1>4. proc' = [proc EXCEPT ![p] = n]
  BY DEF FillLock, go
<1>5. lock' \in ActiveLock /\ LockSound(lock')
  BY <1>0 DEF FillLock, go, AbortInv, TypeOK, LockSound, started, ActiveLock, Created, Held, initial, none
<1>6. /\ claims' \in [Procs -> Seq(Procs)]
      /\ records' \in [Procs -> Status \cup {none}]
      /\ tx' \in [Procs -> {"unsent", "sent"} \cup Settled]
  BY <1>0 DEF FillLock, go, AbortInv, TypeOK
<1>7. \A q \in Procs : tx'[q] = tx[q] /\ records'[q] = records[q]
  BY DEF FillLock, go, AbortInv, TypeOK
<1>8. n.pc # "off" /\ n.command = proc[p].command
  BY <1>2
<1> HIDE DEF n
<1> QED BY <1>1, <1>3, <1>4, <1>5, <1>6, <1>7, <1>8, StepKeeps

\* The journal is listed.
LEMMA ListRecordsKeeps ==
    ASSUME AbortInv, NEW p \in Procs, ListRecords(p)
    PROVE  AbortInv'
<1>0. proc[p] \in Process /\ Sound(p, proc[p], records[p], tx[p])
  BY ProcessSound
<1> DEFINE n == [proc[p] EXCEPT !.pc = "scan", !.seen = {o \in Procs : records[o] # none}]
<1>1. n \in Process
  BY <1>0, Zenon DEF Process, Pc
<1>2. /\ n.pc = "scan"
      /\ n.command = proc[p].command
      /\ n.crossed <=> proc[p].crossed
      /\ n.then = proc[p].then
      /\ n.own = proc[p].own
      /\ n.guarded <=> proc[p].guarded
      /\ n.record = proc[p].record
      /\ n.next = proc[p].next
  BY <1>0 DEF Process
<1>3. Sound(p, n, records[p], tx[p])
  BY <1>0, <1>2 DEF Sound, Owners, OwnPcs, Paths, Updates, Outcome, ListRecords
<1>4. proc' = [proc EXCEPT ![p] = n]
  BY DEF ListRecords, step
<1>5. UNCHANGED <<lock, records, claims, tx>>
  BY DEF ListRecords, step
<1> HIDE DEF n
<1> QED BY <1>1, <1>2, <1>3, <1>4, <1>5, MoveKeeps

\* An unresolved record sends an owner back and stops a recoverer.
LEMMA ScanRecordsKeeps ==
    ASSUME AbortInv, NEW p \in Procs, ScanRecords(p)
    PROVE  AbortInv'
<1>0. proc[p] \in Process /\ Sound(p, proc[p], records[p], tx[p])
  BY ProcessSound
<1> DEFINE unresolved == \E o \in proc[p].seen : ~terminal(records[o])
<1> DEFINE pc == IF unresolved THEN "release" ELSE "publish"
<1>4. pc \in {"release", "publish"}
  OBVIOUS
<1>5. pc \in Pc /\ "gone" \in Pc
  BY <1>4 DEF Pc
<1>1. CASE proc[p].own = p
  <2> DEFINE n == [[proc[p] EXCEPT !.seen = {}] EXCEPT !.pc = pc, !.then = "gone"]
  <2>1. n \in Process
    BY <1>0, <1>4, <1>5, Zenon DEF Process
  <2>2. /\ n.pc \in {"release", "publish"}
        /\ n.then = "gone"
        /\ n.own = proc[p].own
        /\ n.command = proc[p].command
        /\ n.crossed <=> proc[p].crossed
    BY <1>0, <1>1, <1>4 DEF Process
  <2>3. Sound(p, n, records[p], tx[p])
    BY <1>0, <1>1, <1>4, <2>2 DEF Sound, Owners, OwnPcs, Paths, Updates, Outcome, ScanRecords
  <2>4. proc' = [proc EXCEPT ![p] = n]
    BY <1>1, <1>4 DEF ScanRecords, step
  <2>5. UNCHANGED <<lock, records, claims, tx>>
    BY <1>1, <1>4 DEF ScanRecords, step
  <2> HIDE DEF n
  <2> QED BY <2>1, <2>2, <2>3, <2>4, <2>5, MoveKeeps
<1>2. CASE proc[p].own # p /\ unresolved
  BY <1>2, ExitKeeps DEF ScanRecords
<1>3. CASE proc[p].own # p /\ ~unresolved
  <2> DEFINE n == [[proc[p] EXCEPT !.seen = {}] EXCEPT !.pc = "release", !.then = "open"]
  <2>1. n \in Process
    BY <1>0, Zenon DEF Process, Pc
  <2>2. /\ n.pc = "release"
        /\ n.then = "open"
        /\ n.own = proc[p].own
        /\ n.command = proc[p].command
        /\ n.crossed <=> proc[p].crossed
    BY <1>0, <1>3 DEF Process
  <2>3. Sound(p, n, records[p], tx[p])
    BY <1>0, <1>3, <2>2 DEF Sound, Owners, OwnPcs, Paths, Updates, Outcome, ScanRecords
  <2>4. proc' = [proc EXCEPT ![p] = n]
    BY <1>3 DEF ScanRecords, step
  <2>5. UNCHANGED <<lock, records, claims, tx>>
    BY <1>3 DEF ScanRecords, step
  <2> HIDE DEF n
  <2> QED BY <2>1, <2>2, <2>3, <2>4, <2>5, MoveKeeps
<1> QED BY <1>1, <1>2, <1>3

\* The initial record becomes a file.
LEMMA PublishRecordKeeps ==
    ASSUME AbortInv, NEW p \in Procs, PublishRecord(p)
    PROVE  AbortInv'
<1>0. proc[p] \in Process /\ Sound(p, proc[p], records[p], tx[p])
  BY ProcessSound
<1> DEFINE n == [proc[p] EXCEPT !.pc = "strip"]
<1>1. n \in Process
  BY <1>0, Zenon DEF Process, Pc
<1>2. /\ n.pc = "strip"
      /\ n.command = proc[p].command
      /\ n.crossed <=> proc[p].crossed
      /\ n.then = proc[p].then
      /\ n.own = proc[p].own
      /\ n.guarded <=> proc[p].guarded
      /\ n.record = proc[p].record
      /\ n.next = proc[p].next
  BY <1>0 DEF Process
<1>3. Sound(p, n, records'[p], tx'[p])
  BY <1>0, <1>2 DEF Sound, Owners, OwnPcs, Paths, Updates, Outcome, PublishRecord, initial, AbortInv, TypeOK
<1>4. proc' = [proc EXCEPT ![p] = n]
  BY DEF PublishRecord, go
<1>5. lock' \in ActiveLock /\ LockSound(lock')
  BY <1>0 DEF PublishRecord, go, AbortInv, TypeOK, LockSound, started
<1>6. /\ claims' \in [Procs -> Seq(Procs)]
      /\ records' \in [Procs -> Status \cup {none}]
      /\ tx' \in [Procs -> {"unsent", "sent"} \cup Settled]
  BY <1>0 DEF PublishRecord, go, AbortInv, TypeOK, initial, Status
<1>7. \A q \in Procs \ {p} : tx'[q] = tx[q] /\ records'[q] = records[q]
  BY DEF PublishRecord, go, AbortInv, TypeOK
<1>8. n.pc # "off" /\ n.command = proc[p].command
  BY <1>2
<1> HIDE DEF n
<1> QED BY <1>1, <1>3, <1>4, <1>5, <1>6, <1>7, <1>8, StepKeeps

\* The lock drops its copy of the record and the command goes on.
LEMMA StripLockKeeps ==
    ASSUME AbortInv, NEW p \in Procs, StripLock(p)
    PROVE  AbortInv'
<1>0. proc[p] \in Process /\ Sound(p, proc[p], records[p], tx[p])
  BY ProcessSound
<1> DEFINE pc == IF proc[p].command = "refund" THEN "send" ELSE "build"
<1>a. pc \in {"send", "build"} /\ pc \in Pc
  BY DEF Pc
<1> DEFINE n == [proc[p] EXCEPT !.pc = pc]
<1>1. n \in Process
  BY <1>0, <1>a, Zenon DEF Process
<1>2. /\ n.pc \in {"send", "build"}
      /\ n.command = proc[p].command
      /\ n.crossed <=> proc[p].crossed
      /\ n.then = proc[p].then
      /\ n.own = proc[p].own
      /\ n.guarded <=> proc[p].guarded
      /\ n.record = proc[p].record
      /\ n.next = proc[p].next
  BY <1>0, <1>a DEF Process
<1>3. Sound(p, n, records[p], tx[p])
  BY <1>0, <1>a, <1>2 DEF Sound, Owners, OwnPcs, Paths, Updates, Outcome, StripLock
<1>4. proc' = [proc EXCEPT ![p] = n]
  BY <1>a DEF StripLock, go
<1>5. lock' \in ActiveLock /\ LockSound(lock')
  BY <1>0, <1>a DEF StripLock, go, AbortInv, TypeOK, LockSound, started, ActiveLock, Held, none
<1>6. /\ claims' \in [Procs -> Seq(Procs)]
      /\ records' \in [Procs -> Status \cup {none}]
      /\ tx' \in [Procs -> {"unsent", "sent"} \cup Settled]
  BY <1>0, <1>a DEF StripLock, go, AbortInv, TypeOK
<1>7. \A q \in Procs : tx'[q] = tx[q] /\ records'[q] = records[q]
  BY <1>a DEF StripLock, go, AbortInv, TypeOK
<1>8. n.pc # "off" /\ n.command = proc[p].command
  BY <1>2
<1> HIDE DEF n
<1> QED BY <1>1, <1>3, <1>4, <1>5, <1>6, <1>7, <1>8, StepKeeps

\* What the fields of a held lock are.
LEMMA LockFields ==
    ASSUME AbortInv, lock.st = "held"
    PROVE  lock.owner \in Procs \cup {none} /\ lock.record \in Status \cup {none}
  BY DEF AbortInv, TypeOK, ActiveLock, Absent, Created, Held, Status, none

\* What follows a recovery, the lock unchanged or rewritten for the same owner.
LEMMA RecoveredKeeps ==
    ASSUME AbortInv, NEW p \in Procs, NEW status, recovered(p, status),
           proc[p].pc \in {"readRecord", "rewriteLock"},
           lock' = lock \/ lock' = Held(proc[p].own, none),
           UNCHANGED <<records, claims, tx>>
    PROVE  AbortInv'
<1>0. proc[p] \in Process /\ Sound(p, proc[p], records[p], tx[p])
  BY ProcessSound
<1>1. /\ lock' \in ActiveLock
      /\ LockSound(lock')
      /\ claims' \in [Procs -> Seq(Procs)]
      /\ records' \in [Procs -> Status \cup {none}]
      /\ tx' \in [Procs -> {"unsent", "sent"} \cup Settled]
      /\ \A q \in Procs : tx'[q] = tx[q] /\ records'[q] = records[q]
  BY <1>0 DEF AbortInv, TypeOK, LockSound, Sound, Owners, OwnPcs, started, ActiveLock, Held
<1>2. CASE exit(p)
  <2> DEFINE n == [Off EXCEPT !.pc = "gone", !.command = proc[p].command]
  <2>1. n \in Process /\ n.pc = "gone" /\ n.command = proc[p].command
    BY <1>0 DEF Off, Process, Pc, none
  <2>2. Sound(p, n, records[p], tx[p])
    BY <1>0, <2>1 DEF Sound, Owners, OwnPcs, Paths, Updates, Outcome
  <2>3. proc' = [proc EXCEPT ![p] = n]
    BY <1>2 DEF exit, step
  <2>4. n.pc # "off"
    BY <2>1
  <2> HIDE DEF n
  <2> QED BY <1>1, <2>1, <2>2, <2>3, <2>4, StepKeeps
<1>3. ASSUME NEW pc \in {"list", proc[p].then}, pc = proc[p].then => proc[p].then # "open",
             step(p, [[proc[p] EXCEPT !.record = none] EXCEPT !.pc = pc])
      PROVE  AbortInv'
  <2> DEFINE n == [[proc[p] EXCEPT !.record = none] EXCEPT !.pc = pc]
  <2>1. pc \in {"list", "receipt", "apply"}
    BY <1>0, <1>3 DEF Sound, Paths
  <2>2. n \in Process
    BY <1>0, <2>1, Zenon DEF Process, Pc
  <2>3. /\ n.pc = pc
        /\ n.own = proc[p].own
        /\ n.command = proc[p].command
        /\ n.crossed <=> proc[p].crossed
    BY <1>0 DEF Process
  <2>4. Sound(p, n, records[p], tx[p])
    BY <1>0, <2>1, <2>3 DEF Sound, Owners, OwnPcs, Paths, Updates, Outcome
  <2>5. proc' = [proc EXCEPT ![p] = n]
    BY <1>3 DEF step
  <2>6. n.pc # "off" /\ n.command = proc[p].command
    BY <2>1, <2>3
  <2> HIDE DEF n
  <2> QED BY <1>1, <2>2, <2>4, <2>5, <2>6, StepKeeps
<1>4. CASE proc[p].then = "open"
  BY <1>2, <1>3, <1>4 DEF recovered
<1>5. CASE proc[p].then # "open"
  BY <1>2, <1>3, <1>5 DEF recovered
<1> QED BY <1>4, <1>5

\* A recovery copies the owner and the embedded record from the lock.
LEMMA ReadLockKeeps ==
    ASSUME AbortInv, NEW p \in Procs, ReadLock(p)
    PROVE  AbortInv'
<1>0. proc[p] \in Process /\ Sound(p, proc[p], records[p], tx[p])
  BY ProcessSound
<1>1. CASE lock.st = "held"
  <2> DEFINE n == [proc[p] EXCEPT !.pc = "readRecord", !.own = lock.owner, !.record = lock.record]
  <2>1. n \in Process
    BY <1>0, <1>1, LockFields, Zenon DEF Process, Pc
  <2>2. /\ n.pc = "readRecord"
        /\ n.own = lock.owner
        /\ n.record = lock.record
        /\ n.then = proc[p].then
        /\ n.command = proc[p].command
        /\ n.crossed <=> proc[p].crossed
    BY <1>0, <1>1 DEF Process
  <2>3. Sound(p, n, records[p], tx[p])
    BY <1>0, <1>1, <2>2 DEF Sound, Owners, OwnPcs, Paths, Updates, Outcome, ReadLock, AbortInv, LockSound
  <2>4. proc' = [proc EXCEPT ![p] = n]
    BY <1>1 DEF ReadLock, step
  <2>5. UNCHANGED <<lock, records, claims, tx>>
    BY <1>1 DEF ReadLock, step
  <2> HIDE DEF n
  <2> QED BY <2>1, <2>2, <2>3, <2>4, <2>5, MoveKeeps
<1>2. CASE lock.st # "held"
  BY <1>2, ExitKeeps DEF ReadLock
<1> QED BY <1>1, <1>2

\* The record is read, or the copy the lock embeds is to be restored.
LEMMA ReadRecordKeeps ==
    ASSUME AbortInv, NEW p \in Procs, ReadRecord(p)
    PROVE  AbortInv'
<1>0. proc[p] \in Process /\ Sound(p, proc[p], records[p], tx[p])
  BY ProcessSound
<1> DEFINE status == records[proc[p].own]
<1>5. status \in Status \cup {none}
  BY <1>0 DEF ReadRecord, AbortInv, TypeOK, Sound, Owners, OwnPcs, started
<1>1. CASE status # none /\ proc[p].record = none
  BY <1>1, RecoveredKeeps DEF ReadRecord
<1>2. CASE status # none /\ proc[p].record # none
  <2> DEFINE n == [proc[p] EXCEPT !.pc = "rewriteLock", !.record = status]
  <2>1. n \in Process
    BY <1>0, <1>5, Zenon DEF Process, Pc
  <2>2. /\ n.pc = "rewriteLock"
        /\ n.own = proc[p].own
        /\ n.then = proc[p].then
        /\ n.command = proc[p].command
        /\ n.crossed <=> proc[p].crossed
    BY <1>0, <1>2 DEF Process
  <2>3. Sound(p, n, records[p], tx[p])
    BY <1>0, <1>2, <2>2 DEF Sound, Owners, OwnPcs, Paths, Updates, Outcome, ReadRecord
  <2>4. proc' = [proc EXCEPT ![p] = n]
    BY <1>2 DEF ReadRecord, step
  <2>5. UNCHANGED <<lock, records, claims, tx>>
    BY <1>2 DEF ReadRecord, step
  <2> HIDE DEF n
  <2> QED BY <2>1, <2>2, <2>3, <2>4, <2>5, MoveKeeps
<1>3. CASE status = none /\ proc[p].record # none
  <2> DEFINE n == [proc[p] EXCEPT !.pc = "restoreRecord"]
  <2>1. n \in Process
    BY <1>0, Zenon DEF Process, Pc
  <2>2. /\ n.pc = "restoreRecord"
        /\ n.command = proc[p].command
        /\ n.crossed <=> proc[p].crossed
        /\ n.then = proc[p].then
        /\ n.own = proc[p].own
        /\ n.guarded <=> proc[p].guarded
        /\ n.record = proc[p].record
        /\ n.next = proc[p].next
    BY <1>0, <1>3 DEF Process
  <2>3. Sound(p, n, records[p], tx[p])
    BY <1>0, <1>3, <2>2 DEF Sound, Owners, OwnPcs, Paths, Updates, Outcome, ReadRecord
  <2>4. proc' = [proc EXCEPT ![p] = n]
    BY <1>3 DEF ReadRecord, go
  <2>5. UNCHANGED <<lock, records, claims, tx>>
    BY <1>3 DEF ReadRecord, go
  <2> HIDE DEF n
  <2> QED BY <2>1, <2>2, <2>3, <2>4, <2>5, MoveKeeps
<1>4. CASE status = none /\ proc[p].record = none
  BY <1>4, ExitKeeps DEF ReadRecord
<1> QED BY <1>1, <1>2, <1>3, <1>4

\* The embedded record becomes a file again: the initial one.
LEMMA RestoreRecordKeeps ==
    ASSUME AbortInv, NEW p \in Procs, RestoreRecord(p)
    PROVE  AbortInv'
<1>0. proc[p] \in Process /\ Sound(p, proc[p], records[p], tx[p])
  BY ProcessSound
<1> DEFINE n == [proc[p] EXCEPT !.pc = "rewriteLock"]
<1>1. n \in Process
  BY <1>0, Zenon DEF Process, Pc
<1>2. /\ n.pc = "rewriteLock"
      /\ n.command = proc[p].command
      /\ n.crossed <=> proc[p].crossed
      /\ n.then = proc[p].then
      /\ n.own = proc[p].own
      /\ n.guarded <=> proc[p].guarded
      /\ n.record = proc[p].record
      /\ n.next = proc[p].next
  BY <1>0 DEF Process
<1>3. Sound(p, n, records'[p], tx'[p])
  BY <1>0, <1>2 DEF Sound, Owners, OwnPcs, Paths, Updates, Outcome, RestoreRecord, initial, none, AbortInv, TypeOK
<1>4. proc' = [proc EXCEPT ![p] = n]
  BY DEF RestoreRecord, go
<1>5. lock' \in ActiveLock /\ LockSound(lock')
  BY DEF RestoreRecord, go, AbortInv, TypeOK
<1>6. /\ claims' \in [Procs -> Seq(Procs)]
      /\ records' \in [Procs -> Status \cup {none}]
      /\ tx' \in [Procs -> {"unsent", "sent"} \cup Settled]
  BY <1>0 DEF RestoreRecord, go, AbortInv, TypeOK, Process
<1>7. \A q \in Procs \ {p} :
         /\ tx'[q] = tx[q]
         /\ \/ records'[q] = records[q]
            \/ /\ started(q)
               /\ records'[q] # "aborted"
               /\ records'[q] = "building" => proc[q].command # "refund"
  BY <1>0 DEF RestoreRecord, go, AbortInv, TypeOK, RestoreRecord, initial, none, Sound, Owners, OwnPcs, started
<1>8. n.pc # "off" /\ n.command = proc[p].command
  BY <1>0, <1>2
<1> HIDE DEF n
<1> QED BY <1>1, <1>3, <1>4, <1>5, <1>6, <1>7, <1>8, StepKeeps

\* The lock is stripped for its owner.
LEMMA RewriteLockKeeps ==
    ASSUME AbortInv, NEW p \in Procs, RewriteLock(p)
    PROVE  AbortInv'
  BY RecoveredKeeps DEF RewriteLock

\* An update reads the record.
LEMMA GetKeeps ==
    ASSUME AbortInv, NEW p \in Procs, Get(p)
    PROVE  AbortInv'
<1>0. proc[p] \in Process /\ Sound(p, proc[p], records[p], tx[p])
  BY ProcessSound
<1>a. records[proc[p].own] \in Status \cup {none}
  BY <1>0 DEF Get, AbortInv, TypeOK, Sound, Owners, OwnPcs, started
<1> DEFINE n == [proc[p] EXCEPT !.pc = "assertOwns", !.record = records[proc[p].own]]
<1>1. n \in Process
  BY <1>0, <1>a, Zenon DEF Process, Pc
<1>2. /\ n.pc = "assertOwns"
      /\ n.record = records[proc[p].own]
      /\ n.own = proc[p].own
      /\ n.next = proc[p].next
      /\ n.then = proc[p].then
      /\ n.guarded <=> proc[p].guarded
      /\ n.command = proc[p].command
      /\ n.crossed <=> proc[p].crossed
  BY <1>0, <1>a DEF Process
<1>3. Sound(p, n, records[p], tx[p])
  BY <1>0, <1>a, <1>2 DEF Sound, Owners, OwnPcs, Paths, Updates, Outcome, Get
<1>4. proc' = [proc EXCEPT ![p] = n]
  BY <1>a DEF Get, step
<1>5. UNCHANGED <<lock, records, claims, tx>>
  BY <1>a DEF Get, step
<1> HIDE DEF n
<1> QED BY <1>1, <1>2, <1>3, <1>4, <1>5, MoveKeeps

\* An update goes on if the lock is the operation's and the transition legal.
LEMMA AssertOwnsKeeps ==
    ASSUME AbortInv, NEW p \in Procs, AssertOwns(p)
    PROVE  AbortInv'
<1>0. proc[p] \in Process /\ Sound(p, proc[p], records[p], tx[p])
  BY ProcessSound
<1> DEFINE fine == /\ owns(proc[p].own)
                   /\ proc[p].next \in {none, proc[p].record} \cup transitions[proc[p].record]
<1>1. CASE fine
  <2> DEFINE n == [proc[p] EXCEPT !.pc = "write"]
  <2>1. n \in Process
    BY <1>0, Zenon DEF Process, Pc
  <2>2. /\ n.pc = "write"
        /\ n.command = proc[p].command
        /\ n.crossed <=> proc[p].crossed
        /\ n.then = proc[p].then
        /\ n.own = proc[p].own
        /\ n.guarded <=> proc[p].guarded
        /\ n.record = proc[p].record
        /\ n.next = proc[p].next
    BY <1>0, <1>1 DEF Process
  <2>3. Sound(p, n, records[p], tx[p])
    BY <1>0, <1>1, <2>2 DEF Sound, Owners, OwnPcs, Paths, Updates, Outcome, AssertOwns
  <2>4. proc' = [proc EXCEPT ![p] = n]
    BY <1>1 DEF AssertOwns, go
  <2>5. UNCHANGED <<lock, records, claims, tx>>
    BY <1>1 DEF AssertOwns, go
  <2> HIDE DEF n
  <2> QED BY <2>1, <2>2, <2>3, <2>4, <2>5, MoveKeeps
<1>2. CASE ~fine
  BY <1>2, ThrowKeeps DEF AssertOwns
<1> QED BY <1>1, <1>2

\* The status is written; a terminal one is followed by the release.
LEMMA WriteKeeps ==
    ASSUME AbortInv, NEW p \in Procs, Write(p)
    PROVE  AbortInv'
<1>0. proc[p] \in Process /\ Sound(p, proc[p], records[p], tx[p])
  BY ProcessSound
<1> DEFINE status == IF proc[p].next = none THEN proc[p].record ELSE proc[p].next
           done == [proc[p] EXCEPT !.record = none, !.next = none]
<1>1. /\ proc[p].pc = "write"
      /\ started(proc[p].own)
      /\ status \in Status \cup {none}
      /\ records' = [records EXCEPT ![proc[p].own] = status]
      /\ lock' = lock /\ claims' = claims /\ tx' = tx
  BY <1>0 DEF Write, Sound, Owners, OwnPcs, Process
<1>2. /\ status = "aborted" =>
           proc[p].own = p /\ ~proc[p].guarded /\ proc[p].then = "gone" /\ tx[p] = "unsent"
      /\ status = "building" => proc[proc[p].own].command # "refund"
  BY <1>0, <1>1 DEF Sound, Updates, none
<1>3. /\ lock' \in ActiveLock
      /\ LockSound(lock')
      /\ claims' \in [Procs -> Seq(Procs)]
      /\ records' \in [Procs -> Status \cup {none}]
      /\ tx' \in [Procs -> {"unsent", "sent"} \cup Settled]
  <2> HIDE DEF status
  <2> QED BY <1>1 DEF AbortInv, TypeOK, started
<1>4. \A q \in Procs \ {p} :
         /\ tx'[q] = tx[q]
         /\ \/ records'[q] = records[q]
            \/ /\ started(q)
               /\ records'[q] # "aborted"
               /\ records'[q] = "building" => proc[q].command # "refund"
  <2> HIDE DEF status
  <2> QED BY <1>1, <1>2 DEF AbortInv, TypeOK
<1>5. \/ records'[p] = records[p] /\ records[p] # "aborted"
      \/ proc[p].own = p /\ records'[p] = status
  <2>1. records[p] # "aborted"
    BY <1>0, <1>1 DEF Sound, Outcome
  <2> HIDE DEF status
  <2> QED BY <1>1, <2>1 DEF AbortInv, TypeOK
<1>6. \/ step(p, [done EXCEPT !.pc = "release"]) /\ terminal(status)
      \/ exit(p) /\ ~terminal(status)
      \/ /\ step(p, [done EXCEPT !.pc = proc[p].then, !.then = none])
         /\ ~terminal(status) /\ proc[p].then # "gone"
  BY DEF Write
<1> HIDE DEF status
<1>7. CASE step(p, [done EXCEPT !.pc = "release"]) /\ terminal(status)
  <2> DEFINE n == [done EXCEPT !.pc = "release"]
  <2>1. n \in Process
    BY <1>0, Zenon DEF Process, Pc
  <2>2. /\ n.pc = "release"
        /\ n.own = proc[p].own
        /\ n.then = proc[p].then
        /\ n.guarded <=> proc[p].guarded
        /\ n.command = proc[p].command
        /\ n.crossed <=> proc[p].crossed
    BY <1>0 DEF Process
  <2>3. Sound(p, n, records'[p], tx'[p])
    BY <1>0, <1>1, <1>2, <1>5, <2>2 DEF Sound, Owners, OwnPcs, Paths, Updates, Outcome
  <2>4. proc' = [proc EXCEPT ![p] = n]
    BY <1>7 DEF step
  <2>5. n.pc # "off"
    BY <2>2
  <2> HIDE DEF n
  <2> QED BY <1>3, <1>4, <2>1, <2>2, <2>3, <2>4, <2>5, StepKeeps
<1>8. CASE exit(p) /\ ~terminal(status)
  <2> DEFINE n == [Off EXCEPT !.pc = "gone", !.command = proc[p].command]
  <2>1. n \in Process /\ n.pc = "gone" /\ n.command = proc[p].command
    BY <1>0 DEF Off, Process, Pc, none
  <2>2. Sound(p, n, records'[p], tx'[p])
    BY <1>0, <1>1, <1>2, <1>5, <1>8, <2>1
    DEF Sound, Owners, OwnPcs, Paths, Updates, Outcome, terminal
  <2>3. proc' = [proc EXCEPT ![p] = n]
    BY <1>8 DEF exit, step
  <2>4. n.pc # "off"
    BY <2>1
  <2> HIDE DEF n
  <2> QED BY <1>3, <1>4, <2>1, <2>2, <2>3, <2>4, StepKeeps
<1>9. CASE /\ step(p, [done EXCEPT !.pc = proc[p].then, !.then = none])
           /\ ~terminal(status) /\ proc[p].then # "gone"
  <2> DEFINE n == [done EXCEPT !.pc = proc[p].then, !.then = none]
  <2>1. proc[p].then \in {"build", "send"}
    BY <1>0, <1>1, <1>9 DEF Sound, Paths
  <2>2. n \in Process
    <3>1. proc[p].then \in Pc
      BY <2>1 DEF Pc
    <3> QED BY <1>0, <3>1, Zenon DEF Process
  <2>3. /\ n.pc = proc[p].then
        /\ n.command = proc[p].command
        /\ n.crossed <=> proc[p].crossed
    BY <1>0 DEF Process
  <2>4. Sound(p, n, records'[p], tx'[p])
    BY <1>0, <1>1, <1>2, <1>5, <1>9, <2>1, <2>3
    DEF Sound, Owners, OwnPcs, Paths, Updates, Outcome, terminal
  <2>5. proc' = [proc EXCEPT ![p] = n]
    BY <1>9 DEF step
  <2>6. n.pc # "off" /\ n.command = proc[p].command
    BY <2>1, <2>3
  <2> HIDE DEF n
  <2> QED BY <1>3, <1>4, <2>2, <2>4, <2>5, <2>6, StepKeeps
<1> QED BY <1>6, <1>7, <1>8, <1>9

\* The verdict of a failed movement: aborted only if nothing was sent.
LEMMA FailOrAbortKeeps ==
    ASSUME AbortInv, NEW p \in Procs, FailOrAbort(p)
    PROVE  AbortInv'
<1>0. proc[p] \in Process /\ Sound(p, proc[p], records[p], tx[p])
  BY ProcessSound
<1> DEFINE before == IF proc[p].command = "refund" THEN records[p] = "building"
                     ELSE ~proc[p].crossed /\ records[p] \in {"building", "broadcast"}
           status == IF before THEN "aborted" ELSE "in_doubt"
<1>1. CASE terminal(records[p])
  BY <1>1, ExitKeeps DEF FailOrAbort
<1>2. CASE ~terminal(records[p])
  <2>1. /\ updates(p, p, status, "gone", FALSE)
        /\ UNCHANGED <<lock, records, claims, tx>>
    BY <1>2 DEF FailOrAbort
  <2>2. status = "aborted" => tx[p] = "unsent"
    BY <1>0 DEF FailOrAbort, Sound, Outcome
  <2>3. status \in {"aborted", "in_doubt"}
    OBVIOUS
  <2>4. started(p) /\ proc[p].pc \notin {"off", "gone"} /\ records[p] # "aborted"
    BY <1>2 DEF FailOrAbort, started, terminal
  <2> HIDE DEF status
  <2>5. status \in Status \cup {none} /\ status # "building" /\ status # none
    BY <2>3 DEF Status, none
  <2> QED BY <2>1, <2>2, <2>4, <2>5, UpdatesKeeps
<1> QED BY <1>1, <1>2

\* A release checks the lock.
LEMMA ReleaseKeeps ==
    ASSUME AbortInv, NEW p \in Procs, Release(p)
    PROVE  AbortInv'
<1>0. proc[p] \in Process /\ Sound(p, proc[p], records[p], tx[p])
  BY ProcessSound
<1>a. 1 \in Nat
  OBVIOUS
<1>1. CASE owns(proc[p].own)
  <2> DEFINE n == [proc[p] EXCEPT !.pc = "claim", !.k = 1]
  <2>1. n \in Process
    BY <1>0, <1>a, Zenon DEF Process, Pc
  <2>2. /\ n.pc = "claim"
        /\ n.command = proc[p].command
        /\ n.crossed <=> proc[p].crossed
        /\ n.then = proc[p].then
        /\ n.own = proc[p].own
        /\ n.guarded <=> proc[p].guarded
        /\ n.record = proc[p].record
        /\ n.next = proc[p].next
    BY <1>0, <1>1 DEF Process
  <2>3. Sound(p, n, records[p], tx[p])
    BY <1>0, <1>1, <2>2 DEF Sound, Owners, OwnPcs, Paths, Updates, Outcome, Release
  <2>4. proc' = [proc EXCEPT ![p] = n]
    BY <1>1 DEF Release, step
  <2>5. UNCHANGED <<lock, records, claims, tx>>
    BY <1>1 DEF Release, step
  <2> HIDE DEF n
  <2> QED BY <2>1, <2>2, <2>3, <2>4, <2>5, MoveKeeps
<1>2. CASE ~owns(proc[p].own)
  BY <1>2, ThrowKeeps DEF Release
<1> QED BY <1>1, <1>2

\* A claim is linked, found taken, or a dead one is passed over.
LEMMA ClaimKeeps ==
    ASSUME AbortInv, NEW p \in Procs, Claim(p)
    PROVE  AbortInv'
<1>0. proc[p] \in Process /\ Sound(p, proc[p], records[p], tx[p])
  BY ProcessSound
<1> DEFINE o == proc[p].own
           k == proc[p].k
<1>1. CASE Len(claims[o]) < k
  <2> DEFINE n == [proc[p] EXCEPT !.pc = "confirm"]
  <2>1. n \in Process
    BY <1>0, Zenon DEF Process, Pc
  <2>2. /\ n.pc = "confirm"
        /\ n.command = proc[p].command
        /\ n.crossed <=> proc[p].crossed
        /\ n.then = proc[p].then
        /\ n.own = proc[p].own
        /\ n.guarded <=> proc[p].guarded
        /\ n.record = proc[p].record
        /\ n.next = proc[p].next
    BY <1>0, <1>1 DEF Process
  <2>3. Sound(p, n, records[p], tx[p])
    BY <1>0, <1>1, <2>2 DEF Sound, Owners, OwnPcs, Paths, Updates, Outcome, Claim
  <2>4. proc' = [proc EXCEPT ![p] = n]
    BY <1>1 DEF Claim, go
  <2>5. lock' \in ActiveLock /\ LockSound(lock')
    BY <1>0, <1>1 DEF Claim, go, AbortInv, TypeOK, LockSound, started
  <2>6. /\ claims' \in [Procs -> Seq(Procs)]
        /\ records' \in [Procs -> Status \cup {none}]
        /\ tx' \in [Procs -> {"unsent", "sent"} \cup Settled]
    <3>1. o \in Procs /\ claims \in [Procs -> Seq(Procs)]
      BY <1>0 DEF Claim, AbortInv, TypeOK, Sound, Owners, OwnPcs, started
    <3>2. Append(claims[o], p) \in Seq(Procs)
      BY <3>1
    <3>3. claims' = [claims EXCEPT ![o] = Append(claims[o], p)]
      BY <1>1 DEF Claim
    <3> QED BY <3>1, <3>2, <3>3 DEF Claim, AbortInv, TypeOK
  <2>7. \A q \in Procs : tx'[q] = tx[q] /\ records'[q] = records[q]
    BY <1>1 DEF Claim, go, AbortInv, TypeOK
  <2>8. n.pc # "off" /\ n.command = proc[p].command
    BY <2>2
  <2> HIDE DEF n
  <2> QED BY <2>1, <2>3, <2>4, <2>5, <2>6, <2>7, <2>8, StepKeeps
<1>2. CASE ~(Len(claims[o]) < k) /\ alive(claims[o][k])
  BY <1>2, ThrowKeeps DEF Claim
<1>3. CASE ~(Len(claims[o]) < k) /\ ~alive(claims[o][k])
  <2>a. k + 1 \in Nat
    BY <1>0 DEF Process
  <2> DEFINE n == [proc[p] EXCEPT !.k = k + 1]
  <2>1. n \in Process
    BY <1>0, <2>a, Zenon DEF Process
  <2>2. /\ n.pc = "claim"
        /\ n.command = proc[p].command
        /\ n.crossed <=> proc[p].crossed
        /\ n.then = proc[p].then
        /\ n.own = proc[p].own
        /\ n.guarded <=> proc[p].guarded
        /\ n.record = proc[p].record
        /\ n.next = proc[p].next
    BY <1>0, <1>3 DEF Process, Claim
  <2>3. Sound(p, n, records[p], tx[p])
    BY <1>0, <1>3, <2>2 DEF Sound, Owners, OwnPcs, Paths, Updates, Outcome, Claim
  <2>4. proc' = [proc EXCEPT ![p] = n]
    BY <1>3 DEF Claim, step
  <2>5. UNCHANGED <<lock, records, claims, tx>>
    BY <1>3 DEF Claim, step
  <2> HIDE DEF n
  <2> QED BY <2>1, <2>2, <2>3, <2>4, <2>5, MoveKeeps
<1> QED BY <1>1, <1>2, <1>3

\* The lock is checked again under the claim.
LEMMA ConfirmKeeps ==
    ASSUME AbortInv, NEW p \in Procs, Confirm(p)
    PROVE  AbortInv'
<1>0. proc[p] \in Process /\ Sound(p, proc[p], records[p], tx[p])
  BY ProcessSound
<1>1. CASE owns(proc[p].own)
  <2> DEFINE n == [proc[p] EXCEPT !.pc = "unlink"]
  <2>1. n \in Process
    BY <1>0, Zenon DEF Process, Pc
  <2>2. /\ n.pc = "unlink"
        /\ n.command = proc[p].command
        /\ n.crossed <=> proc[p].crossed
        /\ n.then = proc[p].then
        /\ n.own = proc[p].own
        /\ n.guarded <=> proc[p].guarded
        /\ n.record = proc[p].record
        /\ n.next = proc[p].next
    BY <1>0, <1>1 DEF Process
  <2>3. Sound(p, n, records[p], tx[p])
    BY <1>0, <1>1, <2>2 DEF Sound, Owners, OwnPcs, Paths, Updates, Outcome, Confirm
  <2>4. proc' = [proc EXCEPT ![p] = n]
    BY <1>1 DEF Confirm, go
  <2>5. UNCHANGED <<lock, records, claims, tx>>
    BY <1>1 DEF Confirm, go
  <2> HIDE DEF n
  <2> QED BY <2>1, <2>2, <2>3, <2>4, <2>5, MoveKeeps
<1>2. CASE ~owns(proc[p].own)
  BY <1>2, ThrowKeeps DEF Confirm
<1> QED BY <1>1, <1>2

\* The lock is removed.
LEMMA UnlinkKeeps ==
    ASSUME AbortInv, NEW p \in Procs, Unlink(p)
    PROVE  AbortInv'
<1>0. proc[p] \in Process /\ Sound(p, proc[p], records[p], tx[p])
  BY ProcessSound
<1>4. /\ lock' \in ActiveLock
      /\ LockSound(lock')
      /\ claims' \in [Procs -> Seq(Procs)]
      /\ records' \in [Procs -> Status \cup {none}]
      /\ tx' \in [Procs -> {"unsent", "sent"} \cup Settled]
      /\ \A q \in Procs : tx'[q] = tx[q] /\ records'[q] = records[q]
  BY DEF Unlink, AbortInv, TypeOK, LockSound, ActiveLock, Absent
<1>1. CASE lock = Absent
  BY <1>1, ThrowKeeps DEF Unlink
<1>2. CASE lock # Absent /\ proc[p].then = "gone"
  <2> DEFINE n == [Off EXCEPT !.pc = "gone", !.command = proc[p].command]
  <2>1. n \in Process /\ n.pc = "gone" /\ n.command = proc[p].command
    BY <1>0 DEF Off, Process, Pc, none
  <2>2. Sound(p, n, records[p], tx[p])
    BY <1>0, <2>1 DEF Unlink, Sound, Owners, OwnPcs, Paths, Updates, Outcome
  <2>3. proc' = [proc EXCEPT ![p] = n]
    BY <1>2 DEF Unlink, exit, step
  <2>4. n.pc # "off"
    BY <2>1
  <2> HIDE DEF n
  <2> QED BY <1>4, <2>1, <2>2, <2>3, <2>4, StepKeeps
<1>3. CASE lock # Absent /\ proc[p].then # "gone"
  <2> DEFINE n == [proc[p] EXCEPT !.pc = proc[p].then, !.k = 1, !.own = none]
  <2>1. proc[p].then \in {"open", "build", "send"}
    BY <1>0, <1>3 DEF Unlink, Sound, Paths
  <2>2. n \in Process
    <3>1. proc[p].then \in Pc /\ 1 \in Nat
      BY <2>1 DEF Pc
    <3> QED BY <1>0, <3>1, Zenon DEF Process
  <2>3. /\ n.pc = proc[p].then
        /\ n.then = proc[p].then
        /\ n.command = proc[p].command
        /\ n.crossed <=> proc[p].crossed
    BY <1>0 DEF Process
  <2>4. Sound(p, n, records[p], tx[p])
    BY <1>0, <1>3, <2>1, <2>3 DEF Unlink, Sound, Owners, OwnPcs, Paths, Updates, Outcome
  <2>5. proc' = [proc EXCEPT ![p] = n]
    BY <1>3 DEF Unlink, step
  <2>6. n.pc # "off" /\ n.command = proc[p].command
    BY <2>1, <2>3
  <2> HIDE DEF n
  <2> QED BY <1>4, <2>2, <2>4, <2>5, <2>6, StepKeeps
<1> QED BY <1>1, <1>2, <1>3

\* The withdrawals or the hash are recorded, or the movement fails.
LEMMA BuildKeeps ==
    ASSUME AbortInv, NEW p \in Procs, Build(p)
    PROVE  AbortInv'
<1>0. proc[p] \in Process /\ Sound(p, proc[p], records[p], tx[p])
  BY ProcessSound
<1>a. started(p) /\ proc[p].pc = "build" /\ records[p] # "aborted"
  BY <1>0 DEF Build, started, Sound, Outcome
<1>1. CASE proc[p].command = "exit" /\ updates(p, p, none, "build", TRUE)
  <2>1. none \in Status \cup {none} /\ none # "building" /\ none # "aborted"
    BY DEF none
  <2> QED BY <1>a, <1>1, <2>1, UpdatesKeeps DEF Build
<1>2. CASE updates(p, p, "broadcast", "send", TRUE)
  <2>1. "broadcast" \in Status \cup {none} /\ "broadcast" # none
    BY DEF Status, none
  <2> QED BY <1>a, <1>2, <2>1, UpdatesKeeps DEF Build
<1>3. CASE step(p, [proc[p] EXCEPT !.pc = "failOrAbort", !.own = p])
  <2> DEFINE n == [proc[p] EXCEPT !.pc = "failOrAbort", !.own = p]
  <2>1. n \in Process
    BY <1>0, Zenon DEF Process, Pc
  <2>2. /\ n.pc = "failOrAbort"
        /\ n.command = proc[p].command
        /\ n.crossed <=> proc[p].crossed
        /\ n.then = proc[p].then
        /\ n.own = p
        /\ n.guarded <=> proc[p].guarded
        /\ n.record = proc[p].record
        /\ n.next = proc[p].next
    BY <1>0, <1>3 DEF Process
  <2>3. Sound(p, n, records[p], tx[p])
    BY <1>0, <1>3, <2>2 DEF Sound, Owners, OwnPcs, Paths, Updates, Outcome, Build
  <2>4. proc' = [proc EXCEPT ![p] = n]
    BY <1>3 DEF Build, step
  <2>5. UNCHANGED <<lock, records, claims, tx>>
    BY <1>3 DEF Build, step
  <2> HIDE DEF n
  <2> QED BY <2>1, <2>2, <2>3, <2>4, <2>5, MoveKeeps
<1> QED BY <1>1, <1>2, <1>3 DEF Build

\* The transaction leaves or not; the process remembers that it may have.
LEMMA SendKeeps ==
    ASSUME AbortInv, NEW p \in Procs, Send(p)
    PROVE  AbortInv'
<1>0. proc[p] \in Process /\ Sound(p, proc[p], records[p], tx[p])
  BY ProcessSound
<1> DEFINE self == [proc[p] EXCEPT !.crossed = TRUE]
<1>1. /\ proc[p].pc = "send"
      /\ records[p] # "aborted"
      /\ lock' = lock /\ records' = records /\ claims' = claims
      /\ tx' = tx \/ tx' = [tx EXCEPT ![p] = "sent"]
  BY <1>0 DEF Send, Sound, Outcome
<1>2. /\ lock' \in ActiveLock
      /\ LockSound(lock')
      /\ claims' \in [Procs -> Seq(Procs)]
      /\ records' \in [Procs -> Status \cup {none}]
      /\ tx' \in [Procs -> {"unsent", "sent"} \cup Settled]
      /\ \A q \in Procs \ {p} : tx'[q] = tx[q] /\ records'[q] = records[q]
      /\ records'[p] = records[p]
  BY <1>1 DEF AbortInv, TypeOK
<1>3. CASE exit(p)
  <2> DEFINE n == [Off EXCEPT !.pc = "gone", !.command = proc[p].command]
  <2>1. n \in Process /\ n.pc = "gone" /\ n.command = proc[p].command
    BY <1>0 DEF Off, Process, Pc, none
  <2>2. Sound(p, n, records'[p], tx'[p])
    BY <1>0, <1>1, <1>2, <2>1 DEF Sound, Owners, OwnPcs, Paths, Updates, Outcome
  <2>3. proc' = [proc EXCEPT ![p] = n]
    BY <1>3 DEF exit, step
  <2>4. n.pc # "off"
    BY <2>1
  <2> HIDE DEF n
  <2> QED BY <1>2, <2>1, <2>2, <2>3, <2>4, StepKeeps
<1>4. CASE step(p, [self EXCEPT !.pc = "await"])
  <2> DEFINE n == [self EXCEPT !.pc = "await"]
  <2>1. n \in Process
    BY <1>0, Zenon DEF Process, Pc
  <2>2. n.pc = "await" /\ n.command = proc[p].command /\ n.crossed
    BY <1>0 DEF Process
  <2>3. Sound(p, n, records'[p], tx'[p])
    BY <1>0, <1>1, <1>2, <2>2 DEF Sound, Owners, OwnPcs, Paths, Updates, Outcome
  <2>4. proc' = [proc EXCEPT ![p] = n]
    BY <1>4 DEF step
  <2>5. n.pc # "off"
    BY <2>2
  <2> HIDE DEF n
  <2> QED BY <1>2, <2>1, <2>2, <2>3, <2>4, <2>5, StepKeeps
<1>5. CASE step(p, [self EXCEPT !.pc = "failOrAbort", !.own = p])
  <2> DEFINE n == [self EXCEPT !.pc = "failOrAbort", !.own = p]
  <2>1. n \in Process
    BY <1>0, Zenon DEF Process, Pc
  <2>2. n.pc = "failOrAbort" /\ n.command = proc[p].command /\ n.crossed
    BY <1>0 DEF Process
  <2>3. Sound(p, n, records'[p], tx'[p])
    BY <1>0, <1>1, <1>2, <2>2 DEF Sound, Owners, OwnPcs, Paths, Updates, Outcome
  <2>4. proc' = [proc EXCEPT ![p] = n]
    BY <1>5 DEF step
  <2>5. n.pc # "off"
    BY <2>2
  <2> HIDE DEF n
  <2> QED BY <1>2, <2>1, <2>2, <2>3, <2>4, <2>5, StepKeeps
<1> QED BY <1>3, <1>4, <1>5 DEF Send

\* A durably included transaction completes; an error is caught.
LEMMA AwaitKeeps ==
    ASSUME AbortInv, NEW p \in Procs, Await(p)
    PROVE  AbortInv'
<1>0. proc[p] \in Process /\ Sound(p, proc[p], records[p], tx[p])
  BY ProcessSound
<1>a. started(p) /\ proc[p].pc = "await" /\ records[p] # "aborted"
  BY <1>0 DEF Await, started, Sound, Outcome
<1>1. CASE updates(p, p, "complete", "gone", TRUE)
  <2>1. "complete" \in Status \cup {none} /\ "complete" # none
    BY DEF Status, none
  <2> QED BY <1>a, <1>1, <2>1, UpdatesKeeps DEF Await
<1>2. CASE step(p, [proc[p] EXCEPT !.pc = "failOrAbort", !.own = p])
  <2> DEFINE n == [proc[p] EXCEPT !.pc = "failOrAbort", !.own = p]
  <2>1. n \in Process
    BY <1>0, Zenon DEF Process, Pc
  <2>2. /\ n.pc = "failOrAbort"
        /\ n.command = proc[p].command
        /\ n.crossed <=> proc[p].crossed
        /\ n.then = proc[p].then
        /\ n.own = p
        /\ n.guarded <=> proc[p].guarded
        /\ n.record = proc[p].record
        /\ n.next = proc[p].next
    BY <1>0, <1>2 DEF Process
  <2>3. Sound(p, n, records[p], tx[p])
    BY <1>0, <1>2, <2>2 DEF Sound, Owners, OwnPcs, Paths, Updates, Outcome, Await
  <2>4. proc' = [proc EXCEPT ![p] = n]
    BY <1>2 DEF Await, step
  <2>5. UNCHANGED <<lock, records, claims, tx>>
    BY <1>2 DEF Await, step
  <2> HIDE DEF n
  <2> QED BY <2>1, <2>2, <2>3, <2>4, <2>5, MoveKeeps
<1> QED BY <1>1, <1>2 DEF Await

\* A receipt completes an L2 operation, and sends a refund back to the lock.
LEMMA ReceiptKeeps ==
    ASSUME AbortInv, NEW p \in Procs, Receipt(p)
    PROVE  AbortInv'
<1>0. proc[p] \in Process /\ Sound(p, proc[p], records[p], tx[p])
  BY ProcessSound
<1> DEFINE o == proc[p].own
<1>a. started(o) /\ proc[p].pc = "receipt" /\ records[p] # "aborted"
  BY <1>0 DEF Receipt, Sound, Outcome, Owners, OwnPcs
<1>b. {o} \in SUBSET Procs
  BY <1>a DEF started
<1>1. CASE tx[o] \notin Settled
  BY <1>a, <1>1, ExitKeeps DEF Receipt
<1>2. CASE tx[o] \in Settled /\ proc[o].command = "refund"
  <2> DEFINE n == [proc[p] EXCEPT !.pc = "readLock", !.then = "apply", !.seen = {o}]
  <2>1. n \in Process
    BY <1>0, <1>b, Zenon DEF Process, Pc
  <2>2. /\ n.pc = "readLock"
        /\ n.then = "apply"
        /\ n.command = proc[p].command
        /\ n.crossed <=> proc[p].crossed
    BY <1>0, <1>2 DEF Process
  <2>3. Sound(p, n, records[p], tx[p])
    BY <1>0, <1>2, <2>2 DEF Sound, Owners, OwnPcs, Paths, Updates, Outcome, Receipt
  <2>4. proc' = [proc EXCEPT ![p] = n]
    BY <1>2 DEF Receipt, step
  <2>5. UNCHANGED <<lock, records, claims, tx>>
    BY <1>2 DEF Receipt, step
  <2> HIDE DEF n
  <2> QED BY <2>1, <2>2, <2>3, <2>4, <2>5, MoveKeeps
<1>3. CASE tx[o] \in Settled /\ proc[o].command # "refund"
  <2>1. "complete" \in Status \cup {none} /\ "complete" # none
    BY DEF Status, none
  <2>2. updates(p, o, "complete", "gone", FALSE) /\ UNCHANGED <<lock, records, claims, tx>>
    BY <1>3 DEF Receipt
  <2> QED BY <1>a, <2>1, <2>2, UpdatesKeeps
<1> QED BY <1>1, <1>2, <1>3

\* A refund is closed if the lock still names it.
LEMMA ApplyReconciliationKeeps ==
    ASSUME AbortInv, NEW p \in Procs, ApplyReconciliation(p)
    PROVE  AbortInv'
<1>0. proc[p] \in Process /\ Sound(p, proc[p], records[p], tx[p])
  BY ProcessSound
<1> DEFINE o == proc[p].own
           status == IF tx[o] = "reverted" THEN "failed" ELSE "complete"
<1>a. started(o) /\ proc[p].pc = "apply" /\ records[p] # "aborted"
  BY <1>0 DEF ApplyReconciliation, Sound, Outcome, Owners, OwnPcs
<1>1. CASE proc[p].seen = {o}
  <2>1. updates(p, o, status, "gone", FALSE) /\ UNCHANGED <<lock, records, claims, tx>>
    BY <1>1 DEF ApplyReconciliation
  <2>2. /\ status \in Status \cup {none}
        /\ status # none /\ status # "building" /\ status # "aborted"
    BY DEF Status, none
  <2> HIDE DEF status
  <2> QED BY <1>a, <2>1, <2>2, UpdatesKeeps
<1>2. CASE proc[p].seen # {o}
  BY <1>a, <1>2, ExitKeeps DEF ApplyReconciliation
<1> QED BY <1>1, <1>2

\* A process dies anywhere.
LEMMA CrashKeeps ==
    ASSUME AbortInv, NEW p \in Procs, Crash(p)
    PROVE  AbortInv'
  BY ExitKeeps DEF Crash, alive

\* A transaction that left is included.
LEMMA IncludedKeeps ==
    ASSUME AbortInv, NEW o \in Procs, Included(o)
    PROVE  AbortInv'
<1>1. PICK outcome \in Settled : tx' = [tx EXCEPT ![o] = outcome]
  BY DEF Included
<1>2. tx[o] = "sent" /\ UNCHANGED <<lock, records, claims, proc>>
  BY DEF Included
<1>3. TypeOK' /\ LockSound(lock)'
  BY <1>1, <1>2 DEF AbortInv, TypeOK, LockSound, started, initial
<1>4. ASSUME NEW q \in Procs
      PROVE  Sound(q, proc[q], records[q], tx[q])'
  <2>1. Sound(q, proc[q], records[q], tx[q])
    BY DEF AbortInv
  <2>2. tx'[q] = tx[q] \/ q = o
    BY <1>1 DEF AbortInv, TypeOK
  <2> QED BY <1>2, <2>1, <2>2 DEF Sound, Owners, Paths, Updates, Outcome, started, initial
<1> QED BY <1>3, <1>4 DEF AbortInv

-----------------------------------------------------------------------------
\* Nothing has begun in the initial state.
LEMMA AbortInit == Init => AbortInv
<1> SUFFICES ASSUME Init PROVE AbortInv
  OBVIOUS
<1>1. TypeOK
  BY DEF Init, TypeOK, Off, Process, Pc, ActiveLock, Absent, Status, none
<1>2. LockSound(lock)
  BY DEF Init, LockSound, Absent
<1>3. ASSUME NEW p \in Procs PROVE Sound(p, proc[p], records[p], tx[p])
  BY DEF Init, Off, Sound, Owners, OwnPcs, Paths, Updates, Outcome, none
<1> QED BY <1>1, <1>2, <1>3 DEF AbortInv

\* Every step keeps the invariant.
LEMMA AbortNext == AbortInv /\ [Next]_vars => AbortInv'
<1> SUFFICES ASSUME AbortInv, [Next]_vars PROVE AbortInv'
  OBVIOUS
<1>1. CASE UNCHANGED vars
  <2>1. TypeOK' /\ LockSound(lock)'
    BY <1>1 DEF vars, AbortInv, TypeOK, LockSound, started, initial
  <2>2. ASSUME NEW q \in Procs
        PROVE  Sound(q, proc[q], records[q], tx[q])'
    BY <1>1 DEF vars, AbortInv, Sound, Owners, Paths, Updates, Outcome, started, initial
  <2> QED BY <2>1, <2>2 DEF AbortInv
<1>2. ASSUME NEW p \in Procs, Start(p) \/ OpenLock(p) \/ FillLock(p) \/ ListRecords(p) \/ ScanRecords(p)
      PROVE  AbortInv'
  BY <1>2, StartKeeps, OpenLockKeeps, FillLockKeeps, ListRecordsKeeps, ScanRecordsKeeps
<1>3. ASSUME NEW p \in Procs,
             PublishRecord(p) \/ StripLock(p) \/ ReadLock(p) \/ ReadRecord(p)
             \/ RestoreRecord(p) \/ RewriteLock(p)
      PROVE  AbortInv'
  BY <1>3, PublishRecordKeeps, StripLockKeeps, ReadLockKeeps, ReadRecordKeeps,
     RestoreRecordKeeps, RewriteLockKeeps
<1>4. ASSUME NEW p \in Procs,
             Get(p) \/ AssertOwns(p) \/ Write(p) \/ FailOrAbort(p)
             \/ Release(p) \/ Claim(p) \/ Confirm(p) \/ Unlink(p)
      PROVE  AbortInv'
  BY <1>4, GetKeeps, AssertOwnsKeeps, WriteKeeps, FailOrAbortKeeps, ReleaseKeeps,
     ClaimKeeps, ConfirmKeeps, UnlinkKeeps
<1>5. ASSUME NEW p \in Procs,
             Build(p) \/ Send(p) \/ Await(p) \/ Receipt(p) \/ ApplyReconciliation(p)
             \/ Crash(p) \/ Included(p)
      PROVE  AbortInv'
  BY <1>5, BuildKeeps, SendKeeps, AwaitKeeps, ReceiptKeeps, ApplyReconciliationKeeps,
     CrashKeeps, IncludedKeeps
<1> QED BY <1>1, <1>2, <1>3, <1>4, <1>5 DEF Next

\* An operation called aborted never moved funds and never will: its transaction
\* never left and its process cannot send it, whatever other processes did to
\* the lock and the record meanwhile (failOrAbort).
THEOREM AbortedTheorem == Spec => []AbortedNeverSent
<1>1. AbortInv => AbortedNeverSent
  BY DEF AbortInv, Sound, Outcome, AbortedNeverSent
<1> QED BY AbortInit, AbortNext, <1>1, PTL DEF Spec

-----------------------------------------------------------------------------
(***************************************************************************)
(* One process at a time: whatever dies where, and whatever the next       *)
(* process then recovers, two operations never both may move funds, an     *)
(* unresolved one stays locked and a transaction never leaves before its   *)
(* hash is on disk.  With two processes at once the first is refuted (run  *)
(* doc_journal), so MaxAlive = 1 is a hypothesis of each theorem.          *)
(*                                                                         *)
(* An operation is unresolved only under a lock that names it: the process *)
(* that publishes a record created that lock, a recoverer restores the     *)
(* record from it, and neither removes it before the record is settled.  A *)
(* process that may yet send works under its own lock, so what it leaves   *)
(* behind when it dies is recovered before anything new begins.            *)
(***************************************************************************)

unresolved(status) == status # none /\ ~terminal(status)
names(l, o) == l.st = "held" /\ l.owner = o
Clear(recs) == \A o \in Procs : ~unresolved(recs[o])

\* Where a process recovers a lock, updates a record and gives its lock back.
Reads == {"readLock", "readRecord", "restoreRecord", "rewriteLock"}
Updating == {"get", "assertOwns", "write"}
Releasing == {"release", "claim", "confirm", "unlink"}

\* A process that may yet send, and has not.
Mover(r) == r.pc \in {"build", "send"} \/ (r.pc \in Updating /\ r.then \in {"build", "send"})

\* Before it has a lock of its own a process finds none of its own, and reads another's.
Recovers(p, r, l, recs) ==
    /\ r.pc = "open" => r.then = "open"
    /\ r.pc \in {"open", "readLock", "receipt"} => l.st = "absent" \/ l.owner # p
    /\ r.pc \in {"readRecord", "restoreRecord", "rewriteLock"} => r.own # p
    /\ r.pc \in {"readRecord", "restoreRecord"} => l = Held(r.own, r.record)
    /\ r.pc = "restoreRecord" => recs[r.own] = none /\ r.record # none
    /\ r.pc = "rewriteLock" => names(l, r.own) /\ r.record = recs[r.own] /\ r.record # none

\* From its lock to its transaction: nothing else is unresolved when it publishes its
\* record, and it builds and sends under its own lock with its record on disk.
Begins(p, r, l, recs) ==
    /\ r.pc = "fill" => l = Created(p) /\ r.own = p
    /\ r.pc \in {"list", "scan", "publish"} /\ r.own = p => names(l, p)
    /\ r.pc = "publish" => r.own = p
    /\ r.pc = "strip" => /\ names(l, p) /\ recs[p] \in {"building", "broadcast"}
                         /\ r.command = "refund" => recs[p] = "broadcast"
    /\ r.pc \in {"fill", "list", "scan", "publish"} \cup Releasing => Clear(recs)
    /\ Mover(r) => names(l, p) /\ recs[p] \in {"building", "broadcast"} /\ ~r.crossed
    /\ r.pc = "send" => recs[p] = "broadcast"

\* A verdict is written where the lock names the operation, from its record as it
\* stands, and a settled one only of a transaction that was included.
Settles(p, r, l, recs, sent) ==
    /\ r.pc \in Updating => /\ r.then \in {"build", "send"} => r.own = p
                            /\ r.then = "send" => r.next = "broadcast"
                            /\ r.then = "build" => r.next = none
                            /\ r.next \in {"complete", "failed"} => sent[r.own] \in Settled
    /\ r.pc \in {"assertOwns", "write"} => r.record = recs[r.own]
    /\ r.pc = "write" => names(l, r.own)
    /\ r.pc \in Releasing => r.then \in {"open", "gone"}
    /\ r.pc = "apply" \/ (r.pc \in Reads /\ r.then = "apply") => \A o \in r.seen : sent[o] \in Settled

\* A process whose transaction left only waits, or records how it ended.
Ends(r) ==
    /\ r.pc = "await" => r.crossed
    /\ r.guarded /\ ~r.crossed => r.pc = "failOrAbort" \/ Mover(r)
    /\ r.crossed => /\ r.pc \in {"failOrAbort", "await"} \cup Updating \cup Releasing
                    /\ r.pc \in Updating \cup Releasing => r.then = "gone"

Lone(p, r, l, recs, sent) ==
    /\ Recovers(p, r, l, recs)
    /\ Begins(p, r, l, recs)
    /\ Settles(p, r, l, recs, sent)
    /\ Ends(r)

\* At most one process runs; an unresolved operation is locked; what may still be
\* included is recorded as sent.
Alone == \A p, q \in Procs : alive(p) /\ alive(q) => p = q
LockedOpen == \A o \in Procs : unresolved(records[o]) => owns(o)
SentOpen == \A o \in Procs : tx[o] = "sent" => records[o] \in {"broadcast", "in_doubt"}

\* The inductive invariant: AbortInv, and of every process what Lone says.
AloneInv ==
    /\ AbortInv
    /\ MaxAlive = 1
    /\ Alone
    /\ LockedOpen
    /\ SentIsRecorded
    /\ SentOpen
    /\ \A p \in Procs : Lone(p, proc[p], lock, records, tx)

-----------------------------------------------------------------------------
\* What the invariant says of a process that runs: it is alone.
LEMMA LoneOf ==
    ASSUME AloneInv, NEW p \in Procs
    PROVE  /\ proc[p] \in Process
           /\ Lone(p, proc[p], lock, records, tx)
           /\ Sound(p, proc[p], records[p], tx[p])
           /\ \A o \in Procs : records[o] \in Status \cup {none}
           /\ \A o \in Procs : tx[o] \in {"unsent", "sent"} \cup Settled
           /\ lock \in ActiveLock
           /\ alive(p) => \A q \in Procs \ {p} : ~alive(q)
  BY DEF AloneInv, AbortInv, TypeOK, Alone

\* A step of the only process keeps the invariant if the process and what all share stay sound.
LEMMA LoneStep ==
    ASSUME AloneInv, AbortInv', NEW p \in Procs, NEW n,
           \A q \in Procs \ {p} : ~alive(q),
           proc' = [proc EXCEPT ![p] = n],
           Lone(p, n, lock', records', tx'),
           LockedOpen', SentIsRecorded', SentOpen'
    PROVE  AloneInv'
<1>1. proc'[p] = n /\ \A q \in Procs \ {p} : proc'[q] = proc[q]
  BY DEF AloneInv, AbortInv, TypeOK
<1>2. Alone'
  BY <1>1 DEF Alone, alive
<1>3. ASSUME NEW q \in Procs \ {p} PROVE Lone(q, proc[q], lock', records', tx')
  <2>1. Lone(q, proc[q], lock, records, tx)
    BY DEF AloneInv
  <2>2. proc[q].pc \in {"off", "gone"}
    BY DEF alive
  <2> QED BY <2>1, <2>2 DEF Lone, Recovers, Begins, Settles, Ends, Mover, Reads, Updating, Releasing
<1>4. \A q \in Procs : Lone(q, proc[q], lock, records, tx)'
  BY <1>1, <1>3 DEF Lone, Recovers, Begins, Settles, Ends
<1> QED BY <1>2, <1>4 DEF AloneInv

\* The same when only the process moves.
LEMMA LoneMove ==
    ASSUME AloneInv, AbortInv', NEW p \in Procs, NEW n, alive(p),
           proc' = [proc EXCEPT ![p] = n],
           Lone(p, n, lock, records, tx),
           UNCHANGED <<lock, records, tx>>
    PROVE  AloneInv'
<1>1. LockedOpen' /\ SentIsRecorded' /\ SentOpen'
  BY DEF AloneInv, LockedOpen, owns, SentIsRecorded, SentOpen
<1>2. Lone(p, n, lock', records', tx')
  OBVIOUS
<1> QED BY <1>1, <1>2, LoneOf, LoneStep

\* The process ends.
LEMMA LoneExit ==
    ASSUME AloneInv, AbortInv', NEW p \in Procs, alive(p), exit(p),
           LockedOpen', SentIsRecorded', SentOpen'
    PROVE  AloneInv'
<1> DEFINE n == [Off EXCEPT !.pc = "gone", !.command = proc[p].command]
<1>1. n.pc = "gone" /\ ~n.crossed /\ ~n.guarded
  BY DEF Off
<1>2. proc' = [proc EXCEPT ![p] = n]
  BY DEF exit, step
<1> HIDE DEF n
<1>3. Lone(p, n, lock', records', tx')
  BY <1>1 DEF Lone, Recovers, Begins, Settles, Ends, Mover, Reads, Updating, Releasing
<1> QED BY <1>2, <1>3, LoneOf, LoneStep

\* The same when nothing shared changed with it.
LEMMA LoneLeaves ==
    ASSUME AloneInv, AbortInv', NEW p \in Procs, alive(p), exit(p), UNCHANGED <<lock, records, tx>>
    PROVE  AloneInv'
<1>1. LockedOpen' /\ SentIsRecorded' /\ SentOpen'
  BY DEF AloneInv, LockedOpen, owns, SentIsRecorded, SentOpen
<1> QED BY <1>1, LoneExit

\* An error ends it, or a fund movement catches it.
LEMMA LoneThrow ==
    ASSUME AloneInv, AbortInv', NEW p \in Procs, alive(p), throw(p), UNCHANGED <<lock, records, tx>>
    PROVE  AloneInv'
<1>1. CASE ~proc[p].guarded
  BY <1>1, LoneLeaves DEF throw
<1>2. CASE proc[p].guarded
  <2> DEFINE n == [proc[p] EXCEPT !.pc = "failOrAbort", !.own = p]
  <2>1. n.pc = "failOrAbort"
    BY LoneOf DEF Process
  <2>2. proc' = [proc EXCEPT ![p] = n]
    BY <1>2 DEF throw, step
  <2> HIDE DEF n
  <2>3. Lone(p, n, lock, records, tx)
    BY <2>1 DEF Lone, Recovers, Begins, Settles, Ends, Mover, Reads, Updating, Releasing
  <2> QED BY <2>2, <2>3, LoneMove
<1> QED BY <1>1, <1>2

\* An update begins.
LEMMA LoneUpdates ==
    ASSUME AloneInv, AbortInv', NEW p \in Procs, alive(p), NEW o, NEW status, NEW after, NEW caught \in BOOLEAN,
           updates(p, o, status, after, caught),
           UNCHANGED <<lock, records, tx>>,
           \/ after = "gone" /\ (caught => proc[p].crossed)
           \/ /\ after \in {"build", "send"} /\ o = p /\ proc[p].pc = "build"
              /\ status = IF after = "send" THEN "broadcast" ELSE none,
           status \in {"complete", "failed"} => tx[o] \in Settled
    PROVE  AloneInv'
<1> DEFINE r == proc[p]
           n == [r EXCEPT !.pc = "get", !.own = o, !.next = status, !.then = after,
                          !.guarded = caught]
<1>1. r \in Process /\ Lone(p, r, lock, records, tx)
  BY LoneOf
<1>2. /\ n.pc = "get" /\ n.own = o /\ n.next = status /\ n.then = after /\ n.guarded = caught
      /\ n.crossed = r.crossed
  BY <1>1 DEF Process
<1>3. proc' = [proc EXCEPT ![p] = n]
  BY DEF updates, step
<1> HIDE DEF n
<1>4. Lone(p, n, lock, records, tx)
  BY <1>1, <1>2 DEF Lone, Recovers, Begins, Settles, Ends, Mover, Reads, Updating, Releasing, none
<1> QED BY <1>3, <1>4, LoneMove
-----------------------------------------------------------------------------
(* The actions, of the only process there is. *)

\* A process starts only when none runs, and finds no lock of its own.
LEMMA LoneStart ==
    ASSUME AloneInv, AbortInv', NEW p \in Procs, Start(p)
    PROVE  AloneInv'
<1>1. PICK c \in Commands :
         step(p, [Off EXCEPT !.command = c, !.pc = IF c = "reconcile" THEN "readLock" ELSE "open",
                             !.then = IF c = "reconcile" THEN "receipt" ELSE "open"])
  BY DEF Start
<1> DEFINE n == [Off EXCEPT !.command = c, !.pc = IF c = "reconcile" THEN "readLock" ELSE "open",
                            !.then = IF c = "reconcile" THEN "receipt" ELSE "open"]
<1>2. /\ n.pc \in {"readLock", "open"} /\ n.then \in {"open", "receipt"}
      /\ n.pc = "open" => n.then = "open"
      /\ ~n.guarded /\ ~n.crossed
  BY DEF Off
<1>3. proc' = [proc EXCEPT ![p] = n]
  BY <1>1 DEF step
<1> HIDE DEF n
<1>4. lock.st = "absent" \/ lock.owner # p
  BY DEF Start, AloneInv, AbortInv, LockSound, started
<1>5. UNCHANGED <<lock, records, tx>>
  BY DEF Start
<1>6. Lone(p, n, lock', records', tx')
  BY <1>2, <1>4, <1>5 DEF Lone, Recovers, Begins, Settles, Ends, Mover, Reads, Updating, Releasing
<1>7. \A q \in Procs : ~alive(q)
  <2> DEFINE A == {q \in Procs : alive(q)}
  <2>1. Cardinality(A) < 1 /\ IsFiniteSet(A)
    BY JournalConstants, FS_Subset DEF Start, AloneInv
  <2>2. A = {}
    BY <2>1, FS_CardinalityType, FS_EmptySet
  <2> QED BY <2>2
<1>8. LockedOpen' /\ SentIsRecorded' /\ SentOpen'
  BY <1>5 DEF AloneInv, LockedOpen, owns, SentIsRecorded, SentOpen
<1> QED BY <1>3, <1>6, <1>7, <1>8, LoneStep

\* A lock is created only where there was none, so nothing is unresolved.
LEMMA LoneOpenLock ==
    ASSUME AloneInv, AbortInv', NEW p \in Procs, OpenLock(p)
    PROVE  AloneInv'
<1>0. /\ proc[p] \in Process /\ alive(p)
      /\ Lone(p, proc[p], lock, records, tx)
      /\ Sound(p, proc[p], records[p], tx[p])
  BY LoneOf DEF OpenLock, alive
<1>1. CASE lock = Absent
  <2>1. Clear(records)
    BY <1>1 DEF AloneInv, LockedOpen, owns, Absent, Clear
  <2>2. lock' = Created(p) /\ UNCHANGED <<records, tx>>
    BY <1>1 DEF OpenLock
  <2> DEFINE n == [proc[p] EXCEPT !.pc = "fill", !.own = p]
  <2>3. n.pc = "fill" /\ n.own = p /\ n.guarded = proc[p].guarded /\ n.crossed = proc[p].crossed
    BY <1>0 DEF Process
  <2>4. proc' = [proc EXCEPT ![p] = n]
    BY <1>1 DEF OpenLock, step
  <2> HIDE DEF n
  <2>5. Lone(p, n, lock', records', tx')
    BY <1>0, <2>1, <2>2, <2>3 DEF OpenLock, Lone, Recovers, Begins, Settles, Ends, Mover, Reads,
       Updating, Releasing
  <2>6. LockedOpen' /\ SentIsRecorded' /\ SentOpen'
    BY <2>1, <2>2 DEF AloneInv, Clear, LockedOpen, SentIsRecorded, SentOpen
  <2> QED BY <1>0, <2>4, <2>5, <2>6, LoneOf, LoneStep
<1>2. CASE lock # Absent
  <2> DEFINE n == [proc[p] EXCEPT !.pc = "readLock"]
  <2>a. /\ n.pc = "readLock" /\ n.then = proc[p].then /\ n.guarded = proc[p].guarded /\ n.crossed = proc[p].crossed
        /\ n.seen = proc[p].seen
    BY <1>0 DEF Process
  <2>b. proc' = [proc EXCEPT ![p] = n]
    BY <1>2 DEF OpenLock, go
  <2> HIDE DEF n
  <2>c. Lone(p, n, lock, records, tx)
    BY <1>0, <2>a DEF OpenLock, Lone, Recovers, Begins, Settles, Ends, Mover, Reads, Updating,
       Releasing
  <2> QED BY <1>0, <2>b, <2>c, LoneMove, <1>2 DEF OpenLock
<1> QED BY <1>1, <1>2

\* The lock now embeds the initial record.
LEMMA LoneFillLock ==
    ASSUME AloneInv, AbortInv', NEW p \in Procs, FillLock(p)
    PROVE  AloneInv'
<1>0. /\ proc[p] \in Process /\ alive(p)
      /\ Lone(p, proc[p], lock, records, tx)
      /\ Sound(p, proc[p], records[p], tx[p])
  BY LoneOf DEF FillLock, alive
<1> DEFINE n == [proc[p] EXCEPT !.pc = "list"]
<1>a. /\ n.pc = "list" /\ n.own = proc[p].own
      /\ n.guarded = proc[p].guarded /\ n.crossed = proc[p].crossed
  BY <1>0 DEF Process
<1>b. proc' = [proc EXCEPT ![p] = n]
  BY DEF FillLock, go
<1> HIDE DEF n
<1>c. lock = Created(p) /\ lock' = Held(p, initial(p)) /\ UNCHANGED <<records, tx>>
  BY <1>0 DEF FillLock, Lone, Recovers, Begins, Settles, Ends
<1>d. LockedOpen' /\ SentIsRecorded' /\ SentOpen'
  BY <1>0, <1>c DEF FillLock, Lone, Recovers, Begins, Settles, Ends, Clear, AloneInv, LockedOpen,
     owns, SentIsRecorded, SentOpen
<1>e. Lone(p, n, lock', records', tx')
  BY <1>0, <1>a, <1>c DEF FillLock, names, Held, Lone, Recovers, Begins, Settles, Ends, Mover,
     Reads, Updating, Releasing
<1> QED BY <1>0, <1>b, <1>d, <1>e, LoneOf, LoneStep

\* It lists the records under its lock.
LEMMA LoneListRecords ==
    ASSUME AloneInv, AbortInv', NEW p \in Procs, ListRecords(p)
    PROVE  AloneInv'
<1>0. /\ proc[p] \in Process /\ alive(p)
      /\ Lone(p, proc[p], lock, records, tx)
      /\ Sound(p, proc[p], records[p], tx[p])
  BY LoneOf DEF ListRecords, alive
<1> DEFINE n == [proc[p] EXCEPT !.pc = "scan", !.seen = {o \in Procs : records[o] # none}]
<1>a. /\ n.pc = "scan" /\ n.own = proc[p].own
      /\ n.guarded = proc[p].guarded /\ n.crossed = proc[p].crossed
  BY <1>0 DEF Process
<1>b. proc' = [proc EXCEPT ![p] = n]
  BY DEF ListRecords, step
<1> HIDE DEF n
<1>c. Lone(p, n, lock, records, tx)
  BY <1>0, <1>a DEF ListRecords, Lone, Recovers, Begins, Settles, Ends, Mover, Reads, Updating,
     Releasing
<1> QED BY <1>0, <1>b, <1>c, LoneMove DEF ListRecords

\* It finds nothing unresolved: everything unresolved would be locked by another.
LEMMA LoneScanRecords ==
    ASSUME AloneInv, AbortInv', NEW p \in Procs, ScanRecords(p)
    PROVE  AloneInv'
<1>0. /\ proc[p] \in Process /\ alive(p)
      /\ Lone(p, proc[p], lock, records, tx)
      /\ Sound(p, proc[p], records[p], tx[p])
  BY LoneOf DEF ScanRecords, alive
<1>1. Clear(records) /\ proc[p].pc = "scan"
  BY <1>0 DEF ScanRecords, Lone, Recovers, Begins, Settles, Ends
<1> DEFINE unresolvedSeen == \E o \in proc[p].seen : ~terminal(records[o])
           n == [proc[p] EXCEPT !.seen = {}, !.then = "gone",
                                !.pc = IF unresolvedSeen THEN "release" ELSE "publish"]
           m == [proc[p] EXCEPT !.seen = {}, !.pc = "release", !.then = "open"]
<1>2. UNCHANGED <<lock, records, tx>>
  BY DEF ScanRecords
<1>3. CASE proc[p].own = p
  <2>1. /\ n.pc \in {"release", "publish"} /\ n.own = p /\ n.then = "gone"
        /\ n.guarded = proc[p].guarded /\ n.crossed = proc[p].crossed
    BY <1>0, <1>3 DEF Process
  <2>2. proc' = [proc EXCEPT ![p] = n]
    BY <1>3 DEF ScanRecords, step
  <2> HIDE DEF n
  <2>3. Lone(p, n, lock, records, tx)
    BY <1>0, <1>1, <1>3, <2>1 DEF Lone, Recovers, Begins, Settles, Ends, Mover, Reads, Updating,
       Releasing
  <2> QED BY <1>0, <1>2, <2>2, <2>3, LoneMove
<1>4. CASE proc[p].own # p /\ unresolvedSeen
  BY <1>0, <1>2, <1>4, LoneLeaves DEF ScanRecords
<1>5. CASE proc[p].own # p /\ ~unresolvedSeen
  <2>1. /\ m.pc = "release" /\ m.then = "open"
        /\ m.guarded = proc[p].guarded /\ m.crossed = proc[p].crossed
    BY <1>0 DEF Process
  <2>2. proc' = [proc EXCEPT ![p] = m]
    BY <1>5 DEF ScanRecords, step
  <2> HIDE DEF m
  <2>3. Lone(p, m, lock, records, tx)
    BY <1>0, <1>1, <2>1 DEF Lone, Recovers, Begins, Settles, Ends, Mover, Reads, Updating, Releasing
  <2> QED BY <1>0, <1>2, <2>2, <2>3, LoneMove
<1> QED BY <1>3, <1>4, <1>5

\* The first unresolved record is its own, under its own lock.
LEMMA LonePublishRecord ==
    ASSUME AloneInv, AbortInv', NEW p \in Procs, PublishRecord(p)
    PROVE  AloneInv'
<1>0. /\ proc[p] \in Process /\ alive(p)
      /\ Lone(p, proc[p], lock, records, tx)
      /\ Sound(p, proc[p], records[p], tx[p])
  BY LoneOf DEF PublishRecord, alive
<1>1. /\ proc[p].pc = "publish" /\ names(lock, p) /\ Clear(records)
      /\ ~proc[p].crossed /\ tx[p] = "unsent"
  BY <1>0 DEF PublishRecord, Lone, Recovers, Begins, Settles, Ends, Updating, Releasing, Sound,
     Outcome
<1>2. /\ records' = [records EXCEPT ![p] = initial(p)] /\ UNCHANGED <<lock, tx>>
      /\ initial(p) \in {"building", "broadcast"}
      /\ proc[p].command = "refund" => initial(p) = "broadcast"
  BY DEF PublishRecord, initial
<1>3. records'[p] = initial(p) /\ \A o \in Procs \ {p} : records'[o] = records[o]
  BY <1>2 DEF AloneInv, AbortInv, TypeOK
<1> DEFINE n == [proc[p] EXCEPT !.pc = "strip"]
<1>a. /\ n.pc = "strip" /\ n.command = proc[p].command
      /\ n.guarded = proc[p].guarded /\ n.crossed = proc[p].crossed
  BY <1>0 DEF Process
<1>b. proc' = [proc EXCEPT ![p] = n]
  BY DEF PublishRecord, go
<1> HIDE DEF n
<1>c. \A o \in Procs \ {p} : ~unresolved(records[o])
  BY <1>1 DEF Clear
<1>d. LockedOpen' /\ SentIsRecorded' /\ SentOpen'
  BY <1>1, <1>2, <1>3, <1>c DEF names, AloneInv, LockedOpen, owns, SentIsRecorded, SentOpen
<1>e. Lone(p, n, lock', records', tx')
  BY <1>0, <1>1, <1>2, <1>3, <1>a DEF Lone, Recovers, Begins, Settles, Ends, Mover, Reads,
     Updating, Releasing
<1> QED BY <1>0, <1>b, <1>d, <1>e, LoneOf, LoneStep

\* The lock no longer embeds the record, which is on disk.
LEMMA LoneStripLock ==
    ASSUME AloneInv, AbortInv', NEW p \in Procs, StripLock(p)
    PROVE  AloneInv'
<1>0. /\ proc[p] \in Process /\ alive(p)
      /\ Lone(p, proc[p], lock, records, tx)
      /\ Sound(p, proc[p], records[p], tx[p])
  BY LoneOf DEF StripLock, alive
<1> DEFINE x == IF proc[p].command = "refund" THEN "send" ELSE "build"
<1>1. /\ proc[p].pc = "strip" /\ names(lock, p) /\ records[p] \in {"building", "broadcast"}
      /\ x = "send" => records[p] = "broadcast"
      /\ x \in {"send", "build"} /\ ~proc[p].crossed /\ ~proc[p].guarded
  BY <1>0 DEF StripLock, Lone, Recovers, Begins, Settles, Ends, Mover, Updating, Releasing
<1> HIDE DEF x
<1> DEFINE n == [proc[p] EXCEPT !.pc = x]
<1>a. /\ n.pc = x /\ n.command = proc[p].command
      /\ n.guarded = proc[p].guarded /\ n.crossed = proc[p].crossed
  BY <1>0 DEF Process
<1>b. proc' = [proc EXCEPT ![p] = n]
  BY DEF StripLock, go, x
<1> HIDE DEF n
<1>c. lock' = Held(p, none) /\ UNCHANGED <<records, tx>> /\ names(lock', p)
  BY DEF StripLock, names, Held
<1>d. LockedOpen' /\ SentIsRecorded' /\ SentOpen'
  BY <1>1, <1>c DEF names, AloneInv, LockedOpen, owns, SentIsRecorded, SentOpen
<1>e. Lone(p, n, lock', records', tx')
  BY <1>0, <1>1, <1>a, <1>c DEF Lone, Recovers, Begins, Settles, Ends, Mover, Reads, Updating,
     Releasing
<1> QED BY <1>0, <1>b, <1>d, <1>e, LoneOf, LoneStep

\* Another's lock is read, of an operation whose process is gone.
LEMMA LoneReadLock ==
    ASSUME AloneInv, AbortInv', NEW p \in Procs, ReadLock(p)
    PROVE  AloneInv'
<1>0. /\ proc[p] \in Process /\ alive(p)
      /\ Lone(p, proc[p], lock, records, tx)
      /\ Sound(p, proc[p], records[p], tx[p])
  BY LoneOf DEF ReadLock, alive
<1>1. UNCHANGED <<lock, records, tx>>
  BY DEF ReadLock
<1>2. CASE lock.st = "held"
  <2> DEFINE n == [proc[p] EXCEPT !.pc = "readRecord", !.own = lock.owner, !.record = lock.record]
  <2>1. /\ n.pc = "readRecord" /\ n.own = lock.owner /\ n.record = lock.record
        /\ n.then = proc[p].then /\ n.seen = proc[p].seen
        /\ n.guarded = proc[p].guarded /\ n.crossed = proc[p].crossed
    BY <1>0 DEF Process
  <2>2. proc' = [proc EXCEPT ![p] = n]
    BY <1>2 DEF ReadLock, step
  <2> HIDE DEF n
  <2>3. lock = Held(lock.owner, lock.record) /\ lock.owner # p
    <3>1. lock \in ActiveLock
      BY LoneOf
    <3>2. lock.owner # p
      BY <1>0, <1>2 DEF ReadLock, Lone, Recovers, Begins, Settles, Ends
    <3> QED BY <1>2, <3>1, <3>2 DEF ActiveLock, Absent, Created, Held
  <2>4. Lone(p, n, lock, records, tx)
    BY <1>0, <2>1, <2>3 DEF ReadLock, Lone, Recovers, Begins, Settles, Ends, Mover, Reads,
       Updating, Releasing
  <2> QED BY <1>0, <1>1, <2>2, <2>4, LoneMove
<1>3. CASE lock.st # "held"
  BY <1>0, <1>1, <1>3, LoneLeaves DEF ReadLock
<1> QED BY <1>2, <1>3

\* A recoverer knows the operation's status: it releases the lock of a settled one only.
LEMMA LoneRecovered ==
    ASSUME AloneInv, AbortInv', NEW p \in Procs, proc[p].pc \in {"readRecord", "rewriteLock"},
           NEW status, recovered(p, status), UNCHANGED <<records, tx>>,
           names(lock, proc[p].own), names(lock', proc[p].own),
           status = records[proc[p].own], status # none
    PROVE  AloneInv'
<1>0. /\ proc[p] \in Process /\ alive(p)
      /\ Lone(p, proc[p], lock, records, tx)
      /\ Sound(p, proc[p], records[p], tx[p])
  BY LoneOf DEF alive
<1> DEFINE x == IF proc[p].then = "open" THEN "list" ELSE proc[p].then
           n == [proc[p] EXCEPT !.record = none, !.pc = x]
<1>1. LockedOpen' /\ SentIsRecorded' /\ SentOpen'
  BY DEF AloneInv, LockedOpen, owns, names, SentIsRecorded, SentOpen
<1>2. \/ exit(p)
      \/ proc' = [proc EXCEPT ![p] = n] /\ (proc[p].then = "open" => terminal(status))
  <2> DEFINE self == [proc[p] EXCEPT !.record = none]
  <2>1. self.then = proc[p].then
    BY <1>0 DEF Process
  <2>2. n = [self EXCEPT !.pc = x]
    BY <1>0 DEF Process
  <2>3. \/ exit(p)
        \/ proc[p].then = "open" /\ terminal(status) /\ step(p, [self EXCEPT !.pc = "list"])
        \/ proc[p].then # "open" /\ step(p, [self EXCEPT !.pc = self.then])
    BY DEF recovered
  <2> HIDE DEF self, n
  <2> QED BY <2>1, <2>2, <2>3 DEF step
<1>3. proc[p].then \in {"open", "receipt", "apply"} /\ proc[p].own # p
  BY <1>0 DEF Sound, Paths, Lone, Recovers, Begins, Settles, Ends
<1>4. /\ n.pc = x /\ n.own = proc[p].own /\ n.then = proc[p].then /\ n.seen = proc[p].seen
      /\ n.guarded = proc[p].guarded /\ n.crossed = proc[p].crossed
  BY <1>0 DEF Process
<1> HIDE DEF n
<1>5. terminal(status) => Clear(records)
  BY DEF AloneInv, LockedOpen, owns, names, Clear, unresolved
<1>6. ASSUME proc[p].then = "open" => terminal(status) PROVE Lone(p, n, lock', records', tx')
  BY <1>0, <1>3, <1>4, <1>5, <1>6 DEF names, Lone, Recovers, Begins, Settles, Ends, Mover, Reads,
     Updating, Releasing
<1>7. CASE exit(p)
  BY <1>0, <1>1, <1>7, LoneExit
<1>8. CASE proc' = [proc EXCEPT ![p] = n] /\ (proc[p].then = "open" => terminal(status))
  BY <1>0, <1>1, <1>6, <1>8, LoneOf, LoneStep
<1> QED BY <1>2, <1>7, <1>8

\* The record under that lock is there, or the lock embeds it, or nothing can be done.
LEMMA LoneReadRecord ==
    ASSUME AloneInv, AbortInv', NEW p \in Procs, ReadRecord(p)
    PROVE  AloneInv'
<1>0. /\ proc[p] \in Process /\ alive(p)
      /\ Lone(p, proc[p], lock, records, tx)
      /\ Sound(p, proc[p], records[p], tx[p])
  BY LoneOf DEF ReadRecord, alive
<1> DEFINE embedded == proc[p].record
           status == records[proc[p].own]
<1>1. /\ proc[p].pc = "readRecord" /\ lock = Held(proc[p].own, embedded) /\ names(lock, proc[p].own)
      /\ UNCHANGED <<lock, records, tx>>
  BY <1>0 DEF ReadRecord, Lone, Recovers, Begins, Settles, Ends, names, Held
<1>2. CASE status # none /\ embedded = none
  BY <1>1, <1>2, LoneRecovered DEF ReadRecord
<1>3. CASE status # none /\ embedded # none
  <2> DEFINE n == [proc[p] EXCEPT !.pc = "rewriteLock", !.record = status]
  <2>1. /\ n.pc = "rewriteLock" /\ n.own = proc[p].own /\ n.record = status
        /\ n.then = proc[p].then /\ n.seen = proc[p].seen
        /\ n.guarded = proc[p].guarded /\ n.crossed = proc[p].crossed
    BY <1>0 DEF Process
  <2>2. proc' = [proc EXCEPT ![p] = n]
    BY <1>3 DEF ReadRecord, step
  <2> HIDE DEF n
  <2>3. Lone(p, n, lock, records, tx)
    BY <1>0, <1>1, <1>3, <2>1 DEF Lone, Recovers, Begins, Settles, Ends, Mover, Reads, Updating,
       Releasing
  <2> QED BY <1>0, <1>1, <2>2, <2>3, LoneMove
<1>4. CASE status = none /\ embedded # none
  <2> DEFINE n == [proc[p] EXCEPT !.pc = "restoreRecord"]
  <2>1. /\ n.pc = "restoreRecord" /\ n.own = proc[p].own /\ n.record = embedded
        /\ n.then = proc[p].then /\ n.seen = proc[p].seen
        /\ n.guarded = proc[p].guarded /\ n.crossed = proc[p].crossed
    BY <1>0 DEF Process
  <2>2. proc' = [proc EXCEPT ![p] = n]
    BY <1>4 DEF ReadRecord, go
  <2> HIDE DEF n
  <2>3. Lone(p, n, lock, records, tx)
    BY <1>0, <1>1, <1>4, <2>1 DEF Lone, Recovers, Begins, Settles, Ends, Mover, Reads, Updating,
       Releasing
  <2> QED BY <1>0, <1>1, <2>2, <2>3, LoneMove
<1>5. CASE status = none /\ embedded = none
  BY <1>0, <1>1, <1>5, LoneLeaves DEF ReadRecord
<1> QED BY <1>2, <1>3, <1>4, <1>5

\* The operation whose record is restored never sent: its record would be there.
LEMMA LoneRestoreRecord ==
    ASSUME AloneInv, AbortInv', NEW p \in Procs, RestoreRecord(p)
    PROVE  AloneInv'
<1>0. /\ proc[p] \in Process /\ alive(p)
      /\ Lone(p, proc[p], lock, records, tx)
      /\ Sound(p, proc[p], records[p], tx[p])
  BY LoneOf DEF RestoreRecord, alive
<1> DEFINE o == proc[p].own
<1>1. /\ proc[p].pc = "restoreRecord" /\ o \in Procs /\ o # p /\ lock = Held(o, proc[p].record)
      /\ records[o] = none /\ proc[p].record # none
      /\ records' = [records EXCEPT ![o] = proc[p].record] /\ UNCHANGED <<lock, tx>>
  BY <1>0 DEF RestoreRecord, Lone, Recovers, Begins, Settles, Ends, Sound, Owners, OwnPcs, started
<1>2. /\ records'[o] = proc[p].record /\ \A q \in Procs \ {o} : records'[q] = records[q]
      /\ names(lock, o)
  BY <1>1 DEF AloneInv, AbortInv, TypeOK, names, Held
<1>3. tx[o] = "unsent"
  <2>1. tx[o] \in {"unsent", "sent"} \cup Settled
    BY <1>1, LoneOf
  <2> QED BY <1>1, <2>1 DEF AloneInv, SentIsRecorded, none
<1>4. LockedOpen' /\ SentIsRecorded' /\ SentOpen'
  BY <1>1, <1>2, <1>3 DEF AloneInv, LockedOpen, owns, names, SentIsRecorded, SentOpen
<1> DEFINE n == [proc[p] EXCEPT !.pc = "rewriteLock"]
<1>5. /\ n.pc = "rewriteLock" /\ n.own = o /\ n.record = proc[p].record
      /\ n.then = proc[p].then /\ n.seen = proc[p].seen
      /\ n.guarded = proc[p].guarded /\ n.crossed = proc[p].crossed
  BY <1>0 DEF Process
<1>6. proc' = [proc EXCEPT ![p] = n]
  BY DEF RestoreRecord, go
<1> HIDE DEF n, o
<1>7. Lone(p, n, lock', records', tx')
  BY <1>0, <1>1, <1>2, <1>5 DEF Lone, Recovers, Begins, Settles, Ends, Mover, Reads, Updating,
     Releasing
<1> QED BY <1>0, <1>4, <1>6, <1>7, LoneOf, LoneStep

\* The restored record is on disk before the lock forgets it.
LEMMA LoneRewriteLock ==
    ASSUME AloneInv, AbortInv', NEW p \in Procs, RewriteLock(p)
    PROVE  AloneInv'
<1>0. /\ proc[p] \in Process /\ alive(p)
      /\ Lone(p, proc[p], lock, records, tx)
      /\ Sound(p, proc[p], records[p], tx[p])
  BY LoneOf DEF RewriteLock, alive
<1> DEFINE o == proc[p].own
<1>1. /\ proc[p].pc = "rewriteLock" /\ names(lock, o) /\ proc[p].record = records[o] /\ o # p
      /\ o \in Procs
  BY <1>0 DEF RewriteLock, Lone, Recovers, Begins, Settles, Ends, Sound, Owners, OwnPcs, started
<1>2. lock' = Held(o, none) /\ UNCHANGED <<records, tx>> /\ recovered(p, records[o]) /\ names(lock', o)
  BY <1>1 DEF RewriteLock, names, Held
<1>3. records[o] # none
  BY <1>0, <1>1 DEF Lone, Recovers, Begins, Settles, Ends
<1> QED BY <1>1, <1>2, <1>3, LoneRecovered

\* An update reads the record as it stands.
LEMMA LoneGet ==
    ASSUME AloneInv, AbortInv', NEW p \in Procs, Get(p)
    PROVE  AloneInv'
<1>0. /\ proc[p] \in Process /\ alive(p)
      /\ Lone(p, proc[p], lock, records, tx)
      /\ Sound(p, proc[p], records[p], tx[p])
  BY LoneOf DEF Get, alive
<1> DEFINE n == [proc[p] EXCEPT !.pc = "assertOwns", !.record = records[proc[p].own]]
<1>1. /\ n.pc = "assertOwns" /\ n.own = proc[p].own /\ n.record = records[proc[p].own]
      /\ n.next = proc[p].next /\ n.then = proc[p].then
      /\ n.guarded = proc[p].guarded /\ n.crossed = proc[p].crossed
  BY <1>0 DEF Process
<1>2. proc' = [proc EXCEPT ![p] = n] /\ UNCHANGED <<lock, records, tx>>
  BY DEF Get, step
<1> HIDE DEF n
<1>3. Lone(p, n, lock, records, tx)
  BY <1>0, <1>1 DEF Get, Lone, Recovers, Begins, Settles, Ends, Mover, Reads, Updating, Releasing
<1> QED BY <1>0, <1>2, <1>3, LoneMove

\* An update goes on only under a lock that names the operation.
LEMMA LoneAssertOwns ==
    ASSUME AloneInv, AbortInv', NEW p \in Procs, AssertOwns(p)
    PROVE  AloneInv'
<1>0. /\ proc[p] \in Process /\ alive(p)
      /\ Lone(p, proc[p], lock, records, tx)
      /\ Sound(p, proc[p], records[p], tx[p])
  BY LoneOf DEF AssertOwns, alive
<1>1. UNCHANGED <<lock, records, tx>> /\ proc[p].pc = "assertOwns"
  BY DEF AssertOwns
<1> DEFINE n == [proc[p] EXCEPT !.pc = "write"]
<1>2. throw(p) \/ (owns(proc[p].own) /\ proc' = [proc EXCEPT ![p] = n])
  BY DEF AssertOwns, go
<1>3. /\ n.pc = "write" /\ n.own = proc[p].own /\ n.record = proc[p].record
      /\ n.next = proc[p].next /\ n.then = proc[p].then
      /\ n.guarded = proc[p].guarded /\ n.crossed = proc[p].crossed
  BY <1>0 DEF Process
<1> HIDE DEF n
<1>4. owns(proc[p].own) => Lone(p, n, lock, records, tx)
  BY <1>0, <1>1, <1>3 DEF owns, names, Lone, Recovers, Begins, Settles, Ends, Mover, Reads,
     Updating, Releasing
<1> QED BY <1>0, <1>1, <1>2, <1>4, LoneThrow, LoneMove

\* A status is written to the record of the operation the lock names; a settled one only of a
\* transaction that was included or cannot leave.
LEMMA LoneWrite ==
    ASSUME AloneInv, AbortInv', NEW p \in Procs, Write(p)
    PROVE  AloneInv'
<1>0. /\ proc[p] \in Process /\ alive(p)
      /\ Lone(p, proc[p], lock, records, tx)
      /\ Sound(p, proc[p], records[p], tx[p])
  BY LoneOf DEF Write, alive
<1> DEFINE r == proc[p]
           o == r.own
           status == IF r.next = none THEN r.record ELSE r.next
<1>1. /\ r.pc = "write" /\ o \in Procs /\ names(lock, o) /\ r.record = records[o]
      /\ r.next \in Status \cup {none} /\ r.then \in {"build", "send", "gone"}
  BY <1>0 DEF Write, Lone, Recovers, Begins, Settles, Ends, Sound, Owners, OwnPcs, started, Paths,
     Process
<1>2. records' = [records EXCEPT ![o] = status] /\ UNCHANGED <<lock, tx>>
  BY DEF Write
<1>3. records'[o] = status /\ \A q \in Procs \ {o} : records'[q] = records[q]
  BY <1>1, <1>2 DEF AloneInv, AbortInv, TypeOK
<1>4. /\ r.next # "building"
      /\ r.next = "aborted" => tx[o] = "unsent"
      /\ r.next \in {"complete", "failed"} => tx[o] \in Settled
  BY <1>0, <1>1 DEF Sound, Updates, Lone, Recovers, Begins, Settles, Ends, Updating
<1>5. LockedOpen' /\ SentIsRecorded' /\ SentOpen'
  <2>1. tx[o] # "unsent" => status \in {"broadcast", "in_doubt", "complete", "failed"}
    BY <1>1, <1>4 DEF AloneInv, SentIsRecorded, Status, none
  <2>2. tx[o] = "sent" => status \in {"broadcast", "in_doubt"}
    BY <1>1, <1>4 DEF AloneInv, SentOpen, Status, Settled, none
  <2> HIDE DEF status
  <2> QED BY <1>1, <1>2, <1>3, <2>1, <2>2 DEF AloneInv, LockedOpen, owns, names, SentIsRecorded,
       SentOpen
<1>6. r.then \in {"build", "send"} =>
        /\ o = p /\ Mover(r) /\ ~r.crossed /\ status \in {"building", "broadcast"}
        /\ r.then = "send" => status = "broadcast"
  BY <1>0, <1>1 DEF Lone, Recovers, Begins, Settles, Ends, Mover, Updating, none
<1>7. CASE terminal(status)
  <2> DEFINE n == [r EXCEPT !.record = none, !.next = none, !.pc = "release"]
  <2>1. r.then = "gone"
    BY <1>1, <1>6, <1>7 DEF terminal
  <2>2. /\ n.pc = "release" /\ n.own = o /\ n.then = "gone"
        /\ n.guarded = r.guarded /\ n.crossed = r.crossed
    BY <1>0, <2>1 DEF Process
  <2>3. proc' = [proc EXCEPT ![p] = n]
    <3>1. step(p, [[r EXCEPT !.record = none, !.next = none] EXCEPT !.pc = "release"])
      BY <1>7 DEF Write
    <3>2. n = [[r EXCEPT !.record = none, !.next = none] EXCEPT !.pc = "release"]
      BY <1>0 DEF Process
    <3> QED BY <3>1, <3>2 DEF step
  <2> HIDE DEF n
  <2>4. Clear(records')
    <3>1. ~unresolved(status)
      BY <1>7 DEF unresolved
    <3> HIDE DEF status
    <3> QED BY <1>1, <1>3, <3>1 DEF AloneInv, LockedOpen, owns, names, Clear
  <2>5. Lone(p, n, lock', records', tx')
    BY <1>0, <1>1, <2>1, <2>2, <2>4 DEF Lone, Recovers, Begins, Settles, Ends, Mover, Reads,
       Updating, Releasing
  <2> QED BY <1>0, <1>5, <2>3, <2>5, LoneOf, LoneStep
<1>8. CASE ~terminal(status) /\ r.then = "gone"
  BY <1>0, <1>5, <1>8, LoneExit DEF Write
<1>9. CASE ~terminal(status) /\ r.then # "gone"
  <2> DEFINE n == [r EXCEPT !.record = none, !.next = none, !.pc = r.then, !.then = none]
  <2>1. /\ n.pc = r.then /\ n.pc \in {"build", "send"} /\ n.then = none
        /\ n.guarded = r.guarded /\ n.crossed = r.crossed
    BY <1>0, <1>1, <1>9 DEF Process
  <2>2. proc' = [proc EXCEPT ![p] = n]
    <3>1. step(p, [[r EXCEPT !.record = none, !.next = none] EXCEPT !.pc = r.then, !.then = none])
      BY <1>9 DEF Write
    <3>2. n = [[r EXCEPT !.record = none, !.next = none] EXCEPT !.pc = r.then, !.then = none]
      BY <1>0 DEF Process
    <3> QED BY <3>1, <3>2 DEF step
  <2> HIDE DEF n
  <2>3. records'[p] = status /\ names(lock', p)
    BY <1>1, <1>2, <1>3, <1>6, <1>9
  <2> HIDE DEF status
  <2>4. Lone(p, n, lock', records', tx')
    BY <1>1, <1>6, <1>9, <2>1, <2>3 DEF Lone, Recovers, Begins, Settles, Ends, Mover, Reads,
       Updating, Releasing
  <2> QED BY <1>0, <1>5, <2>2, <2>4, LoneOf, LoneStep
<1> QED BY <1>7, <1>8, <1>9

\* A fund movement that failed is aborted or in doubt; either way its process only ends.
LEMMA LoneFailOrAbort ==
    ASSUME AloneInv, AbortInv', NEW p \in Procs, FailOrAbort(p)
    PROVE  AloneInv'
<1>0. /\ proc[p] \in Process /\ alive(p)
      /\ Lone(p, proc[p], lock, records, tx)
      /\ Sound(p, proc[p], records[p], tx[p])
  BY LoneOf DEF FailOrAbort, alive
<1>1. UNCHANGED <<lock, records, tx>>
  BY DEF FailOrAbort
<1>2. exit(p) \/ updates(p, p, "aborted", "gone", FALSE) \/ updates(p, p, "in_doubt", "gone", FALSE)
  BY DEF FailOrAbort
<1> QED BY <1>0, <1>1, <1>2, LoneLeaves, LoneUpdates

\* The lock is claimed and confirmed with everything settled.
LEMMA LoneRelease ==
    ASSUME AloneInv, AbortInv', NEW p \in Procs, Release(p) \/ Confirm(p)
    PROVE  AloneInv'
<1>0. /\ proc[p] \in Process /\ alive(p)
      /\ Lone(p, proc[p], lock, records, tx)
  BY LoneOf DEF Release, Confirm, alive
<1>1. UNCHANGED <<lock, records, tx>> /\ proc[p].pc \in Releasing
  BY DEF Release, Confirm, Releasing
<1>2. throw(p) \/ \E x \in {"claim", "unlink"}, k \in {1, proc[p].k} :
                       proc' = [proc EXCEPT ![p] = [proc[p] EXCEPT !.pc = x, !.k = k]]
  <2>1. [proc[p] EXCEPT !.pc = "unlink"] = [proc[p] EXCEPT !.pc = "unlink", !.k = proc[p].k]
    BY <1>0 DEF Process
  <2>2. throw(p) \/ proc' = [proc EXCEPT ![p] = [proc[p] EXCEPT !.pc = "claim", !.k = 1]]
                 \/ proc' = [proc EXCEPT ![p] = [proc[p] EXCEPT !.pc = "unlink"]]
    BY DEF Release, Confirm, go, step
  <2> QED BY <2>1, <2>2
<1>3. ASSUME NEW x \in {"claim", "unlink"}, NEW k \in {1, proc[p].k},
             proc' = [proc EXCEPT ![p] = [proc[p] EXCEPT !.pc = x, !.k = k]]
      PROVE  AloneInv'
  <2> DEFINE n == [proc[p] EXCEPT !.pc = x, !.k = k]
  <2>1. /\ n.pc = x /\ n.own = proc[p].own /\ n.then = proc[p].then
        /\ n.guarded = proc[p].guarded /\ n.crossed = proc[p].crossed
    BY <1>0 DEF Process
  <2>2. proc' = [proc EXCEPT ![p] = n]
    BY <1>3
  <2> HIDE DEF n
  <2>3. Lone(p, n, lock, records, tx)
    BY <1>0, <1>1, <2>1 DEF Lone, Recovers, Begins, Settles, Ends, Mover, Reads, Updating, Releasing
  <2> QED BY <1>0, <1>1, <2>2, <2>3, LoneMove
<1> QED BY <1>0, <1>1, <1>2, <1>3, LoneThrow

\* A dead claimant is superseded and a living one respected; the lock stays.
LEMMA LoneClaim ==
    ASSUME AloneInv, AbortInv', NEW p \in Procs, Claim(p)
    PROVE  AloneInv'
<1>0. /\ proc[p] \in Process /\ alive(p)
      /\ Lone(p, proc[p], lock, records, tx)
      /\ Sound(p, proc[p], records[p], tx[p])
  BY LoneOf DEF Claim, alive
<1>1. UNCHANGED <<lock, records, tx>> /\ proc[p].pc = "claim"
  BY DEF Claim
<1> DEFINE n == [proc[p] EXCEPT !.pc = "confirm"]
           m == [proc[p] EXCEPT !.k = @ + 1]
<1>2. throw(p) \/ proc' = [proc EXCEPT ![p] = n] \/ proc' = [proc EXCEPT ![p] = m]
  BY Zenon DEF Claim, go, step
<1>3. /\ n.pc = "confirm" /\ n.own = proc[p].own /\ n.then = proc[p].then
      /\ n.guarded = proc[p].guarded /\ n.crossed = proc[p].crossed
      /\ m.pc = "claim" /\ m.own = proc[p].own /\ m.then = proc[p].then
      /\ m.guarded = proc[p].guarded /\ m.crossed = proc[p].crossed
  BY <1>0, <1>1 DEF Process
<1> HIDE DEF n, m
<1>4. Lone(p, n, lock, records, tx) /\ Lone(p, m, lock, records, tx)
  BY <1>0, <1>1, <1>3 DEF Lone, Recovers, Begins, Settles, Ends, Mover, Reads, Updating, Releasing
<1> QED BY <1>0, <1>1, <1>2, <1>4, LoneThrow, LoneMove

\* The lock goes with everything settled.
LEMMA LoneUnlink ==
    ASSUME AloneInv, AbortInv', NEW p \in Procs, Unlink(p)
    PROVE  AloneInv'
<1>0. /\ proc[p] \in Process /\ alive(p)
      /\ Lone(p, proc[p], lock, records, tx)
      /\ Sound(p, proc[p], records[p], tx[p])
  BY LoneOf DEF Unlink, alive
<1>1. /\ lock' = Absent /\ UNCHANGED <<records, tx>> /\ Clear(records)
      /\ proc[p].pc = "unlink" /\ proc[p].then \in {"open", "gone"}
  BY <1>0 DEF Unlink, Lone, Recovers, Begins, Settles, Ends, Releasing
<1>2. LockedOpen' /\ SentIsRecorded' /\ SentOpen'
  BY <1>1 DEF AloneInv, Clear, LockedOpen, SentIsRecorded, SentOpen
<1> DEFINE n == [proc[p] EXCEPT !.pc = proc[p].then, !.k = 1, !.own = none]
<1>3. \/ throw(p) /\ UNCHANGED lock
      \/ exit(p)
      \/ proc[p].then = "open" /\ proc' = [proc EXCEPT ![p] = n]
  BY <1>1, Zenon DEF Unlink, step
<1>4. /\ n.pc = proc[p].then /\ n.then = proc[p].then
      /\ n.guarded = proc[p].guarded /\ n.crossed = proc[p].crossed
  BY <1>0 DEF Process
<1> HIDE DEF n
<1>5. proc[p].then = "open" => Lone(p, n, lock', records', tx')
  BY <1>0, <1>1, <1>4 DEF Absent, Lone, Recovers, Begins, Settles, Ends, Mover, Reads, Updating,
     Releasing
<1>6. CASE throw(p) /\ UNCHANGED lock
  BY <1>0, <1>1, <1>6, LoneThrow
<1>7. CASE exit(p)
  BY <1>0, <1>2, <1>7, LoneExit
<1>8. CASE proc[p].then = "open" /\ proc' = [proc EXCEPT ![p] = n]
  BY <1>0, <1>2, <1>5, <1>8, LoneOf, LoneStep
<1> QED BY <1>3, <1>6, <1>7, <1>8

\* A fund movement is given up.
LEMMA LoneFails ==
    ASSUME AloneInv, AbortInv', NEW p \in Procs, proc[p].pc \in {"build", "await"},
           step(p, [proc[p] EXCEPT !.pc = "failOrAbort", !.own = p]), UNCHANGED <<lock, records, tx>>
    PROVE  AloneInv'
<1>0. proc[p] \in Process /\ alive(p) /\ Lone(p, proc[p], lock, records, tx)
  BY LoneOf DEF alive
<1> DEFINE n == [proc[p] EXCEPT !.pc = "failOrAbort", !.own = p]
<1>1. n.pc = "failOrAbort" /\ n.guarded = proc[p].guarded /\ n.crossed = proc[p].crossed
  BY <1>0 DEF Process
<1>2. proc' = [proc EXCEPT ![p] = n]
  BY DEF step
<1> HIDE DEF n
<1>3. Lone(p, n, lock, records, tx)
  BY <1>1 DEF Lone, Recovers, Begins, Settles, Ends, Mover, Reads, Updating, Releasing
<1> QED BY <1>0, <1>2, <1>3, LoneMove

\* A transaction is built under the lock; its hash is recorded before it is sent.
LEMMA LoneBuild ==
    ASSUME AloneInv, AbortInv', NEW p \in Procs, Build(p)
    PROVE  AloneInv'
<1>0. /\ proc[p] \in Process /\ alive(p)
      /\ Lone(p, proc[p], lock, records, tx)
      /\ Sound(p, proc[p], records[p], tx[p])
  BY LoneOf DEF Build, alive
<1>1. UNCHANGED <<lock, records, tx>> /\ proc[p].pc = "build"
  BY DEF Build
<1>2. \/ updates(p, p, none, "build", TRUE) \/ updates(p, p, "broadcast", "send", TRUE)
      \/ step(p, [proc[p] EXCEPT !.pc = "failOrAbort", !.own = p])
  BY DEF Build
<1>3. none \notin {"complete", "failed"}
  BY DEF none
<1>4. CASE updates(p, p, none, "build", TRUE)
  BY <1>0, <1>1, <1>3, <1>4, LoneUpdates
<1>5. CASE updates(p, p, "broadcast", "send", TRUE)
  BY <1>0, <1>1, <1>5, LoneUpdates
<1> QED BY <1>1, <1>2, <1>4, <1>5, LoneFails

\* The transaction leaves with its hash recorded and the lock held.
LEMMA LoneSend ==
    ASSUME AloneInv, AbortInv', NEW p \in Procs, Send(p)
    PROVE  AloneInv'
<1>0. /\ proc[p] \in Process /\ alive(p)
      /\ Lone(p, proc[p], lock, records, tx)
      /\ Sound(p, proc[p], records[p], tx[p])
  BY LoneOf DEF Send, alive
<1>1. proc[p].pc = "send" /\ records[p] = "broadcast" /\ UNCHANGED <<lock, records>>
  BY <1>0 DEF Send, Lone, Recovers, Begins, Settles, Ends
<1>2. tx' = tx \/ tx' = [tx EXCEPT ![p] = "sent"]
  BY DEF Send
<1>3. \A q \in Procs \ {p} : tx'[q] = tx[q]
  BY <1>2 DEF AloneInv, AbortInv, TypeOK
<1>4. LockedOpen' /\ SentIsRecorded' /\ SentOpen'
  BY <1>1, <1>3 DEF AloneInv, LockedOpen, owns, SentIsRecorded, SentOpen
<1> DEFINE n(x) == [proc[p] EXCEPT !.crossed = TRUE, !.pc = x, !.own = IF x = "await" THEN proc[p].own ELSE p]
<1>5. exit(p) \/ \E x \in {"failOrAbort", "await"} : proc' = [proc EXCEPT ![p] = n(x)]
  <2> DEFINE self == [proc[p] EXCEPT !.crossed = TRUE]
  <2>1. /\ n("failOrAbort") = [self EXCEPT !.pc = "failOrAbort", !.own = p]
        /\ n("await") = [self EXCEPT !.pc = "await"]
    BY <1>0 DEF Process
  <2>2. \/ exit(p) \/ step(p, [self EXCEPT !.pc = "failOrAbort", !.own = p])
        \/ step(p, [self EXCEPT !.pc = "await"])
    BY DEF Send
  <2> HIDE DEF n, self
  <2> QED BY <2>1, <2>2 DEF step
<1>6. ASSUME NEW x \in {"failOrAbort", "await"}, proc' = [proc EXCEPT ![p] = n(x)]
      PROVE  AloneInv'
  <2>1. n(x).pc = x /\ n(x).crossed
    BY <1>0 DEF Process
  <2> HIDE DEF n
  <2>2. Lone(p, n(x), lock', records', tx')
    BY <2>1 DEF Lone, Recovers, Begins, Settles, Ends, Mover, Reads, Updating, Releasing
  <2> QED BY <1>0, <1>4, <1>6, <2>2, LoneOf, LoneStep
<1> QED BY <1>0, <1>4, <1>5, <1>6, LoneExit

\* What was included is recorded so; the rest is in doubt.
LEMMA LoneAwait ==
    ASSUME AloneInv, AbortInv', NEW p \in Procs, Await(p)
    PROVE  AloneInv'
<1>0. /\ proc[p] \in Process /\ alive(p)
      /\ Lone(p, proc[p], lock, records, tx)
      /\ Sound(p, proc[p], records[p], tx[p])
  BY LoneOf DEF Await, alive
<1>1. UNCHANGED <<lock, records, tx>> /\ proc[p].pc = "await" /\ proc[p].crossed
  BY <1>0 DEF Await, Lone, Recovers, Begins, Settles, Ends
<1>2. CASE tx[p] \in Settled /\ updates(p, p, "complete", "gone", TRUE)
  BY <1>0, <1>1, <1>2, LoneUpdates
<1>3. CASE step(p, [proc[p] EXCEPT !.pc = "failOrAbort", !.own = p])
  BY <1>1, <1>3, LoneFails
<1> QED BY <1>2, <1>3 DEF Await

\* A recoverer records what was included, or looks up the lock once more before it does.
LEMMA LoneReceipt ==
    ASSUME AloneInv, AbortInv', NEW p \in Procs, Receipt(p)
    PROVE  AloneInv'
<1>0. /\ proc[p] \in Process /\ alive(p)
      /\ Lone(p, proc[p], lock, records, tx)
      /\ Sound(p, proc[p], records[p], tx[p])
  BY LoneOf DEF Receipt, alive
<1> DEFINE o == proc[p].own
           n == [proc[p] EXCEPT !.pc = "readLock", !.then = "apply", !.seen = {o}]
<1>1. UNCHANGED <<lock, records, tx>> /\ proc[p].pc = "receipt"
  BY DEF Receipt
<1>2. \/ exit(p)
      \/ tx[o] \in Settled /\ proc' = [proc EXCEPT ![p] = n]
      \/ tx[o] \in Settled /\ updates(p, o, "complete", "gone", FALSE)
  BY DEF Receipt, step
<1>3. /\ n.pc = "readLock" /\ n.then = "apply" /\ n.seen = {o}
      /\ n.guarded = proc[p].guarded /\ n.crossed = proc[p].crossed
  BY <1>0 DEF Process
<1> HIDE DEF n
<1>4. tx[o] \in Settled => Lone(p, n, lock, records, tx)
  BY <1>0, <1>1, <1>3 DEF Lone, Recovers, Begins, Settles, Ends, Mover, Reads, Updating, Releasing
<1> QED BY <1>0, <1>1, <1>2, <1>4, LoneLeaves, LoneMove, LoneUpdates

\* It records the outcome it saw, of the operation it saw it of.
LEMMA LoneApplyReconciliation ==
    ASSUME AloneInv, AbortInv', NEW p \in Procs, ApplyReconciliation(p)
    PROVE  AloneInv'
<1>0. /\ proc[p] \in Process /\ alive(p)
      /\ Lone(p, proc[p], lock, records, tx)
      /\ Sound(p, proc[p], records[p], tx[p])
  BY LoneOf DEF ApplyReconciliation, alive
<1> DEFINE o == proc[p].own
           status == IF tx[o] = "reverted" THEN "failed" ELSE "complete"
<1>1. UNCHANGED <<lock, records, tx>> /\ proc[p].pc = "apply"
  BY DEF ApplyReconciliation
<1>2. exit(p) \/ (proc[p].seen = {o} /\ updates(p, o, status, "gone", FALSE))
  BY DEF ApplyReconciliation
<1>3. proc[p].seen = {o} => tx[o] \in Settled
  BY <1>0, <1>1 DEF Lone, Recovers, Begins, Settles, Ends
<1> HIDE DEF status
<1> QED BY <1>0, <1>1, <1>2, <1>3, LoneLeaves, LoneUpdates

\* A process dies anywhere; a transaction that left is included.
LEMMA LoneCrash ==
    ASSUME AloneInv, AbortInv', NEW p \in Procs, Crash(p)
    PROVE  AloneInv'
  BY LoneLeaves DEF Crash

\* A transaction that left is included, mined or reverted.
LEMMA LoneIncluded ==
    ASSUME AloneInv, AbortInv', NEW o \in Procs, Included(o)
    PROVE  AloneInv'
<1>1. PICK outcome \in Settled : tx' = [tx EXCEPT ![o] = outcome]
  BY DEF Included
<1>2. tx[o] = "sent" /\ UNCHANGED <<lock, records, proc>>
  BY DEF Included
<1>3. \A q \in Procs : tx'[q] = tx[q] \/ (q = o /\ tx'[q] \in Settled)
  BY <1>1 DEF AloneInv, AbortInv, TypeOK
<1>4. Alone' /\ LockedOpen' /\ SentIsRecorded' /\ SentOpen'
  BY <1>2, <1>3 DEF AloneInv, Alone, alive, LockedOpen, owns, SentIsRecorded, SentOpen, Settled
<1>5. ASSUME NEW p \in Procs PROVE Lone(p, proc[p], lock, records, tx)'
  <2>1. Lone(p, proc[p], lock, records, tx) /\ proc[p] \in Process /\ Sound(p, proc[p], records[p], tx[p])
    BY LoneOf
  <2>2. \A q \in Procs : tx[q] \in Settled => tx'[q] \in Settled
    BY <1>3
  <2>3. proc[p].pc \in Updating => proc[p].own \in Procs
    BY <2>1 DEF Sound, Owners, OwnPcs, Updating, started
  <2>4. proc[p].seen \in SUBSET Procs
    BY <2>1 DEF Process
  <2> QED BY <1>2, <2>1, <2>2, <2>3, <2>4 DEF Lone, Recovers, Begins, Settles, Ends
<1> QED BY <1>4, <1>5 DEF AloneInv
-----------------------------------------------------------------------------
\* It holds before any process starts.
LEMMA LoneInit == MaxAlive = 1 /\ Init => AloneInv
<1> SUFFICES ASSUME MaxAlive = 1, Init PROVE AloneInv
  OBVIOUS
<1>1. \A p \in Procs : Lone(p, proc[p], lock, records, tx)
  BY DEF Init, Off, Lone, Recovers, Begins, Settles, Ends, Mover, Reads, Updating, Releasing
<1>2. Alone /\ LockedOpen /\ SentIsRecorded /\ SentOpen
  BY DEF Init, Off, Alone, alive, LockedOpen, unresolved, SentIsRecorded, SentOpen
<1> QED BY <1>1, <1>2, AbortInit DEF AloneInv

\* Every step of the lone process, and every inclusion, keeps the invariant.
LEMMA LoneNext == AloneInv /\ [Next]_vars => AloneInv'
<1> SUFFICES ASSUME AloneInv, [Next]_vars PROVE AloneInv'
  OBVIOUS
<1>0. AbortInv'
  BY AbortNext DEF AloneInv
<1>1. CASE UNCHANGED vars
  <2>1. Alone' /\ LockedOpen' /\ SentIsRecorded' /\ SentOpen'
    BY <1>1 DEF vars, AloneInv, Alone, alive, LockedOpen, owns, SentIsRecorded, SentOpen
  <2>2. \A p \in Procs : Lone(p, proc[p], lock, records, tx)'
    BY <1>1 DEF vars, AloneInv, Lone, Recovers, Begins, Settles, Ends
  <2> QED BY <1>0, <2>1, <2>2 DEF AloneInv
<1>2. ASSUME NEW p \in Procs,
             \/ Start(p) \/ OpenLock(p) \/ FillLock(p) \/ ListRecords(p) \/ ScanRecords(p)
             \/ PublishRecord(p) \/ StripLock(p) \/ ReadLock(p) \/ ReadRecord(p)
             \/ RestoreRecord(p) \/ RewriteLock(p)
      PROVE  AloneInv'
  BY <1>0, <1>2, LoneStart, LoneOpenLock, LoneFillLock, LoneListRecords, LoneScanRecords,
     LonePublishRecord, LoneStripLock, LoneReadLock, LoneReadRecord, LoneRestoreRecord, LoneRewriteLock
<1>3. ASSUME NEW p \in Procs,
             \/ Get(p) \/ AssertOwns(p) \/ Write(p) \/ FailOrAbort(p)
             \/ Release(p) \/ Claim(p) \/ Confirm(p) \/ Unlink(p)
      PROVE  AloneInv'
  BY <1>0, <1>3, LoneGet, LoneAssertOwns, LoneWrite, LoneFailOrAbort, LoneRelease, LoneClaim,
     LoneUnlink
<1>4. ASSUME NEW p \in Procs,
             \/ Build(p) \/ Send(p) \/ Await(p) \/ Receipt(p)
             \/ ApplyReconciliation(p) \/ Crash(p) \/ Included(p)
      PROVE  AloneInv'
  BY <1>0, <1>4, LoneBuild, LoneSend, LoneAwait, LoneReceipt, LoneApplyReconciliation, LoneCrash,
     LoneIncluded
<1> QED BY <1>1, <1>2, <1>3, <1>4 DEF Next

\* While one process runs at a time, whatever dies where, two operations never both may move funds.
THEOREM SingleFlightTheorem == MaxAlive = 1 => (Spec => []SingleFlight)
<1> SUFFICES ASSUME MaxAlive = 1 PROVE Spec => []SingleFlight
  OBVIOUS
<1>1. AloneInv => SingleFlight
  <2> SUFFICES ASSUME AloneInv, NEW a \in Procs, moving(a) PROVE owns(a)
    BY DEF SingleFlight, owns
  <2>1. Lone(a, proc[a], lock, records, tx)
    BY DEF AloneInv
  <2>2. CASE tx[a] = "sent"
    <3>1. records[a] \in {"broadcast", "in_doubt"}
      BY <2>2 DEF AloneInv, SentOpen
    <3> QED BY <3>1 DEF AloneInv, LockedOpen, unresolved, terminal, none
  <2>3. CASE tx[a] # "sent"
    <3>1. Mover(proc[a])
      BY <2>1, <2>3 DEF moving, Mover, Lone, Recovers, Begins, Settles, Ends
    <3> QED BY <2>1, <3>1 DEF Lone, Recovers, Begins, Settles, Ends, names, owns
  <2> QED BY <2>2, <2>3
<1>2. Init => AloneInv
  BY LoneInit
<1> QED BY <1>1, <1>2, LoneNext, PTL DEF Spec

\* While one process runs at a time, a transaction leaves only with its hash on disk, which stays.
THEOREM SentIsRecordedTheorem == MaxAlive = 1 => (Spec => []SentIsRecorded)
<1> SUFFICES ASSUME MaxAlive = 1 PROVE Spec => []SentIsRecorded
  OBVIOUS
<1>1. AloneInv => SentIsRecorded
  BY DEF AloneInv
<1>2. Init => AloneInv
  BY LoneInit
<1> QED BY <1>1, <1>2, LoneNext, PTL DEF Spec

\* While one process runs at a time, whatever dies where leaves an unresolved operation locked.
THEOREM UnresolvedTheorem == MaxAlive = 1 => (Spec => []UnresolvedIsLocked)
<1> SUFFICES ASSUME MaxAlive = 1 PROVE Spec => []UnresolvedIsLocked
  OBVIOUS
<1>1. AloneInv => UnresolvedIsLocked
  BY DEF AloneInv, LockedOpen, unresolved, UnresolvedIsLocked
<1>2. Init => AloneInv
  BY LoneInit
<1> QED BY <1>1, <1>2, LoneNext, PTL DEF Spec

=============================================================================
