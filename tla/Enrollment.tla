----------------------------- MODULE Enrollment -----------------------------
(***************************************************************************)
(* A recipient enrolls: tools/recipient (cli.ts, commands.ts,              *)
(* enrollment.ts, backup.ts, api.ts).                                      *)
(*                                                                         *)
(* Commands of one data directory run as processes: each reads state.json, *)
(* awaits (a prompt, the node, the API) and writes back what it read with  *)
(* its own fields changed.  A process may die at any step, the machine may *)
(* lose power, and the API's answer may be lost.  A binding, and the       *)
(* TokenRegistrationAck signed for it, is the number of its challenge,     *)
(* negative when a dry run made it up.                                     *)
(***************************************************************************)
EXTENDS Integers, Sequences, FiniteSets

CONSTANTS OxideToken,     \* the corridor's token is an OxideToken
          Shells,         \* the processes of the recipient tool
          OutPairs,       \* the pairs of --out paths the user may name
          MaxChallenges, MaxSealed, MaxDrills, MaxMishaps

VARIABLES shells,         \* each process: its step, what it read and holds
          store,          \* state.json
          copies, synced, \* backup files: path to backup, and the durable entries
          sealed,         \* backups sealed so far: what each carries and where it went
          issued,         \* challenges issued
          posted,         \* enrollment requests sent
          drills,         \* dry runs of enroll start
          mishaps

enrollVars == <<shells, store, copies, synced, sealed, issued, posted, drills, mishaps>>

Nil == 0
Paths == UNION {{o[1], o[2]} : o \in OutPairs}

NoPending == [binding |-> Nil, ack |-> Nil]
initState == [readable |-> TRUE, registered |-> FALSE, pending |-> NoPending, tokenAck |-> Nil,
              commitment |-> Nil, backupAck |-> Nil, bindingId |-> Nil]
Ended == [step |-> "ended", saw |-> initState, live |-> TRUE, binding |-> Nil, backup |-> Nil]

EnrollInit ==
  /\ shells = [p \in Shells |-> Ended]
  /\ store = initState
  /\ copies = [f \in Paths |-> Nil] /\ synced = {}
  /\ sealed = <<>> /\ issued = 0
  /\ posted = {} /\ drills = 0 /\ mishaps = 0

requiredEnrollmentAcks ==
  {"BackupPersistenceAck", "SenderRegistrationAck"} \cup (IF OxideToken THEN {"TokenRegistrationAck"} ELSE {})

(* -------------------------- setup, enroll start ------------------------ *)

\* registerAndRecord: a live registration is recorded in what the file holds by then.
registerAndRecord(live) == [store EXCEPT !.registered = store.registered \/ live]

\* The setup, balance and restore commands register the token and touch nothing else of the file.
setup(p) ==
  /\ shells[p].step = "ended" /\ store.readable
  /\ ~store.registered
  /\ store' = registerAndRecord(TRUE)
  /\ UNCHANGED <<shells, copies, synced, sealed, issued, posted, drills, mishaps>>

startReads(p, live) ==
  /\ shells[p].step = "ended" /\ store.readable
  /\ store' = registerAndRecord(live)
  /\ shells' = [shells EXCEPT ![p] = [Ended EXCEPT !.step = "challenge", !.saw = store', !.live = live]]
  /\ UNCHANGED <<copies, synced, sealed, issued, posted, drills, mishaps>>

\* The API issues a challenge; the dry run makes one up, with a nonce and an expiry of its own.
challenge(p) ==
  /\ shells[p].step = "challenge"
  /\ IF shells[p].live
     THEN issued < MaxChallenges /\ issued' = issued + 1 /\ UNCHANGED drills
     ELSE drills < MaxDrills /\ drills' = drills + 1 /\ UNCHANGED issued
  /\ shells' = [shells EXCEPT ![p].step = "pend",
                              ![p].binding = IF shells[p].live THEN issued' ELSE -drills']
  /\ UNCHANGED <<store, copies, synced, sealed, posted, mishaps>>

\* The ack asserts the registration, so it is signed only where one was recorded.
signTokenRegistrationAck(saw, binding) ==
  IF "TokenRegistrationAck" \in requiredEnrollmentAcks /\ saw.registered THEN binding ELSE Nil

startWrites(p) ==
  LET sh == shells[p]
      ack == signTokenRegistrationAck(sh.saw, sh.binding)
  IN /\ sh.step = "pend"
     /\ store' = [sh.saw EXCEPT !.tokenAck = ack, !.pending = [binding |-> sh.binding, ack |-> ack]]
     /\ shells' = [shells EXCEPT ![p] = Ended]
     /\ UNCHANGED <<copies, synced, sealed, issued, posted, drills, mishaps>>

(* -------------------------------- backup ------------------------------- *)

backupReads(p) ==
  /\ shells[p].step = "ended" /\ store.readable
  /\ shells' = [shells EXCEPT ![p] = [Ended EXCEPT !.step = "seal", !.saw = store]]
  /\ UNCHANGED <<store, copies, synced, sealed, issued, posted, drills, mishaps>>

\* Sealing is randomised: every backup has a commitment of its own.
backupContents(saw) == IF saw.tokenAck # Nil THEN saw.tokenAck ELSE saw.pending.ack

sealBackup(p, outs) ==
  /\ shells[p].step = "seal" /\ Len(sealed) < MaxSealed
  /\ sealed' = Append(sealed, [ack |-> backupContents(shells[p].saw), outs |-> outs])
  /\ shells' = [shells EXCEPT ![p] =
                  IF \E i \in 1..2 : copies[outs[i]] # Nil
                  THEN Ended    \* refuses to overwrite an existing copy
                  ELSE [@ EXCEPT !.step = "first", !.backup = Len(sealed')]]
  /\ UNCHANGED <<store, copies, synced, issued, posted, drills, mishaps>>

outOf(p, i) == sealed[shells[p].backup].outs[i]

\* link(2) never replaces: another process may have made the path meanwhile.
linkFirst(p) ==
  /\ shells[p].step = "first"
  /\ IF copies[outOf(p, 1)] # Nil
     THEN shells' = [shells EXCEPT ![p] = Ended] /\ UNCHANGED copies
     ELSE /\ copies' = [copies EXCEPT ![outOf(p, 1)] = shells[p].backup]
          /\ shells' = [shells EXCEPT ![p].step = "second"]
  /\ UNCHANGED <<store, synced, sealed, issued, posted, drills, mishaps>>

\* When the second link fails the first is unlinked; when that fails too the copy stays.
linkSecond(p) ==
  /\ shells[p].step = "second"
  /\ IF copies[outOf(p, 2)] # Nil
     THEN /\ shells' = [shells EXCEPT ![p] = Ended]
          /\ \/ copies' = [copies EXCEPT ![outOf(p, 1)] = Nil] /\ UNCHANGED mishaps
             \/ mishaps < MaxMishaps /\ mishaps' = mishaps + 1 /\ UNCHANGED copies
     ELSE /\ copies' = [copies EXCEPT ![outOf(p, 2)] = shells[p].backup]
          /\ shells' = [shells EXCEPT ![p].step = "sync"]
          /\ UNCHANGED mishaps
  /\ UNCHANGED <<store, synced, sealed, issued, posted, drills>>

\* Mutant: the directories are not synced before the backup is recorded.
syncDirectory_Never(p) ==
  /\ shells[p].step = "sync"
  /\ shells' = [shells EXCEPT ![p].step = "record"]
  /\ UNCHANGED <<store, copies, synced, sealed, issued, posted, drills, mishaps>>

syncDirectory(p) ==
  /\ shells[p].step = "sync"
  /\ shells' = [shells EXCEPT ![p].step = "record"]
  /\ synced' = synced \cup {outOf(p, 1), outOf(p, 2)}
  /\ UNCHANGED <<store, copies, sealed, issued, posted, drills, mishaps>>

recordBackup(p) ==
  LET sh == shells[p]
  IN /\ sh.step = "record"
     /\ \A i \in 1..2 : copies[outOf(p, i)] = sh.backup    \* each copy reads back
     /\ store' = [sh.saw EXCEPT !.commitment = sh.backup, !.backupAck = backupContents(sh.saw)]
     /\ shells' = [shells EXCEPT ![p] = Ended]
     /\ UNCHANGED <<copies, synced, sealed, issued, posted, drills, mishaps>>

(* ----------------------------- enroll submit --------------------------- *)

\* Mutant: any backup will do.
backupCarries_Any(s) == s.commitment # Nil

backupCarries(s) ==
  /\ s.commitment # Nil
  /\ s.pending.ack # Nil => s.backupAck = s.pending.ack

\* The wallet's signature must recover over this binding; the token ack is never signed again here.
buildEnrollmentRequest(s, signedBinding) ==
  /\ signedBinding = s.pending.binding
  /\ "TokenRegistrationAck" \in requiredEnrollmentAcks => s.pending.ack = s.pending.binding

\* The dry run records the call and posts nothing.
submitReads(p, signedBinding, live) ==
  /\ shells[p].step = "ended" /\ store.readable
  /\ store.pending # NoPending /\ backupCarries(store)
  /\ buildEnrollmentRequest(store, signedBinding)
  /\ posted' = IF live THEN posted \cup {[binding |-> signedBinding, commitment |-> store.commitment]}
                       ELSE posted
  /\ shells' = [shells EXCEPT ![p] = [Ended EXCEPT !.step = "answer", !.saw = store, !.live = live]]
  /\ UNCHANGED <<store, copies, synced, sealed, issued, drills, mishaps>>

\* A projection of this descriptor ends the enrollment.
submitAnswered(p) ==
  LET sh == shells[p]
  IN /\ sh.step = "answer"
     /\ store' = [sh.saw EXCEPT !.pending = NoPending, !.tokenAck = sh.saw.pending.ack,
                                !.bindingId = sh.saw.pending.binding]
     /\ shells' = [shells EXCEPT ![p] = Ended]
     /\ UNCHANGED <<copies, synced, sealed, issued, posted, drills, mishaps>>

(* -------------------------- faults and restore ------------------------- *)

\* A command throws (a refused answer, a projection of another descriptor, a file that cannot be written
\* or does not read back) or dies: what it linked stays, and nothing is recorded.
fails(p) ==
  /\ shells[p].step # "ended" /\ mishaps < MaxMishaps
  /\ shells' = [shells EXCEPT ![p] = Ended]
  /\ mishaps' = mishaps + 1
  /\ UNCHANGED <<store, copies, synced, sealed, issued, posted, drills>>

\* Power is lost: entries whose directory was not synced may be gone, and state.json is
\* overwritten in place, so it may be torn.
powerLoss ==
  /\ mishaps < MaxMishaps /\ mishaps' = mishaps + 1
  /\ \E gone \in SUBSET {f \in Paths : copies[f] # Nil /\ f \notin synced} :
       copies' = [f \in Paths |-> IF f \in gone THEN Nil ELSE copies[f]]
  /\ \E whole \in BOOLEAN : store' = [store EXCEPT !.readable = @ /\ whole]
  /\ shells' = [p \in Shells |-> Ended]
  /\ UNCHANGED <<synced, sealed, issued, posted, drills>>

\* Into a fresh data directory, which then registers the token (setup); the old one is not used again.
restore(f) ==
  /\ \A p \in Shells : shells[p] = Ended
  /\ ~store.readable /\ copies[f] # Nil
  /\ store' = [initState EXCEPT !.commitment = copies[f], !.tokenAck = sealed[copies[f]].ack,
                                !.backupAck = sealed[copies[f]].ack]
  /\ UNCHANGED <<shells, copies, synced, sealed, issued, posted, drills, mishaps>>

EnrollNext ==
  \/ \E p \in Shells :
       \/ setup(p)
       \/ \E live \in BOOLEAN : startReads(p, live)
       \/ challenge(p) \/ startWrites(p)
       \/ backupReads(p)
       \/ \E outs \in OutPairs : sealBackup(p, outs)
       \/ linkFirst(p) \/ linkSecond(p) \/ syncDirectory(p) \/ recordBackup(p)
       \/ \E b \in -drills..issued, live \in BOOLEAN : submitReads(p, b, live)
       \/ submitAnswered(p)
       \/ fails(p)
  \/ powerLoss
  \/ \E f \in Paths : restore(f)

(* ------------------------------ properties ----------------------------- *)

\* The backup a request acknowledges is on disk in both copies, durably, and carries the token
\* acknowledgement of the very binding.  Code: cli.ts backup and enroll submit, writeBackupCopies.
EnrollmentSound ==
  \A r \in posted :
    LET b == sealed[r.commitment]
    IN OxideToken => /\ \A i \in 1..2 : copies[b.outs[i]] = r.commitment /\ b.outs[i] \in synced
                /\ b.ack = r.binding
=============================================================================
