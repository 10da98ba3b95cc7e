---------------------------- MODULE SenderProofs ----------------------------
(***************************************************************************)
(* The sender keeps OneSlot, FollowsLive and OneTransaction and implements *)
(* Payment, for every set of actions, every landBy, every market of fees   *)
(* and every bound, if no caller asks again for an action it was told of   *)
(* as landed (~Redelivered): without it FollowsLive, OneTransaction and    *)
(* ImplementsPayment do not hold.                                          *)
(*                                                                         *)
(* None of these is inductive.  SenderInv says what the code relies on:    *)
(* whatever a node could still mine of an action, and whatever the nonce   *)
(* record could send again of it, is one of the transactions of the slot   *)
(* its caller or the inDoubt map holds (Covered), and an action that took  *)
(* effect did so through that slot, or its caller knows (Effects).         *)
(***************************************************************************)
EXTENDS TxSender, WellFoundedInduction, TLAPS

Labels == {"idle", "guard", "rescue", "plan", "queued", "release", "send", "wait"}
Dead == {"not_sent", "reverted"}
Unsure == {"none", "in_doubt", "cancelled"}

SlotRecord == [nonce : 0..MaxNonce, txs : SUBSET Tx, latest : Tx, originalFee : Nat,
               passes : Nat, head : Int, missed : Int, cancel : Tx \cup {NoTx}, released : BOOLEAN]
Record == [nonce : 0..MaxNonce, tx : Tx, landBy : Nat, expired : BOOLEAN]
Mined == [tx : Tx, at : Nat, ok : BOOLEAN]

NodeTypeOK ==
    /\ time \in 0..MaxTime /\ mined \in Seq(Mined)
    /\ pool \in SUBSET Tx /\ wire \in SUBSET Tx /\ faults \in 0..MaxFaults

CallsTypeOK ==
    /\ queue \in Seq(Acts) /\ nonce \in 0..MaxNonce
    /\ lastNonce \in Record \cup {NoRecord}
    /\ slot \in [Acts -> SlotRecord \cup {NoSlot}]
    /\ inDoubt \in SUBSET Guarded /\ todo \in SUBSET Guarded /\ landed \in SUBSET Guarded
    /\ pc \in [Acts -> Labels] /\ told \in [Acts -> Unsure \cup Dead \cup Landed]

\* The caller waits for the receipt, or the inDoubt map holds the slot.
InFlight(a) == pc[a] = "wait" \/ a \in inDoubt

\* A slot's transactions perform one action at one nonce; its cancellation performs none.
GoodSlot(s, a) ==
    /\ s \in SlotRecord /\ s.latest \in s.txs
    /\ \A t \in s.txs : t.act = a /\ t.kind = "action" /\ t.nonce = s.nonce
    /\ s.cancel # NoTx => s.cancel.kind = "cancel"
SlotGood(a) == GoodSlot(slot[a], a)
Slots == \A a \in Acts : InFlight(a) => SlotGood(a)

\* The chain mines the key's nonces in order, in blocks that follow one another.
Chain ==
    /\ \A i \in DOMAIN mined : mined[i].tx.nonce = i - 1 /\ mined[i].at <= time
    /\ \A i, j \in DOMAIN mined : i <= j => mined[i].at <= mined[j].at

Cover(t) == t.kind = "action" /\ t.act \in Guarded /\ ~consumed(t.nonce)
                => InFlight(t.act) /\ t \in slot[t.act].txs
\* What a node holds, what may still reach one, and what the nonce record would send again.
outstanding == pool \cup wire \cup (IF lastNonce = NoRecord THEN {} ELSE {lastNonce.tx})
Covered == \A t \in outstanding : Cover(t)

Effects ==
    \A i \in DOMAIN mined : mined[i].ok =>
        /\ mined[i].tx.kind = "action"
        /\ mined[i].tx.act \in Guarded =>
             \/ told[mined[i].tx.act] \in Landed
             \/ InFlight(mined[i].tx.act) /\ mined[i].tx \in slot[mined[i].tx.act].txs

Called(a) ==
    /\ told[a] \in Landed => pc[a] = "idle" /\ a \notin inDoubt
    /\ pc[a] \in {"plan", "queued", "release", "send", "wait"} => a \notin inDoubt
    /\ pc[a] \in {"guard", "rescue"} => a \in inDoubt
    /\ InFlight(a) => told[a] \in Unsure
Calls == \A a \in Guarded : Called(a)

SenderInv ==
    NodeTypeOK /\ CallsTypeOK /\ Slots /\ Chain /\ Covered /\ Effects /\ Calls /\ OneTransaction
-----------------------------------------------------------------------------
(* What a step of the sender or its node means for one action while no     *)
(* block is mined: it stays in flight, goes into flight, or nothing of it  *)
(* is in flight and what its caller is told is so.                         *)
Move(a) ==
    \/ InFlight(a) /\ InFlight(a)' /\ slot[a].txs \subseteq slot'[a].txs
    \/ ~InFlight(a) /\ InFlight(a)' /\ told[a] \notin Landed
    \/ /\ ~InFlight(a)' /\ (InFlight(a) => consumed(slot[a].nonce))
       /\ \/ ~InFlight(a) /\ told'[a] = told[a]
          \/ ~InFlight(a) /\ told'[a] \in Unsure /\ told[a] \notin Landed
          \/ told'[a] \in Landed /\ effect(a, time)
          \/ told'[a] \in Dead /\ ~effect(a, time)

\* A mined transaction is one, in a block of some height.
LEMMA MinedTyped ==
    ASSUME NodeTypeOK, NEW i \in DOMAIN mined
    PROVE  mined[i].tx \in Tx /\ mined[i].at \in Nat /\ mined[i].ok \in BOOLEAN
<1>1. \A m \in Mined : m.tx \in Tx /\ m.at \in Nat /\ m.ok \in BOOLEAN
  BY DEF Mined
<1>2. mined[i] \in Mined
  BY DEF NodeTypeOK
<1> QED BY <1>1, <1>2

\* Nothing of an action may be mined while it is not in flight, or once its slot's nonce is used.
LEMMA NothingLive ==
    ASSUME SenderInv, NEW a \in Guarded, InFlight(a) => consumed(slot[a].nonce)
    PROVE  live(a) = {}
<1> SUFFICES ASSUME NEW t \in live(a) PROVE FALSE
  OBVIOUS
<1>1. t \in pool \cup wire /\ t.act = a /\ t.kind = "action" /\ ~consumed(t.nonce)
  BY DEF live
<1>2. InFlight(a) /\ t \in slot[a].txs
  BY <1>1 DEF SenderInv, Covered, Cover, outstanding
<1>3. t.nonce = slot[a].nonce
  BY <1>2 DEF SenderInv, Slots, SlotGood, GoodSlot, Acts
<1> QED BY <1>1, <1>2, <1>3

\* In flight, an effect is the one of the slot's nonce.
LEMMA EffectConsumes ==
    ASSUME SenderInv, NEW a \in Guarded, InFlight(a), NEW i \in DOMAIN mined,
           mined[i].ok, mined[i].tx.act = a
    PROVE  mined[i].tx \in slot[a].txs /\ i = slot[a].nonce + 1 /\ consumed(slot[a].nonce)
<1>1. told[a] \notin Landed
  BY DEF SenderInv, Calls, Called, Unsure, Landed
<1>2. mined[i].tx \in slot[a].txs
  BY <1>1 DEF SenderInv, Effects
<1>3. mined[i].tx.nonce = slot[a].nonce /\ slot[a].nonce \in 0..MaxNonce
  BY <1>2 DEF SenderInv, Slots, SlotGood, GoodSlot, SlotRecord, Acts
<1>4. i \in 1..Len(mined) /\ mined[i].tx.nonce = i - 1
  BY DEF SenderInv, Chain, NodeTypeOK
<1> QED BY <1>2, <1>3, <1>4, SenderAssumption DEF consumed

\* A receipt of one of the slot's transactions settles the action.
LEMMA ReceiptSettles ==
    ASSUME SenderInv, NEW a \in Guarded, InFlight(a),
           NEW receipt \in receiptReads(slot[a].txs), found(receipt)
    PROVE  /\ consumed(slot[a].nonce) /\ receipt.ok \in BOOLEAN
           /\ receipt.ok <=> effect(a, time)
<1>1. PICK i \in DOMAIN mined : /\ mined[i].tx \in slot[a].txs
                                /\ receipt.ok = mined[i].ok /\ receipt.tx = mined[i].tx
  BY DEF receiptReads, found
<1>2. mined[i].tx.nonce = slot[a].nonce /\ mined[i].tx.act = a /\ slot[a].nonce \in 0..MaxNonce
  BY <1>1 DEF SenderInv, Slots, SlotGood, GoodSlot, SlotRecord, Acts
<1>3. i \in 1..Len(mined) /\ mined[i].tx.nonce = i - 1 /\ mined[i].at <= time /\ mined[i].ok \in BOOLEAN
  BY MinedTyped DEF SenderInv, Chain, NodeTypeOK
<1>4. consumed(slot[a].nonce) /\ i = slot[a].nonce + 1
  BY <1>2, <1>3, SenderAssumption DEF consumed
<1>5. receipt.ok => effect(a, time)
  BY <1>1, <1>2, <1>3 DEF effect
<1>6. ASSUME effect(a, time) PROVE receipt.ok
  <2>1. PICK j \in DOMAIN mined : mined[j].tx.act = a /\ mined[j].ok
    BY <1>6 DEF effect
  <2>2. j = i
    BY <2>1, <1>4, EffectConsumes
  <2> QED BY <2>1, <2>2, <1>1
<1> QED BY <1>1, <1>3, <1>4, <1>5, <1>6

\* What resolveSlot answers of a slot in doubt is so: whatever it does not settle stays in doubt.
LEMMA ResolveIsSo ==
    ASSUME SenderInv, NEW a \in Guarded, InFlight(a), NEW b \in 0..time,
           NEW first \in receiptReads(slot[a].txs), NEW again \in receiptReads(slot[a].txs),
           NEW resolved, resolved = resolveSlot(a, b, first, again)
    PROVE  /\ resolved = "confirmed" => effect(a, time)
           /\ resolved \in Dead => ~effect(a, time)
           /\ resolved # "in_doubt" => consumed(slot[a].nonce)
<1>1. CASE found(first)
  BY <1>1, ReceiptSettles DEF resolveSlot, landedAs, Dead
<1>2. CASE ~found(first) /\ (~usedAt(slot[a].nonce, b) \/ effect(a, b))
  BY <1>2 DEF resolveSlot, Dead
<1>3. CASE ~found(first) /\ usedAt(slot[a].nonce, b) /\ ~effect(a, b)
  <2>1. consumed(slot[a].nonce) /\ mined[slot[a].nonce + 1].at <= b
    BY <1>3 DEF usedAt
  <2>2. ASSUME effect(a, time) PROVE FALSE
    <3>1. PICK i \in DOMAIN mined : mined[i].tx.act = a /\ mined[i].ok
      BY <2>2 DEF effect
    <3>2. i = slot[a].nonce + 1
      BY <3>1, EffectConsumes
    <3> QED BY <1>3, <2>1, <3>1, <3>2 DEF effect
  <2>3. CASE found(again)
    BY <1>3, <2>3, ReceiptSettles DEF resolveSlot, landedAs, Dead
  <2>4. CASE ~found(again)
    BY <1>3, <2>1, <2>2, <2>4 DEF resolveSlot, Dead
  <2> QED BY <2>3, <2>4
<1> QED BY <1>1, <1>2, <1>3

\* What a broadcast may leave with a node: what was there, and the transaction.
LEMMA BroadcastLeaves ==
    ASSUME NodeTypeOK, NEW tx \in Tx, NEW answer, broadcast(tx, answer)
    PROVE  /\ UNCHANGED <<time, mined>> /\ NodeTypeOK'
           /\ pool' \subseteq pool \cup {tx} /\ wire' \subseteq wire \cup {tx}
           /\ definitelyRejected(answer) => UNCHANGED <<pool, wire>>
<1>1. UNCHANGED <<time, mined>> /\ (definitelyRejected(answer) => UNCHANGED <<pool, wire>>)
  BY DEF broadcast, node, definitelyRejected
<1>2. pool' \subseteq pool \cup {tx} /\ wire' \subseteq wire \cup {tx}
  BY DEF broadcast, node
<1>3. faults' = faults \/ (faults < MaxFaults /\ faults' = faults + 1)
  BY DEF broadcast, node
<1>4. faults' \in 0..MaxFaults
  BY <1>3, SenderAssumption DEF NodeTypeOK
<1> QED BY <1>1, <1>2, <1>4 DEF NodeTypeOK

\* Recording a broadcast records that transaction or leaves the record.
LEMMA RecordLeaves ==
    ASSUME CallsTypeOK, NEW tx \in Tx, NEW by \in Nat, lastNonce' = recordBroadcast(lastNonce, tx, by)
    PROVE  /\ lastNonce' \in Record \cup {NoRecord}
           /\ lastNonce' = lastNonce \/ lastNonce'.tx = tx
<1>1. tx.nonce \in 0..MaxNonce
  BY DEF Tx
<1>2. lastNonce # NoRecord => lastNonce.expired \in BOOLEAN
  BY DEF CallsTypeOK, Record
<1>3. CASE lastNonce # NoRecord /\ lastNonce.nonce > tx.nonce
  BY <1>3 DEF CallsTypeOK, recordBroadcast
<1>4. CASE ~(lastNonce # NoRecord /\ lastNonce.nonce > tx.nonce)
  <2> DEFINE e == lastNonce # NoRecord /\ lastNonce.expired
  <2>1. e \in BOOLEAN
    BY <1>2
  <2>2. lastNonce' = [nonce |-> tx.nonce, tx |-> tx, landBy |-> by, expired |-> e]
    BY <1>4 DEF recordBroadcast
  <2> HIDE DEF e
  <2> QED BY <1>1, <2>1, <2>2 DEF Record
<1> QED BY <1>3, <1>4

\* While no block is mined, a step keeps the invariant if it keeps the types, leaves every slot good,
\* sends nothing but transactions of a slot, and moves every action as it may.
LEMMA MovesKeep ==
    ASSUME SenderInv, UNCHANGED <<time, mined>>, NodeTypeOK', CallsTypeOK', Slots', Calls',
           \A t \in outstanding' : t \in outstanding \/ Cover(t)',
           \A a \in Guarded : Move(a)
    PROVE  SenderInv'
<1>1. \A t : Cover(t) => Cover(t)'
  <2> SUFFICES ASSUME NEW t, Cover(t), t.kind = "action", t.act \in Guarded, ~consumed(t.nonce)
               PROVE  InFlight(t.act)' /\ t \in slot'[t.act].txs
    BY DEF Cover, consumed
  <2>1. InFlight(t.act) /\ t \in slot[t.act].txs
    BY DEF Cover
  <2>2. t.nonce = slot[t.act].nonce
    BY <2>1 DEF SenderInv, Slots, SlotGood, GoodSlot, Acts
  <2>3. Move(t.act)
    OBVIOUS
  <2> QED BY <2>1, <2>2, <2>3 DEF Move
<1>2. Covered'
  BY <1>1 DEF SenderInv, Covered
<1>3. Effects'
  <2> SUFFICES ASSUME NEW i \in DOMAIN mined, mined[i].ok, NEW a \in Guarded, mined[i].tx.act = a
               PROVE  told'[a] \in Landed \/ (InFlight(a)' /\ mined[i].tx \in slot'[a].txs)
    BY DEF SenderInv, Effects
  <2>1. mined[i].at <= time
    BY DEF SenderInv, Chain
  <2>2. effect(a, time)
    BY <2>1 DEF effect
  <2>3. told[a] \in Landed \/ (InFlight(a) /\ mined[i].tx \in slot[a].txs)
    BY DEF SenderInv, Effects
  <2>4. InFlight(a) => told[a] \in Unsure
    BY DEF SenderInv, Calls, Called
  <2>5. Unsure \cap Landed = {}
    BY DEF Unsure, Landed
  <2>6. Move(a)
    OBVIOUS
  <2> QED BY <2>2, <2>3, <2>4, <2>5, <2>6 DEF Move
<1>4. Chain' /\ OneTransaction'
  BY DEF SenderInv, Chain, OneTransaction
<1> QED BY <1>2, <1>3, <1>4 DEF SenderInv

\* One call acts; the others stay where they are, their slots good and no smaller.
LEMMA OneActs ==
    ASSUME SenderInv, NEW a \in Acts, UNCHANGED <<time, mined>>, NodeTypeOK', CallsTypeOK',
           \A b \in Acts \ {a} :
               /\ pc'[b] = pc[b] /\ told'[b] = told[b] /\ (b \in inDoubt' <=> b \in inDoubt)
               /\ InFlight(b) => GoodSlot(slot'[b], b) /\ slot[b].txs \subseteq slot'[b].txs,
           a \in Guarded => Called(a)' /\ Move(a),
           InFlight(a)' => GoodSlot(slot'[a], a),
           \A t \in outstanding' : t \in outstanding \/ Cover(t)'
    PROVE  SenderInv' /\ \A b \in Guarded : Move(b)
<1>1. Slots'
  BY DEF Slots, SlotGood, InFlight
<1>2. Calls'
  BY DEF SenderInv, Calls, Called, InFlight, Acts
<1>3. ASSUME NEW b \in Guarded \ {a} PROVE Move(b)
  <2>1. b \in Acts \ {a} /\ InFlight(b)' = InFlight(b)
    BY DEF Acts, InFlight
  <2>2. CASE InFlight(b)
    BY <2>1, <2>2 DEF Move
  <2>3. CASE ~InFlight(b)
    BY <2>1, <2>3 DEF Move
  <2> QED BY <2>2, <2>3
<1>4. \A b \in Guarded : Move(b)
  BY <1>3
<1> QED BY <1>1, <1>2, <1>4, MovesKeep
-----------------------------------------------------------------------------
(* What each way of sending leaves.                                        *)

\* A bumped fee is a fee.
LEMMA BumpIsNat == ASSUME NEW paid \in Nat, NEW floor \in Nat PROVE bumpFee(paid, floor) \in Nat
<1>1. (paid * 9 + 7) \div 8 \in Nat
  OBVIOUS
<1> QED BY <1>1 DEF bumpFee, max

\* Only a's slot is touched, and what is sent is a cancellation or one of its transactions.
Sends(a) ==
    /\ UNCHANGED <<time, mined>> /\ NodeTypeOK'
    /\ lastNonce' \in Record \cup {NoRecord}
    /\ slot' \in [Acts -> SlotRecord \cup {NoSlot}]
    /\ GoodSlot(slot'[a], a) /\ \A b \in Acts \ {a} : slot'[b] = slot[b]
    /\ \A t \in outstanding' : t \in outstanding \/ t.kind = "cancel" \/ t \in slot'[a].txs
Resends(a) == Sends(a) /\ slot[a].txs \subseteq slot'[a].txs

\* A broadcast and its record leave nothing outstanding but what was and the transaction.
LEMMA SentOutstanding ==
    ASSUME NodeTypeOK, CallsTypeOK, NEW tx \in Tx, NEW answer, NEW by \in Nat, broadcast(tx, answer),
           lastNonce' = lastNonce \/ lastNonce' = recordBroadcast(lastNonce, tx, by)
    PROVE  /\ lastNonce' \in Record \cup {NoRecord}
           /\ \A t \in outstanding' : t \in outstanding \/ t = tx
<1>1. lastNonce' \in Record \cup {NoRecord} /\ (lastNonce' = lastNonce \/ lastNonce'.tx = tx)
  BY RecordLeaves DEF CallsTypeOK
<1>2. pool' \subseteq pool \cup {tx} /\ wire' \subseteq wire \cup {tx}
  BY BroadcastLeaves
<1> QED BY <1>1, <1>2 DEF outstanding

\* What an action must land by is a time.
LEMMA LandByIsNat == ASSUME NEW a \in Acts PROVE landBy(a) \in Nat /\ Never \in Nat
  BY SenderAssumption DEF landBy, Never, Acts

\* A rebroadcast sends the latest signing of the slot again.
LEMMA RebroadcastSends ==
    ASSUME SenderInv, NEW a \in Acts, NEW s, slot' = [slot EXCEPT ![a] = s],
           GoodSlot(slot[a], a), GoodSlot(s, a), s.txs = slot[a].txs, rebroadcast(a)
    PROVE  Resends(a)
<1> DEFINE tx == slot[a].latest
<1>1. tx \in Tx /\ tx \in slot[a].txs
  BY DEF GoodSlot, SlotRecord
<1>2. PICK answer \in Answers : broadcast(tx, answer) /\ recordIf(answer, tx, landBy(a))
  BY DEF rebroadcast
<1>3. lastNonce' = lastNonce \/ lastNonce' = recordBroadcast(lastNonce, tx, landBy(a))
  BY <1>2 DEF recordIf
<1> HIDE DEF tx
<1>4. UNCHANGED <<time, mined>> /\ NodeTypeOK'
  BY <1>1, <1>2, BroadcastLeaves DEF SenderInv
<1>5. lastNonce' \in Record \cup {NoRecord} /\ \A t \in outstanding' : t \in outstanding \/ t = tx
  BY <1>1, <1>2, <1>3, SentOutstanding, LandByIsNat DEF SenderInv
<1>6. slot'[a] = s /\ \A b \in Acts \ {a} : slot'[b] = slot[b]
  BY DEF SenderInv, CallsTypeOK
<1>7. slot' \in [Acts -> SlotRecord \cup {NoSlot}]
  BY DEF SenderInv, CallsTypeOK, GoodSlot
<1> QED BY <1>1, <1>4, <1>5, <1>6, <1>7 DEF Resends, Sends

\* A replacement takes the nonce of the slot.
LEMMA ReplaceSends ==
    ASSUME SenderInv, NEW a \in Acts, NEW s, NEW m \in Market, NEW answer,
           GoodSlot(s, a), s.txs = slot[a].txs, replaceAtSameNonce(a, m, answer, s)
    PROVE  Resends(a)
<1> DEFINE tx == replacement(s, m)
           r == [s EXCEPT !.latest = tx, !.txs = s.txs \cup {tx}, !.passes = 0, !.missed = 0]
<1>1. s.latest \in Tx /\ s.latest.act = a /\ s.latest.kind = "action" /\ s.latest.nonce = s.nonce
  BY DEF GoodSlot, SlotRecord
<1>2. bumpFee(s.latest.fee, m) \in Nat
  BY <1>1, BumpIsNat, SenderAssumption DEF Tx
<1>3. tx \in Tx /\ tx.act = a /\ tx.kind = "action" /\ tx.nonce = s.nonce
  BY <1>1, <1>2 DEF replacement, Tx
<1>4. broadcast(tx, answer) /\ recordIf(answer, tx, landBy(a)) /\ slot' = [slot EXCEPT ![a] = r]
  BY DEF replaceAtSameNonce
<1>5. lastNonce' = lastNonce \/ lastNonce' = recordBroadcast(lastNonce, tx, landBy(a))
  BY <1>4 DEF recordIf
<1> HIDE DEF tx
<1>6. GoodSlot(r, a) /\ r.txs = slot[a].txs \cup {tx}
  <2>1. /\ r \in SlotRecord /\ r.txs = s.txs \cup {tx} /\ r.latest = tx /\ r.nonce = s.nonce
        /\ r.cancel = s.cancel
    <3>1. s \in SlotRecord
      BY DEF GoodSlot
    <3> DEFINE all == s.txs \cup {tx}
    <3>2. all \in SUBSET Tx
      BY <1>3, <3>1 DEF SlotRecord
    <3>3. r = [s EXCEPT !.latest = tx, !.txs = all, !.passes = 0, !.missed = 0]
      OBVIOUS
    <3> HIDE DEF r, all
    <3>4. r = [nonce |-> s.nonce, txs |-> all, latest |-> tx, originalFee |-> s.originalFee,
               passes |-> 0, head |-> s.head, missed |-> 0, cancel |-> s.cancel, released |-> s.released]
      BY <3>1, <3>3 DEF SlotRecord
    <3>5. /\ s.nonce \in 0..MaxNonce /\ s.originalFee \in Nat /\ s.head \in Int
          /\ s.cancel \in Tx \cup {NoTx} /\ s.released \in BOOLEAN
      BY <3>1 DEF SlotRecord
    <3>6. r \in SlotRecord /\ r.txs = all /\ r.latest = tx /\ r.nonce = s.nonce /\ r.cancel = s.cancel
      BY <1>3, <3>2, <3>4, <3>5 DEF SlotRecord
    <3> QED BY <3>6 DEF all
  <2> HIDE DEF r
  <2> QED BY <1>3, <2>1 DEF GoodSlot
<1> HIDE DEF r
<1>7. UNCHANGED <<time, mined>> /\ NodeTypeOK'
  BY <1>3, <1>4, BroadcastLeaves DEF SenderInv
<1>8. lastNonce' \in Record \cup {NoRecord} /\ \A t \in outstanding' : t \in outstanding \/ t = tx
  BY <1>3, <1>4, <1>5, SentOutstanding, LandByIsNat DEF SenderInv
<1>9. slot'[a] = r /\ \A b \in Acts \ {a} : slot'[b] = slot[b]
  BY <1>4 DEF SenderInv, CallsTypeOK
<1>10. slot' \in [Acts -> SlotRecord \cup {NoSlot}]
  BY <1>4, <1>6 DEF SenderInv, CallsTypeOK, GoodSlot
<1> QED BY <1>6, <1>7, <1>8, <1>9, <1>10 DEF Resends, Sends

\* A release of a slot sends a cancel at its nonce.
LEMMA ReleaseSends ==
    ASSUME SenderInv, NEW a \in Acts, NEW out \in BOOLEAN, GoodSlot(slot[a], a), releaseSlot(a, out)
    PROVE  Resends(a)
<1> DEFINE s == slot[a]
<1>1. PICK m \in Market, answer \in Answers :
        LET tx == IF s.cancel = NoTx THEN cancelTx(s, m) ELSE s.cancel
        IN /\ broadcast(tx, answer)
           /\ \/ slot' = [slot EXCEPT ![a].cancel = tx, ![a].released = TRUE] /\ UNCHANGED lastNonce
              \/ slot' = [slot EXCEPT ![a].cancel = NoTx] /\ UNCHANGED lastNonce
              \/ /\ slot' = [slot EXCEPT ![a].cancel = tx]
                 /\ lastNonce' = IF out THEN recordBroadcast(lastNonce, tx, Never) ELSE lastNonce
  BY DEF releaseSlot
<1> DEFINE tx == IF s.cancel = NoTx THEN cancelTx(s, m) ELSE s.cancel
<1>2. s \in SlotRecord /\ s.latest \in Tx /\ s.latest.act = a /\ s.nonce \in 0..MaxNonce
  BY DEF GoodSlot, SlotRecord
<1>3. cancelTx(s, m) \in Tx /\ cancelTx(s, m).kind = "cancel"
  <2>1. bumpFee(s.latest.fee, m) \in Nat
    BY <1>2, BumpIsNat, SenderAssumption DEF Tx
  <2> QED BY <1>2, <2>1 DEF cancelTx, Tx
<1>4. tx \in Tx /\ tx.kind = "cancel"
  BY <1>3 DEF GoodSlot, SlotRecord
<1>5. broadcast(tx, answer)
  BY <1>1
<1>6. lastNonce' = lastNonce \/ lastNonce' = recordBroadcast(lastNonce, tx, Never)
  BY <1>1
<1>7. PICK c \in {NoTx, tx}, r \in {s.released, TRUE} :
        slot' = [slot EXCEPT ![a] = [s EXCEPT !.cancel = c, !.released = r]]
  <2>1. CASE slot' = [slot EXCEPT ![a].cancel = tx, ![a].released = TRUE]
    BY <2>1
  <2>2. s = [s EXCEPT !.released = s.released]
    BY <1>2 DEF SlotRecord
  <2>3. CASE slot' = [slot EXCEPT ![a].cancel = NoTx]
    <3>1. [s EXCEPT !.cancel = NoTx] = [s EXCEPT !.cancel = NoTx, !.released = s.released]
      BY <1>2 DEF SlotRecord
    <3> QED BY <2>3, <3>1
  <2>4. CASE slot' = [slot EXCEPT ![a].cancel = tx]
    <3>1. [s EXCEPT !.cancel = tx] = [s EXCEPT !.cancel = tx, !.released = s.released]
      BY <1>2 DEF SlotRecord
    <3> QED BY <2>4, <3>1
  <2> QED BY <1>1, <2>1, <2>3, <2>4
<1> HIDE DEF tx
<1> DEFINE n == [s EXCEPT !.cancel = c, !.released = r]
<1>8. GoodSlot(n, a) /\ n.txs = slot[a].txs
  <2>1. n \in SlotRecord /\ n.txs = s.txs /\ n.latest = s.latest /\ n.nonce = s.nonce /\ n.cancel = c
    BY <1>2, <1>4 DEF SlotRecord
  <2> HIDE DEF n
  <2> QED BY <1>4, <2>1 DEF GoodSlot
<1>9. slot' = [slot EXCEPT ![a] = n]
  BY <1>7
<1> HIDE DEF n
<1>10. UNCHANGED <<time, mined>> /\ NodeTypeOK'
  BY <1>4, <1>5, BroadcastLeaves DEF SenderInv
<1>11. lastNonce' \in Record \cup {NoRecord} /\ \A t \in outstanding' : t \in outstanding \/ t = tx
  BY <1>4, <1>5, <1>6, SentOutstanding, LandByIsNat DEF SenderInv
<1>12. slot'[a] = n /\ \A b \in Acts \ {a} : slot'[b] = slot[b]
  BY <1>9 DEF SenderInv, CallsTypeOK
<1>13. slot' \in [Acts -> SlotRecord \cup {NoSlot}]
  BY <1>8, <1>9 DEF SenderInv, CallsTypeOK, GoodSlot
<1> QED BY <1>4, <1>8, <1>10, <1>11, <1>12, <1>13 DEF Resends, Sends

\* The pending count is defined: the first nonce not held, or one past the last.
LEMMA PendingCountIsNat == pendingCount \in Nat /\ pendingReads \subseteq Nat
<1> DEFINE N == {n \in 0..(MaxNonce + 1) : n = MaxNonce + 1 \/ ~held(n)}
<1>1. N \subseteq Nat /\ N # {}
  BY SenderAssumption
<1>2. PICK n \in N : \A k \in N : ~(<<k, n>> \in OpToRel(<, Nat))
  BY <1>1, NatLessThanWellFounded, WFMin
<1>3. \A k \in N : ~(k < n)
  BY <1>1, <1>2 DEF OpToRel
<1>4. \A k \in 0..(n - 1) : held(k)
  BY <1>3, SenderAssumption
<1>5. n \in 0..(MaxNonce + 1) /\ (n = MaxNonce + 1 \/ ~held(n))
  OBVIOUS
<1> DEFINE S == 0..(MaxNonce + 1)
           First(x) == /\ \A k \in 0..(x - 1) : held(k)
                       /\ x = MaxNonce + 1 \/ ~held(x)
<1>6. n \in S
  BY <1>5
<1>7. First(n)
  BY <1>4, <1>5
<1>8. pendingCount = CHOOSE x \in S : First(x)
  BY DEF pendingCount
<1> HIDE DEF First, S
<1>9. pendingCount \in S
  BY <1>6, <1>7, <1>8
<1> QED BY <1>9, SenderAssumption DEF pendingReads, S
-----------------------------------------------------------------------------
(* The actions.                                                            *)

Fine == UNCHANGED <<time, mined>> /\ SenderInv' /\ \A b \in Guarded : Move(b)

\* An action is called for.
LEMMA CallFine == ASSUME SenderInv, ~Redelivered, NEW a \in Acts, Call(a) PROVE Fine
<1>1. UNCHANGED <<time, mined, pool, wire, faults, queue, lastNonce, slot, inDoubt, nonce, todo, landed>>
  BY DEF Call, node
<1>2. pc[a] = "idle" /\ told[a] \notin Landed
  BY DEF Call
<1>3. PICK l \in {"guard", "plan"} : pc' = [pc EXCEPT ![a] = l] /\ (l = "guard" <=> a \in inDoubt)
  BY DEF Call, goto
<1>4. told' = [told EXCEPT ![a] = "none"]
  BY DEF Call, tell
<1>5. CallsTypeOK' /\ NodeTypeOK'
  BY <1>1, <1>3, <1>4 DEF SenderInv, NodeTypeOK, CallsTypeOK, Labels, Unsure
<1>6. pc'[a] = l /\ told'[a] = "none" /\ \A b \in Acts \ {a} : pc'[b] = pc[b] /\ told'[b] = told[b]
  BY <1>3, <1>4 DEF SenderInv, CallsTypeOK
<1>7. InFlight(a)' <=> InFlight(a)
  BY <1>1, <1>2, <1>3, <1>6 DEF InFlight
<1>8. a \in Guarded => Called(a)'
  BY <1>1, <1>3, <1>6 DEF Called, Landed, Unsure
<1>9. a \in Guarded => Move(a)
  BY <1>1, <1>2, <1>6, <1>7 DEF Move, Unsure
<1>10. outstanding' = outstanding
  BY <1>1 DEF outstanding
<1>11. InFlight(a)' => GoodSlot(slot'[a], a)
  BY <1>1, <1>7 DEF SenderInv, Slots, SlotGood
<1>12. \A b \in Acts : InFlight(b) => GoodSlot(slot'[b], b)
  BY <1>1 DEF SenderInv, Slots, SlotGood
<1> QED BY <1>1, <1>5, <1>6, <1>8, <1>9, <1>10, <1>11, <1>12, OneActs DEF Fine

\* A step that sends nothing, keeps a's slot, and leaves a where it is not in flight, or in flight
\* as before.
LEMMA SendsNothing ==
    ASSUME SenderInv, NEW a \in Acts, NodeTypeOK', CallsTypeOK', UNCHANGED <<time, mined, slot>>,
           outstanding' \subseteq outstanding,
           \A b \in Acts \ {a} : /\ pc'[b] = pc[b] /\ told'[b] = told[b]
                                 /\ (b \in inDoubt' <=> b \in inDoubt),
           InFlight(a)' <=> InFlight(a),
           a \in Guarded => Called(a)',
           a \in Guarded /\ ~InFlight(a) =>
              \/ told'[a] = told[a]
              \/ told'[a] \in Unsure /\ told[a] \notin Landed
              \/ told'[a] \in Landed /\ effect(a, time)
    PROVE  Fine
<1>1. a \in Guarded => Called(a)' /\ Move(a)
  BY DEF Move
<1>2. \A b \in Acts \ {a} :
         /\ pc'[b] = pc[b] /\ told'[b] = told[b] /\ (b \in inDoubt' <=> b \in inDoubt)
         /\ InFlight(b) => GoodSlot(slot'[b], b) /\ slot[b].txs \subseteq slot'[b].txs
  BY DEF SenderInv, Slots, SlotGood
<1>3. InFlight(a)' => GoodSlot(slot'[a], a)
  BY DEF SenderInv, Slots, SlotGood
<1>4. \A t \in outstanding' : t \in outstanding \/ Cover(t)'
  OBVIOUS
<1>5. SenderInv' /\ \A b \in Guarded : Move(b)
  BY <1>1, <1>2, <1>3, <1>4, OneActs
<1> QED BY <1>5 DEF Fine

\* A step that moves only where actions stand is fine when what it tells is so.
LEMMA OnlyControl ==
    ASSUME SenderInv, NEW a \in Acts, NodeTypeOK', CallsTypeOK',
           UNCHANGED <<time, mined, pool, wire, slot, inDoubt>>,
           \/ lastNonce' = NoRecord \/ lastNonce' = lastNonce
           \/ lastNonce # NoRecord /\ lastNonce'.tx = lastNonce.tx,
           \A b \in Acts \ {a} : pc'[b] = pc[b] /\ told'[b] = told[b],
           InFlight(a)' <=> InFlight(a),
           a \in Guarded => Called(a)',
           a \in Guarded /\ ~InFlight(a) =>
              \/ told'[a] = told[a]
              \/ told'[a] \in Unsure /\ told[a] \notin Landed
              \/ told'[a] \in Landed /\ effect(a, time)
    PROVE  Fine
<1>1. outstanding' \subseteq outstanding
  BY DEF outstanding
<1>2. \A b \in Acts \ {a} : /\ pc'[b] = pc[b] /\ told'[b] = told[b]
                            /\ (b \in inDoubt' <=> b \in inDoubt)
  OBVIOUS
<1> QED BY <1>1, <1>2, SendsNothing

\* An action plans its transaction.
LEMMA PlanFine == ASSUME SenderInv, NEW a \in Acts, Plan(a) PROVE Fine
<1>1. UNCHANGED <<time, mined, pool, wire, faults, lastNonce, slot, inDoubt, nonce, todo, landed>>
      /\ pc[a] = "plan"
  BY DEF Plan, node
<1> DEFINE done == effect(a, time)
<1>0. \/ /\ time >= landBy(a) \/ done
         /\ pc' = [pc EXCEPT ![a] = "idle"] /\ queue' = queue
         /\ \/ time < landBy(a) /\ told' = [told EXCEPT ![a] = "already"]
            \/ ~(time < landBy(a)) /\ told' = told
      \/ pc' = [pc EXCEPT ![a] = "queued"] /\ queue' = Append(queue, a) /\ told' = told
  BY Zenon DEF Plan, goto, tell
<1>2. PICK l \in {"idle", "queued"} : pc' = [pc EXCEPT ![a] = l] /\ (l = "queued" => told' = told)
  BY <1>0
<1>3. told' = told \/ (told' = [told EXCEPT ![a] = "already"] /\ effect(a, time))
  <2>1. time \in Nat /\ landBy(a) \in Nat
    BY LandByIsNat, SenderAssumption DEF SenderInv, NodeTypeOK
  <2> QED BY <1>0, <2>1
<1>4. queue' \in Seq(Acts)
  BY <1>0 DEF SenderInv, CallsTypeOK
<1>5. CallsTypeOK' /\ NodeTypeOK'
  BY <1>1, <1>2, <1>3, <1>4 DEF SenderInv, NodeTypeOK, CallsTypeOK, Labels, Landed
<1>6. /\ pc'[a] = l /\ \A b \in Acts \ {a} : pc'[b] = pc[b] /\ told'[b] = told[b]
      /\ told'[a] = told[a] \/ (told'[a] = "already" /\ effect(a, time) /\ l = "idle")
  BY <1>2, <1>3 DEF SenderInv, CallsTypeOK
<1>7. a \in Guarded => a \notin inDoubt /\ told[a] \notin Landed
  BY <1>1 DEF SenderInv, Calls, Called
<1>8. InFlight(a)' <=> InFlight(a)
  BY <1>1, <1>6 DEF InFlight
<1>9. a \in Guarded => Called(a)'
  BY <1>1, <1>6, <1>7 DEF Called, InFlight, Landed
<1> QED BY <1>1, <1>5, <1>6, <1>8, <1>9, OnlyControl DEF Landed

\* A send starts.
LEMMA SendStartsFine == ASSUME SenderInv, NEW a \in Acts, SendStarts(a) PROVE Fine
<1>1. UNCHANGED <<time, mined, pool, wire, faults, lastNonce, slot, inDoubt, nonce, landed, told>>
      /\ pc[a] = "queued"
  BY DEF SendStarts, node
<1>2. PICK l \in {"idle", "release"} : pc' = [pc EXCEPT ![a] = l]
  BY DEF SendStarts, goto
<1>3. queue' \in Seq(Acts)
  BY DEF SendStarts, goto, atHead, SenderInv, CallsTypeOK
<1>4. todo' = todo \/ todo' \subseteq inDoubt
  BY DEF SendStarts
<1>5. CallsTypeOK' /\ NodeTypeOK'
  BY <1>1, <1>2, <1>3, <1>4 DEF SenderInv, NodeTypeOK, CallsTypeOK, Labels
<1>6. pc'[a] = l /\ \A b \in Acts \ {a} : pc'[b] = pc[b]
  BY <1>2 DEF SenderInv, CallsTypeOK
<1>7. a \in Guarded => a \notin inDoubt /\ told[a] \notin Landed
  BY <1>1 DEF SenderInv, Calls, Called
<1>8. InFlight(a)' <=> InFlight(a)
  BY <1>1, <1>6 DEF InFlight
<1>9. a \in Guarded => Called(a)'
  BY <1>1, <1>6, <1>7 DEF Called, InFlight
<1> QED BY <1>1, <1>5, <1>6, <1>8, <1>9, OnlyControl

\* The record of the last nonce expires.
LEMMA RecordExpiresFine == ASSUME SenderInv, NEW a \in Acts, RecordExpires PROVE Fine
<1>1. UNCHANGED <<time, mined, pool, wire, faults, queue, slot, inDoubt, pc, nonce, todo, landed, told>>
  BY DEF RecordExpires, node
<1>2. lastNonce \in Record /\ lastNonce # NoRecord
  BY DEF RecordExpires, SenderInv, CallsTypeOK
<1>3. lastNonce' \in Record /\ lastNonce'.tx = lastNonce.tx
  BY <1>2 DEF RecordExpires, Record
<1>4. CallsTypeOK' /\ NodeTypeOK'
  BY <1>1, <1>3 DEF SenderInv, NodeTypeOK, CallsTypeOK
<1>5. InFlight(a)' <=> InFlight(a)
  BY <1>1 DEF InFlight
<1>6. a \in Guarded => Called(a)'
  BY <1>1, <1>5 DEF SenderInv, Calls, Called
<1> QED BY <1>1, <1>2, <1>3, <1>4, <1>5, <1>6, OnlyControl

\* A slot is settled and dropped, and the caller is told so.
LEMMA SettleFine ==
    ASSUME SenderInv, NEW a \in Acts, InFlight(a), UNCHANGED node,
           UNCHANGED <<queue, lastNonce, nonce, todo>>, landed' \in SUBSET Guarded,
           slot' = [slot EXCEPT ![a] = NoSlot], inDoubt' = inDoubt \ {a},
           NEW l \in {"idle", "plan"}, pc' = [pc EXCEPT ![a] = l],
           NEW x \in Landed \cup Dead, told' = [told EXCEPT ![a] = x], l = "plan" => x \in Dead,
           a \in Guarded => /\ consumed(slot[a].nonce)
                            /\ x \in Landed => effect(a, time)
                            /\ x \in Dead => ~effect(a, time)
    PROVE  Fine
<1>1. UNCHANGED <<time, mined, pool, wire, faults>>
  BY DEF node
<1>2. CallsTypeOK' /\ NodeTypeOK'
  BY <1>1 DEF SenderInv, NodeTypeOK, CallsTypeOK, Labels
<1>3. /\ pc'[a] = l /\ told'[a] = x /\ a \notin inDoubt'
      /\ \A b \in Acts \ {a} : /\ pc'[b] = pc[b] /\ told'[b] = told[b] /\ slot'[b] = slot[b]
                               /\ (b \in inDoubt' <=> b \in inDoubt)
  BY DEF SenderInv, CallsTypeOK
<1>4. ~InFlight(a)'
  BY <1>3 DEF InFlight
<1>5. Landed \cap Dead = {} /\ Landed \cap Unsure = {}
  BY DEF Landed, Dead, Unsure
<1>6. a \in Guarded => Called(a)' /\ Move(a)
  BY <1>3, <1>4, <1>5 DEF Called, Move
<1>7. outstanding' = outstanding
  BY <1>1 DEF outstanding
<1>8. \A b \in Acts \ {a} : InFlight(b) => GoodSlot(slot'[b], b) /\ slot[b].txs \subseteq slot'[b].txs
  BY <1>3 DEF SenderInv, Slots, SlotGood
<1> QED BY <1>1, <1>2, <1>3, <1>4, <1>6, <1>7, <1>8, OneActs DEF Fine

\* A slot is sent for again, by its own call or by another's, and stays in flight.
LEMMA ResendFine ==
    ASSUME SenderInv, NEW a \in Acts, Resends(a), CallsTypeOK',
           \A b \in Acts \ {a} : /\ pc'[b] = pc[b] /\ told'[b] = told[b]
                                 /\ (b \in inDoubt' <=> b \in inDoubt),
           a \in Guarded => InFlight(a) /\ InFlight(a)' /\ Called(a)'
    PROVE  Fine
<1>1. ASSUME NEW t \in outstanding' PROVE t \in outstanding \/ Cover(t)'
  <2>1. CASE t \in outstanding \/ t.kind = "cancel"
    BY <2>1 DEF Cover
  <2>2. CASE t \in slot'[a].txs
    <3>1. t.act = a
      BY <2>2 DEF Resends, Sends, GoodSlot
    <3> QED BY <2>2, <3>1 DEF Cover
  <2> QED BY <2>1, <2>2 DEF Resends, Sends
<1>2. \A b \in Acts \ {a} : InFlight(b) => GoodSlot(slot'[b], b) /\ slot[b].txs \subseteq slot'[b].txs
  BY DEF SenderInv, Slots, SlotGood, Resends, Sends
<1>3. a \in Guarded => Move(a)
  BY DEF Move, Resends
<1>4. GoodSlot(slot'[a], a) /\ NodeTypeOK' /\ UNCHANGED <<time, mined>>
  BY DEF Resends, Sends
<1>5. a \in Guarded => Called(a)' /\ Move(a)
  BY <1>3
<1>6. \A b \in Acts \ {a} :
         /\ pc'[b] = pc[b] /\ told'[b] = told[b] /\ (b \in inDoubt' <=> b \in inDoubt)
         /\ InFlight(b) => GoodSlot(slot'[b], b) /\ slot[b].txs \subseteq slot'[b].txs
  BY <1>2
<1>7. SenderInv' /\ \A b \in Guarded : Move(b)
  BY <1>1, <1>4, <1>5, <1>6, OneActs
<1> QED BY <1>4, <1>7 DEF Fine

\* The guard settles what became of an action in doubt.
LEMMA GuardResolvesFine == ASSUME SenderInv, NEW a \in Guarded, GuardResolves(a) PROVE Fine
<1>1. pc[a] = "guard" /\ UNCHANGED <<node, queue, lastNonce, nonce, todo, landed>>
  BY DEF GuardResolves
<1>2. a \in inDoubt /\ InFlight(a) /\ a \in Acts
  BY <1>1 DEF SenderInv, Calls, Called, InFlight, Acts
<1>3. PICK b \in 0..time, first \in receiptReads(slot[a].txs), again \in receiptReads(slot[a].txs) :
        LET resolved == resolveSlot(a, b, first, again)
        IN \/ /\ resolved = "confirmed"
              /\ inDoubt' = inDoubt \ {a} /\ dropSlot(a) /\ goto(a, "idle") /\ tell(a, "already")
           \/ /\ resolved \in {"reverted", "not_sent"}
              /\ inDoubt' = inDoubt \ {a} /\ dropSlot(a) /\ goto(a, "plan") /\ tell(a, resolved)
           \/ /\ resolved = "in_doubt"
              /\ \E done \in isDoneReads(a) :
                    \/ /\ done
                       /\ inDoubt' = inDoubt \ {a} /\ dropSlot(a)
                       /\ goto(a, "idle") /\ tell(a, "already")
                    \/ /\ ~done
                       /\ goto(a, "rescue") /\ UNCHANGED <<slot, inDoubt, told>>
  BY Zenon DEF GuardResolves
<1> DEFINE resolved == resolveSlot(a, b, first, again)
<1>4. /\ resolved = "confirmed" => effect(a, time)
      /\ resolved \in Dead => ~effect(a, time)
      /\ resolved # "in_doubt" => consumed(slot[a].nonce)
  BY <1>2, ResolveIsSo
<1> DEFINE drops(l, x) == inDoubt' = inDoubt \ {a} /\ dropSlot(a) /\ goto(a, l) /\ tell(a, x)
<1>5. \/ resolved = "confirmed" /\ drops("idle", "already")
      \/ resolved \in Dead /\ drops("plan", resolved)
      \/ (\E done \in isDoneReads(a) : done) /\ drops("idle", "already")
      \/ goto(a, "rescue") /\ UNCHANGED <<slot, inDoubt, told>>
  BY <1>3, Zenon DEF Dead
<1> HIDE DEF resolved
<1>6. landed' \in SUBSET Guarded
  BY <1>1 DEF SenderInv, CallsTypeOK
<1>7. ASSUME NEW l \in {"idle", "plan"}, NEW x \in Landed \cup Dead, drops(l, x),
             l = "plan" => x \in Dead, consumed(slot[a].nonce),
             x \in Landed => effect(a, time), x \in Dead => ~effect(a, time)
      PROVE  Fine
  BY <1>1, <1>2, <1>6, <1>7, SettleFine DEF dropSlot, goto, tell
<1>8. ASSUME effect(a, time) PROVE consumed(slot[a].nonce)
  BY <1>2, <1>8, EffectConsumes DEF effect
<1>9. "already" \in Landed /\ "already" \notin Dead /\ Landed \cap Dead = {} /\ "in_doubt" \notin Dead
  BY DEF Landed, Dead
<1>10. CASE resolved = "confirmed" /\ drops("idle", "already")
  BY <1>4, <1>7, <1>9, <1>10
<1>11. CASE resolved \in Dead /\ drops("plan", resolved)
  BY <1>4, <1>7, <1>9, <1>11
<1>12. CASE (\E done \in isDoneReads(a) : done) /\ drops("idle", "already")
  <2>1. effect(a, time)
    BY <1>12, Zenon DEF isDoneReads
  <2> QED BY <1>7, <1>8, <1>9, <1>12, <2>1
<1>13. CASE goto(a, "rescue") /\ UNCHANGED <<slot, inDoubt, told>>
  <2>1. pc' = [pc EXCEPT ![a] = "rescue"]
    BY <1>13 DEF goto
  <2>2. pc'[a] = "rescue" /\ \A c \in Acts \ {a} : pc'[c] = pc[c]
    BY <1>2, <2>1 DEF SenderInv, CallsTypeOK
  <2>3. CallsTypeOK' /\ NodeTypeOK'
    BY <1>1, <1>13, <2>1 DEF node, SenderInv, NodeTypeOK, CallsTypeOK, Labels
  <2>4. InFlight(a)'
    BY <1>2, <1>13 DEF InFlight
  <2>5. Called(a)'
    BY <1>1, <1>2, <1>13, <2>2 DEF SenderInv, Calls, Called, InFlight
  <2> QED BY <1>1, <1>2, <1>13, <2>2, <2>3, <2>4, <2>5, OnlyControl DEF node
<1> QED BY <1>5, <1>10, <1>11, <1>12, <1>13

\* A pass over a slot counts it, or notes the head it saw; the transactions stay.
LEMMA PassKeepsSlot ==
    ASSUME NodeTypeOK, NEW a \in Acts, NEW s, GoodSlot(s, a)
    PROVE  /\ GoodSlot([s EXCEPT !.passes = IF @ < AfterPasses THEN @ + 1 ELSE @], a)
           /\ GoodSlot(sawHead(s), a) /\ sawHead(s).txs = s.txs
<1>1. s \in SlotRecord /\ s.passes \in Nat /\ s.head \in Int /\ s.missed \in Int /\ time \in Int
  BY SenderAssumption DEF GoodSlot, SlotRecord, NodeTypeOK
<1>2. ASSUME NEW p \in Nat PROVE GoodSlot([s EXCEPT !.passes = p], a)
  <2> DEFINE n == [s EXCEPT !.passes = p]
  <2>1. /\ n \in SlotRecord /\ n.txs = s.txs /\ n.latest = s.latest /\ n.nonce = s.nonce
        /\ n.cancel = s.cancel
    BY <1>1 DEF SlotRecord
  <2> HIDE DEF n
  <2>2. GoodSlot(n, a)
    BY <2>1 DEF GoodSlot
  <2> QED BY <2>2 DEF n
<1>3. ASSUME NEW h \in Int, NEW d \in Int
      PROVE  /\ GoodSlot([s EXCEPT !.head = h, !.missed = d], a)
             /\ [s EXCEPT !.head = h, !.missed = d].txs = s.txs
  <2> DEFINE n == [s EXCEPT !.head = h, !.missed = d]
  <2>1. /\ n \in SlotRecord /\ n.txs = s.txs /\ n.latest = s.latest /\ n.nonce = s.nonce
        /\ n.cancel = s.cancel
    BY <1>1 DEF SlotRecord
  <2> HIDE DEF n
  <2>2. GoodSlot(n, a) /\ n.txs = s.txs
    BY <2>1 DEF GoodSlot
  <2> QED BY <2>2 DEF n
<1>4. (IF s.passes < AfterPasses THEN s.passes + 1 ELSE s.passes) \in Nat
  BY <1>1
<1>5. (IF s.head = -1 THEN s.missed ELSE s.missed + time - s.head) \in Int
  BY <1>1
<1>6. sawHead(s) = [s EXCEPT !.head = time,
                             !.missed = IF s.head = -1 THEN s.missed ELSE s.missed + time - s.head]
  BY DEF sawHead
<1>7. GoodSlot(sawHead(s), a) /\ sawHead(s).txs = s.txs
  BY <1>1, <1>3, <1>5, <1>6
<1> QED BY <1>2, <1>4, <1>7

\* An action in doubt is released, replaced or broadcast again.
LEMMA RescueFine == ASSUME SenderInv, NEW a \in Guarded, Rescue(a) PROVE Fine
<1>1. pc[a] = "rescue" /\ UNCHANGED <<queue, inDoubt, nonce, todo, landed>>
  BY DEF Rescue
<1>2. a \in inDoubt /\ InFlight(a) /\ a \in Acts
  BY <1>1 DEF SenderInv, Calls, Called, InFlight, Acts
<1>3. GoodSlot(slot[a], a)
  BY <1>2 DEF SenderInv, Slots, SlotGood
<1>4. Resends(a)
  <2> DEFINE s == [slot[a] EXCEPT !.passes = IF @ < AfterPasses THEN @ + 1 ELSE @]
  <2>1. GoodSlot(s, a)
    BY <1>2, <1>3, PassKeepsSlot DEF SenderInv
  <2>2. s.txs = slot[a].txs
    BY <1>3 DEF GoodSlot, SlotRecord
  <2>3. \/ \E out \in BOOLEAN : releaseSlot(a, out)
        \/ \E m \in Market, answer \in Answers : replaceAtSameNonce(a, m, answer, s)
        \/ slot' = [slot EXCEPT ![a] = s] /\ rebroadcast(a)
    BY Zenon DEF Rescue
  <2> HIDE DEF s
  <2>4. CASE \E out \in BOOLEAN : releaseSlot(a, out)
    BY <1>2, <1>3, <2>4, ReleaseSends
  <2>5. CASE \E m \in Market, answer \in Answers : replaceAtSameNonce(a, m, answer, s)
    BY <1>2, <2>1, <2>2, <2>5, ReplaceSends
  <2>6. CASE slot' = [slot EXCEPT ![a] = s] /\ rebroadcast(a)
    BY <1>2, <1>3, <2>1, <2>2, <2>6, RebroadcastSends
  <2> QED BY <2>3, <2>4, <2>5, <2>6
<1>5. pc' = [pc EXCEPT ![a] = "idle"] /\ told' = [told EXCEPT ![a] = "in_doubt"]
  BY DEF Rescue, goto, tell
<1>6. CallsTypeOK'
  BY <1>1, <1>4, <1>5 DEF SenderInv, CallsTypeOK, Resends, Sends, Labels, Unsure
<1>7. /\ pc'[a] = "idle" /\ told'[a] = "in_doubt"
      /\ \A b \in Acts \ {a} : pc'[b] = pc[b] /\ told'[b] = told[b]
  BY <1>2, <1>5 DEF SenderInv, CallsTypeOK
<1>8. InFlight(a)' /\ Called(a)'
  BY <1>1, <1>2, <1>7 DEF InFlight, Called, Landed, Unsure
<1> QED BY <1>1, <1>2, <1>4, <1>6, <1>7, <1>8, ResendFine

\* A slot ahead in the queue whose action is dead is released.
LEMMA ReleaseDeadSlotFine == ASSUME SenderInv, NEW a \in Acts, ReleaseDeadSlot(a) PROVE Fine
<1>1. UNCHANGED <<queue, inDoubt, pc, nonce, landed, told>>
  BY DEF ReleaseDeadSlot
<1>2. PICK b \in todo : /\ todo' = todo \ {b}
                        /\ IF b \in inDoubt THEN \E out \in BOOLEAN : releaseSlot(b, out)
                                            ELSE UNCHANGED <<node, lastNonce, slot>>
  BY DEF ReleaseDeadSlot
<1>3. b \in Guarded /\ b \in Acts
  BY DEF SenderInv, CallsTypeOK, Acts
<1>4. InFlight(b)' = InFlight(b) /\ Called(b)
  BY <1>1, <1>3 DEF InFlight, SenderInv, Calls
<1>5. Called(b)'
  BY <1>1, <1>4 DEF Called
<1>6. CASE b \in inDoubt
  <2>1. InFlight(b) /\ GoodSlot(slot[b], b)
    BY <1>3, <1>6 DEF InFlight, SenderInv, Slots, SlotGood
  <2>2. Resends(b)
    BY <1>2, <1>3, <1>6, <2>1, ReleaseSends
  <2>3. CallsTypeOK'
    BY <1>1, <1>2, <2>2 DEF SenderInv, CallsTypeOK, Resends, Sends
  <2>4. \A c \in Acts \ {b} : /\ pc'[c] = pc[c] /\ told'[c] = told[c]
                              /\ (c \in inDoubt' <=> c \in inDoubt)
    BY <1>1
  <2>5. b \in Guarded => InFlight(b) /\ InFlight(b)' /\ Called(b)'
    BY <1>4, <1>5, <2>1
  <2> QED BY <1>3, <2>2, <2>3, <2>4, <2>5, ResendFine
<1>7. CASE b \notin inDoubt
  <2>1. UNCHANGED <<time, mined, pool, wire, faults, lastNonce, slot>>
    BY <1>2, <1>7 DEF node
  <2>2. CallsTypeOK' /\ NodeTypeOK'
    BY <1>1, <1>2, <2>1 DEF SenderInv, NodeTypeOK, CallsTypeOK
  <2> QED BY <1>1, <1>3, <1>4, <1>5, <2>1, <2>2, OnlyControl
<1> QED BY <1>6, <1>7

\* A send is assigned its nonce.
LEMMA AssignNonceFine == ASSUME SenderInv, NEW a \in Acts, AssignNonce(a) PROVE Fine
<1>1. pc[a] = "release" /\ UNCHANGED <<queue, slot, inDoubt, todo, landed, told>>
  BY DEF AssignNonce
<1>2. PICK count \in pendingReads :
        \/ lastNonce' = NoRecord /\ assign(a, count) /\ UNCHANGED node
        \/ /\ lastNonce # NoRecord
           /\ \/ assign(a, lastNonce.nonce + 1) /\ UNCHANGED <<node, lastNonce>>
              \/ \E answer \in Answers :
                   /\ broadcast(lastNonce.tx, answer)
                   /\ \/ assign(a, lastNonce.nonce + 1) /\ UNCHANGED lastNonce
                      \/ assign(a, count) /\ lastNonce' = NoRecord
  BY Zenon DEF AssignNonce
<1>3. count \in Nat /\ (lastNonce # NoRecord => lastNonce.nonce \in Nat /\ lastNonce.tx \in Tx)
  BY PendingCountIsNat DEF SenderInv, CallsTypeOK, Record
<1>4. /\ \/ UNCHANGED node
         \/ lastNonce # NoRecord /\ \E answer \in Answers : broadcast(lastNonce.tx, answer)
      /\ lastNonce' = lastNonce \/ lastNonce' = NoRecord
  BY <1>2
<1>5. \E n \in Nat : assign(a, n)
  BY <1>2, <1>3
<1>6. nonce' \in 0..MaxNonce /\ pc' = [pc EXCEPT ![a] = "send"]
  BY <1>5, SenderAssumption DEF assign, goto
<1>7. UNCHANGED <<time, mined>> /\ NodeTypeOK'
  BY <1>3, <1>4, BroadcastLeaves DEF SenderInv, node, NodeTypeOK
<1>8. outstanding' \subseteq outstanding
  BY <1>3, <1>4, BroadcastLeaves DEF SenderInv, node, outstanding
<1>9. CallsTypeOK'
  BY <1>1, <1>4, <1>6 DEF SenderInv, CallsTypeOK, Labels
<1>10. pc'[a] = "send" /\ \A b \in Acts \ {a} : pc'[b] = pc[b]
  BY <1>6 DEF SenderInv, CallsTypeOK
<1>11. InFlight(a)' <=> InFlight(a)
  BY <1>1, <1>10 DEF InFlight
<1>12. a \in Guarded => Called(a)'
  BY <1>1, <1>10, <1>11 DEF SenderInv, Calls, Called
<1>13. \A b \in Acts \ {a} : /\ pc'[b] = pc[b] /\ told'[b] = told[b]
                             /\ (b \in inDoubt' <=> b \in inDoubt)
  BY <1>1, <1>10
<1>14. told'[a] = told[a]
  BY <1>1
<1> QED BY <1>1, <1>7, <1>8, <1>9, <1>11, <1>12, <1>13, <1>14, SendsNothing

\* A transaction is broadcast.
LEMMA BroadcastFine == ASSUME SenderInv, NEW a \in Acts, Broadcast(a) PROVE Fine
<1>1. /\ pc[a] = "send" /\ UNCHANGED <<inDoubt, todo, landed>>
      /\ nonce' = 0 /\ atHead(a) /\ queue' = Tail(queue)
  BY DEF Broadcast
<1>2. a \in Guarded => a \notin inDoubt /\ told[a] \notin Landed
  BY <1>1 DEF SenderInv, Calls, Called
<1>3. a \notin inDoubt /\ ~InFlight(a)
  BY <1>1, <1>2 DEF InFlight, SenderInv, CallsTypeOK
<1>4. a \in Guarded => ~effect(a, time)
  BY <1>2, <1>3 DEF effect, SenderInv, Effects
<1>5. PICK m \in Market, answer \in Answers :
        LET tx == [act |-> a, nonce |-> nonce, fee |-> m, kind |-> "action"]
        IN /\ broadcast(tx, answer)
           /\ recordIf(answer, tx, landBy(a))
           /\ \/ definitelyRejected(answer) /\ dropSlot(a) /\ goto(a, "idle") /\ tell(a, "not_sent")
              \/ /\ ~definitelyRejected(answer)
                 /\ slot' = [slot EXCEPT ![a] = newSlot(tx)] /\ goto(a, "wait") /\ tell(a, "none")
  BY Zenon DEF Broadcast
<1> DEFINE tx == [act |-> a, nonce |-> nonce, fee |-> m, kind |-> "action"]
<1>6. tx \in Tx /\ tx.act = a /\ tx.kind = "action" /\ tx.nonce = nonce /\ nonce \in 0..MaxNonce
  BY SenderAssumption DEF Tx, SenderInv, CallsTypeOK
<1>7. broadcast(tx, answer) /\ recordIf(answer, tx, landBy(a))
  BY <1>5
<1>8. \/ definitelyRejected(answer) /\ dropSlot(a) /\ goto(a, "idle") /\ tell(a, "not_sent")
      \/ /\ ~definitelyRejected(answer)
         /\ slot' = [slot EXCEPT ![a] = newSlot(tx)] /\ goto(a, "wait") /\ tell(a, "none")
  BY <1>5
<1> HIDE DEF tx
<1>9. lastNonce' = lastNonce \/ lastNonce' = recordBroadcast(lastNonce, tx, landBy(a))
  BY <1>7 DEF recordIf
<1>10. UNCHANGED <<time, mined>> /\ NodeTypeOK'
  BY <1>6, <1>7, BroadcastLeaves DEF SenderInv
<1>11. lastNonce' \in Record \cup {NoRecord} /\ \A t \in outstanding' : t \in outstanding \/ t = tx
  BY <1>6, <1>7, <1>9, SentOutstanding, LandByIsNat DEF SenderInv
<1>12. queue' \in Seq(Acts) /\ nonce' \in 0..MaxNonce
  BY <1>1, SenderAssumption DEF atHead, SenderInv, CallsTypeOK
<1>13. \A b \in Acts \ {a} : InFlight(b) => GoodSlot(slot[b], b)
  BY DEF SenderInv, Slots, SlotGood
<1>14. CASE definitelyRejected(answer) /\ dropSlot(a) /\ goto(a, "idle") /\ tell(a, "not_sent")
  <2>1. /\ slot' = [slot EXCEPT ![a] = NoSlot] /\ pc' = [pc EXCEPT ![a] = "idle"]
        /\ told' = [told EXCEPT ![a] = "not_sent"]
    BY <1>14 DEF dropSlot, goto, tell
  <2>2. CallsTypeOK'
    BY <1>1, <1>11, <1>12, <2>1 DEF SenderInv, CallsTypeOK, Labels, Dead
  <2>3. /\ pc'[a] = "idle" /\ told'[a] = "not_sent"
        /\ \A b \in Acts \ {a} : pc'[b] = pc[b] /\ told'[b] = told[b] /\ slot'[b] = slot[b]
    BY <2>1 DEF SenderInv, CallsTypeOK
  <2>4. ~InFlight(a)'
    BY <1>1, <1>3, <2>3 DEF InFlight
  <2>5. a \in Guarded => Called(a)' /\ Move(a)
    BY <1>1, <1>3, <1>4, <2>3, <2>4 DEF Called, Move, Dead, Landed
  <2>6. UNCHANGED <<pool, wire>> /\ answer # "ok"
    BY <1>6, <1>7, <1>14, BroadcastLeaves DEF SenderInv, definitelyRejected
  <2>7. lastNonce' = lastNonce
    BY <1>7, <2>6 DEF recordIf
  <2>8. \A t \in outstanding' : t \in outstanding \/ Cover(t)'
    BY <2>6, <2>7 DEF outstanding
  <2>9. \A b \in Acts \ {a} :
           /\ pc'[b] = pc[b] /\ told'[b] = told[b] /\ (b \in inDoubt' <=> b \in inDoubt)
           /\ InFlight(b) => GoodSlot(slot'[b], b) /\ slot[b].txs \subseteq slot'[b].txs
    BY <1>1, <1>13, <2>3
  <2>10. SenderInv' /\ \A b \in Guarded : Move(b)
    BY <1>10, <2>2, <2>4, <2>5, <2>8, <2>9, OneActs
  <2> QED BY <1>10, <2>10 DEF Fine
<1>15. CASE slot' = [slot EXCEPT ![a] = newSlot(tx)] /\ goto(a, "wait") /\ tell(a, "none")
  <2>1. pc' = [pc EXCEPT ![a] = "wait"] /\ told' = [told EXCEPT ![a] = "none"]
    BY <1>15 DEF goto, tell
  <2> DEFINE n == newSlot(tx)
  <2>2. n \in SlotRecord /\ n.txs = {tx} /\ n.latest = tx /\ n.nonce = nonce /\ n.cancel = NoTx
    <3>1. tx.fee \in Nat /\ tx.nonce \in 0..MaxNonce /\ {tx} \in SUBSET Tx
      BY <1>6 DEF Tx
    <3>2. n = [nonce |-> tx.nonce, txs |-> {tx}, latest |-> tx, originalFee |-> tx.fee,
               passes |-> 0, head |-> -1, missed |-> 0, cancel |-> NoTx, released |-> FALSE]
      BY DEF newSlot
    <3> HIDE DEF n
    <3> QED BY <1>6, <3>1, <3>2 DEF SlotRecord
  <2>3. slot' = [slot EXCEPT ![a] = n]
    BY <1>15
  <2> HIDE DEF n
  <2>4. GoodSlot(n, a)
    BY <1>6, <2>2 DEF GoodSlot
  <2>5. CallsTypeOK'
    BY <1>1, <1>11, <1>12, <2>1, <2>2, <2>3 DEF SenderInv, CallsTypeOK, Labels, Unsure
  <2>6. /\ pc'[a] = "wait" /\ told'[a] = "none" /\ slot'[a] = n
        /\ \A b \in Acts \ {a} : pc'[b] = pc[b] /\ told'[b] = told[b] /\ slot'[b] = slot[b]
    BY <2>1, <2>3 DEF SenderInv, CallsTypeOK
  <2>7. InFlight(a)'
    BY <2>6 DEF InFlight
  <2>8. a \in Guarded => Called(a)' /\ Move(a)
    BY <1>1, <1>2, <1>3, <2>6, <2>7 DEF Called, Move, Unsure, Landed
  <2>9. \A t \in outstanding' : t \in outstanding \/ Cover(t)'
    BY <1>6, <1>11, <2>2, <2>6, <2>7 DEF Cover
  <2>10. \A b \in Acts \ {a} :
           /\ pc'[b] = pc[b] /\ told'[b] = told[b] /\ (b \in inDoubt' <=> b \in inDoubt)
           /\ InFlight(b) => GoodSlot(slot'[b], b) /\ slot[b].txs \subseteq slot'[b].txs
    BY <1>1, <1>13, <2>6
  <2>11. InFlight(a)' => GoodSlot(slot'[a], a)
    BY <2>4, <2>6
  <2>12. SenderInv' /\ \A b \in Guarded : Move(b)
    BY <1>10, <2>5, <2>8, <2>9, <2>10, <2>11, OneActs
  <2> QED BY <1>10, <2>12 DEF Fine
<1> QED BY <1>8, <1>14, <1>15

\* A waiting action sees the receipt.
LEMMA SeeReceiptFine == ASSUME SenderInv, NEW a \in Acts, SeeReceipt(a) PROVE Fine
<1>1. pc[a] = "wait" /\ UNCHANGED <<node, queue, lastNonce, inDoubt, nonce, todo>>
  BY DEF SeeReceipt
<1>2. InFlight(a)
  BY <1>1 DEF InFlight
<1>3. a \notin inDoubt
  BY <1>1 DEF SenderInv, Calls, Called, CallsTypeOK
<1>4. PICK receipt \in receiptReads(slot[a].txs) :
        /\ found(receipt) /\ tell(a, landedAs(a, receipt))
        /\ landed' = IF receipt.ok /\ a \in Guarded THEN landed \cup {a} ELSE landed
  BY DEF SeeReceipt
<1>5. slot' = [slot EXCEPT ![a] = NoSlot] /\ pc' = [pc EXCEPT ![a] = "idle"]
  BY DEF SeeReceipt, dropSlot, goto
<1>6. landed' \in SUBSET Guarded /\ inDoubt' = inDoubt \ {a}
  BY <1>1, <1>3, <1>4 DEF SenderInv, CallsTypeOK
<1>7. PICK x \in Landed \cup Dead : /\ told' = [told EXCEPT ![a] = x]
                                    /\ x = IF receipt.ok THEN "confirmed" ELSE "reverted"
  BY <1>4 DEF tell, landedAs, Landed, Dead
<1>8. a \in Guarded => /\ consumed(slot[a].nonce)
                       /\ x \in Landed => effect(a, time)
                       /\ x \in Dead => ~effect(a, time)
  BY <1>2, <1>4, <1>7, ReceiptSettles DEF Landed, Dead
<1> QED BY <1>1, <1>2, <1>5, <1>6, <1>7, <1>8, SettleFine

\* A waiting action is past its deadline: its slot is released.
LEMMA WaitDeadFine == ASSUME SenderInv, NEW a \in Acts, WaitDead(a) PROVE Fine
<1>1. pc[a] = "wait" /\ time >= landBy(a) /\ UNCHANGED <<queue, nonce, todo, landed>>
  BY DEF WaitDead
<1>2. a \in Guarded
  BY <1>1, SenderAssumption DEF landBy, Never, SenderInv, NodeTypeOK
<1>3. InFlight(a) /\ GoodSlot(slot[a], a)
  BY <1>1 DEF InFlight, SenderInv, Slots, SlotGood
<1>4. PICK out \in BOOLEAN : /\ releaseSlot(a, out)
                             /\ giveUp(a, IF out THEN "cancelled" ELSE "in_doubt")
  BY DEF WaitDead
<1>5. Resends(a)
  BY <1>3, <1>4, ReleaseSends
<1>6. PICK x \in Unsure : told' = [told EXCEPT ![a] = x]
  BY <1>4 DEF giveUp, tell, Unsure
<1>7. pc' = [pc EXCEPT ![a] = "idle"] /\ inDoubt' = inDoubt \cup {a}
  BY <1>2, <1>4 DEF giveUp, goto
<1>8. CallsTypeOK'
  BY <1>1, <1>2, <1>5, <1>6, <1>7 DEF SenderInv, CallsTypeOK, Resends, Sends, Labels
<1>9. /\ pc'[a] = "idle" /\ told'[a] = x
      /\ \A b \in Acts \ {a} : /\ pc'[b] = pc[b] /\ told'[b] = told[b]
                               /\ (b \in inDoubt' <=> b \in inDoubt)
  BY <1>6, <1>7 DEF SenderInv, CallsTypeOK
<1>10. InFlight(a)' /\ Called(a)'
  BY <1>7, <1>9 DEF InFlight, Called, Landed, Unsure
<1> QED BY <1>3, <1>5, <1>8, <1>9, <1>10, ResendFine

\* A wait runs out of time, and its action may be in doubt.
LEMMA WaitTimesOutFine == ASSUME SenderInv, NEW a \in Acts, WaitTimesOut(a) PROVE Fine
<1>1. /\ pc[a] = "wait"
      /\ UNCHANGED <<time, mined, pool, wire, faults, queue, lastNonce, nonce, todo, landed>>
  BY DEF WaitTimesOut, node
<1>2. pc' = [pc EXCEPT ![a] = "idle"] /\ told' = [told EXCEPT ![a] = "in_doubt"]
  BY DEF WaitTimesOut, giveUp, goto, tell
<1>3. /\ inDoubt' = IF a \in Guarded THEN inDoubt \cup {a} ELSE inDoubt
      /\ slot' = IF a \in Guarded THEN slot ELSE [slot EXCEPT ![a] = NoSlot]
  BY DEF WaitTimesOut, giveUp, dropSlot
<1>4. NodeTypeOK' /\ CallsTypeOK'
  BY <1>1, <1>2, <1>3 DEF SenderInv, NodeTypeOK, CallsTypeOK, Labels, Unsure
<1>5. /\ pc'[a] = "idle" /\ told'[a] = "in_doubt"
      /\ \A b \in Acts \ {a} : /\ pc'[b] = pc[b] /\ told'[b] = told[b] /\ slot'[b] = slot[b]
                               /\ (b \in inDoubt' <=> b \in inDoubt)
  BY <1>2, <1>3 DEF SenderInv, CallsTypeOK
<1>6. outstanding' = outstanding
  BY <1>1 DEF outstanding
<1>7. CASE a \in Guarded
  <2>1. InFlight(a) /\ InFlight(a)'
    BY <1>1, <1>3, <1>7 DEF InFlight
  <2>2. Called(a)'
    BY <1>3, <1>5, <1>7 DEF Called, Landed, Unsure
  <2>3. UNCHANGED slot
    BY <1>3, <1>7
  <2> QED BY <1>1, <1>4, <1>5, <1>6, <1>7, <2>1, <2>2, <2>3, SendsNothing
<1>8. CASE a \notin Guarded
  <2>1. ~InFlight(a)'
    BY <1>3, <1>5, <1>8 DEF InFlight, SenderInv, CallsTypeOK
  <2>2. \A b \in Acts \ {a} :
           /\ pc'[b] = pc[b] /\ told'[b] = told[b] /\ (b \in inDoubt' <=> b \in inDoubt)
           /\ InFlight(b) => GoodSlot(slot'[b], b) /\ slot[b].txs \subseteq slot'[b].txs
    BY <1>5 DEF SenderInv, Slots, SlotGood
  <2>3. SenderInv' /\ \A b \in Guarded : Move(b)
    BY <1>1, <1>4, <1>6, <1>8, <2>1, <2>2, OneActs
  <2> QED BY <1>1, <2>3 DEF Fine
<1> QED BY <1>7, <1>8

\* A waiting action looks again: it is replaced, rebroadcast or left.
LEMMA WaitPassFine == ASSUME SenderInv, NEW a \in Acts, WaitPass(a) PROVE Fine
<1>1. pc[a] = "wait" /\ UNCHANGED <<queue, inDoubt, pc, nonce, todo, landed, told>>
  BY DEF WaitPass
<1>2. InFlight(a) /\ GoodSlot(slot[a], a)
  BY <1>1 DEF InFlight, SenderInv, Slots, SlotGood
<1> DEFINE s == IF a \in Guarded THEN sawHead(slot[a]) ELSE slot[a]
<1>3. GoodSlot(s, a) /\ s.txs = slot[a].txs
  BY <1>2, PassKeepsSlot DEF SenderInv
<1>4. \/ \E m \in Market, answer \in Answers : replaceAtSameNonce(a, m, answer, s)
      \/ slot' = [slot EXCEPT ![a] = s] /\ (rebroadcast(a) \/ UNCHANGED <<node, lastNonce>>)
  BY Zenon DEF WaitPass
<1> HIDE DEF s
<1>5. Resends(a)
  <2>1. CASE \E m \in Market, answer \in Answers : replaceAtSameNonce(a, m, answer, s)
    BY <1>3, <2>1, ReplaceSends
  <2>2. CASE slot' = [slot EXCEPT ![a] = s] /\ rebroadcast(a)
    BY <1>2, <1>3, <2>2, RebroadcastSends
  <2>3. CASE slot' = [slot EXCEPT ![a] = s] /\ UNCHANGED <<node, lastNonce>>
    <3>1. UNCHANGED <<time, mined, pool, wire, faults, lastNonce>>
      BY <2>3 DEF node
    <3>2. NodeTypeOK' /\ outstanding' = outstanding /\ lastNonce' \in Record \cup {NoRecord}
      BY <3>1 DEF SenderInv, NodeTypeOK, CallsTypeOK, outstanding
    <3>3. slot'[a] = s /\ \A b \in Acts \ {a} : slot'[b] = slot[b]
      BY <2>3 DEF SenderInv, CallsTypeOK
    <3>4. slot' \in [Acts -> SlotRecord \cup {NoSlot}]
      BY <1>3, <2>3 DEF SenderInv, CallsTypeOK, GoodSlot
    <3> QED BY <1>3, <3>1, <3>2, <3>3, <3>4 DEF Resends, Sends
  <2> QED BY <1>4, <2>1, <2>2, <2>3
<1>6. CallsTypeOK'
  BY <1>1, <1>5 DEF SenderInv, CallsTypeOK, Resends, Sends
<1>7. a \in Guarded => InFlight(a) /\ InFlight(a)' /\ Called(a)'
  BY <1>1, <1>2 DEF InFlight, SenderInv, Calls, Called
<1>8. \A b \in Acts \ {a} : /\ pc'[b] = pc[b] /\ told'[b] = told[b]
                            /\ (b \in inDoubt' <=> b \in inDoubt)
  BY <1>1
<1> QED BY <1>5, <1>6, <1>7, <1>8, ResendFine

\* The node admits a transaction to its pool, or evicts one.
LEMMA NodeMovesFine == ASSUME SenderInv, Arrives \/ Evict PROVE Fine
<1>1. UNCHANGED <<time, mined, queue, lastNonce, slot, inDoubt, pc, nonce, todo, landed, told>>
  BY DEF Arrives, Evict, sender
<1>2. /\ pool' \subseteq pool \cup wire /\ wire' \subseteq wire
      /\ faults' = faults \/ (faults < MaxFaults /\ faults' = faults + 1)
  BY DEF Arrives, Evict
<1>3. faults' \in 0..MaxFaults
  BY <1>2, SenderAssumption DEF SenderInv, NodeTypeOK
<1>4. NodeTypeOK' /\ CallsTypeOK'
  BY <1>1, <1>2, <1>3 DEF SenderInv, NodeTypeOK, CallsTypeOK
<1>5. outstanding' \subseteq outstanding
  BY <1>1, <1>2 DEF outstanding
<1>6. \A a \in Acts : (InFlight(a)' <=> InFlight(a)) /\ (a \in Guarded => Called(a)')
  BY <1>1 DEF InFlight, SenderInv, Calls, Called
<1>7. PICK a \in Acts : TRUE
  <2>1. pool \cup wire # {} /\ pool \cup wire \subseteq Tx
    BY DEF Arrives, Evict, SenderInv, NodeTypeOK
  <2> QED BY <2>1 DEF Tx
<1>8. told'[a] = told[a] /\ \A b \in Acts \ {a} : /\ pc'[b] = pc[b] /\ told'[b] = told[b]
                                                  /\ (b \in inDoubt' <=> b \in inDoubt)
  BY <1>1
<1> QED BY <1>1, <1>4, <1>5, <1>6, <1>8, SendsNothing

\* A block with the key's next transaction appends it to the chain.
LEMMA Mines ==
    ASSUME NodeTypeOK, NEW tx \in Tx, NEW m, m = mine(tx), mined' = Append(mined, m), time' \in Nat
    PROVE  /\ m \in Mined /\ mined' \in Seq(Mined) /\ Len(mined') = Len(mined) + 1
           /\ DOMAIN mined' = 1..(Len(mined) + 1) /\ DOMAIN mined = 1..Len(mined)
           /\ \A i \in 1..Len(mined) : mined'[i] = mined[i]
           /\ mined'[Len(mined) + 1] = m
<1>1. m \in Mined
  <2> DEFINE ok == tx.kind = "action" /\ time' < landBy(tx.act) /\ ~effect(tx.act, time)
  <2>1. m = [tx |-> tx, at |-> time', ok |-> ok] /\ ok \in BOOLEAN
    BY DEF mine
  <2> HIDE DEF ok
  <2> QED BY <2>1 DEF Mined
<1> QED BY <1>1 DEF NodeTypeOK

\* The transaction a block may mine next is one of its action's slot.
LEMMA NextIsCovered ==
    ASSUME SenderInv, NEW tx \in next, tx.kind = "action", tx.act \in Guarded
    PROVE  /\ tx \in live(tx.act) /\ InFlight(tx.act) /\ tx \in slot[tx.act].txs
           /\ slot[tx.act].nonce = Len(mined)
<1>1. tx \in pool /\ tx.nonce = Len(mined) /\ ~consumed(tx.nonce)
  BY DEF next, consumed, SenderInv, NodeTypeOK
<1>2. InFlight(tx.act) /\ tx \in slot[tx.act].txs
  BY <1>1 DEF SenderInv, Covered, Cover, outstanding
<1> QED BY <1>1, <1>2 DEF live, SenderInv, Slots, SlotGood, GoodSlot, Acts

\* A new block keeps the invariant: each nonce is mined once.
LEMMA NewBlockKeeps == ASSUME SenderInv, NewBlock PROVE SenderInv'
<1>1. UNCHANGED <<faults, queue, lastNonce, slot, inDoubt, pc, nonce, todo, landed, told>>
  BY DEF NewBlock, sender
<1>2. time \in Nat /\ time' \in 0..MaxTime /\ time <= time'
  BY SenderAssumption DEF NewBlock, SenderInv, NodeTypeOK
<1>3. CallsTypeOK' /\ Slots' /\ Calls'
  BY <1>1 DEF SenderInv, CallsTypeOK, Slots, SlotGood, InFlight, Calls, Called
<1>4. CASE UNCHANGED <<mined, pool, wire>>
  <2>1. NodeTypeOK'
    BY <1>1, <1>2, <1>4 DEF SenderInv, NodeTypeOK
  <2>2. Chain'
    <3>1. \A i \in DOMAIN mined : mined[i].at \in Nat
      BY MinedTyped DEF SenderInv
    <3> QED BY <1>2, <1>4, <3>1 DEF SenderInv, Chain
  <2>3. Covered' /\ Effects' /\ OneTransaction'
    BY <1>1, <1>4 DEF SenderInv, Covered, Cover, outstanding, Effects, InFlight, consumed, OneTransaction
  <2> QED BY <1>3, <2>1, <2>2, <2>3 DEF SenderInv
<1>5. CASE \E tx \in next : /\ mined' = Append(mined, mine(tx)) /\ pool' = pool \ {tx}
                            /\ wire' = {t \in wire : t.nonce # tx.nonce}
  <2>1. PICK tx \in next : /\ mined' = Append(mined, mine(tx)) /\ pool' = pool \ {tx}
                           /\ wire' = {t \in wire : t.nonce # tx.nonce}
    BY <1>5
  <2>2. tx \in Tx /\ tx.nonce = Len(mined)
    BY DEF next, SenderInv, NodeTypeOK
  <2> DEFINE m == mine(tx)
             n == Len(mined) + 1
  <2>3. /\ m.tx = tx /\ m.at = time'
        /\ m.ok => tx.kind = "action"
    BY DEF mine
  <2>4. mined' = Append(mined, m)
    BY <2>1
  <2>5. m = mine(tx)
    OBVIOUS
  <2> HIDE DEF m
  <2>6. /\ mined' \in Seq(Mined) /\ Len(mined') = n /\ n \in Nat
        /\ DOMAIN mined' = 1..n /\ DOMAIN mined = 1..Len(mined)
        /\ \A i \in 1..Len(mined) : mined'[i] = mined[i]
        /\ mined'[n] = m
    BY <1>2, <2>2, <2>4, <2>5, Mines DEF SenderInv, NodeTypeOK
  <2> HIDE DEF n
  <2>7. /\ n = Len(mined) + 1 /\ Len(mined) \in Nat
        /\ \A i \in DOMAIN mined' : i = n \/ (i \in DOMAIN mined /\ i < n /\ mined'[i] = mined[i])
    BY <2>6 DEF n, SenderInv, NodeTypeOK
  <2>8. \A i \in DOMAIN mined : mined[i].at \in Nat
    BY MinedTyped DEF SenderInv
  <2>9. NodeTypeOK'
    BY <1>1, <1>2, <2>1, <2>6 DEF SenderInv, NodeTypeOK
  <2>10. Chain'
    <3>1. \A i \in DOMAIN mined' : mined'[i].tx.nonce = i - 1 /\ mined'[i].at <= time'
      <4> SUFFICES ASSUME NEW i \in DOMAIN mined'
                   PROVE  mined'[i].tx.nonce = i - 1 /\ mined'[i].at <= time'
        OBVIOUS
      <4>1. CASE i = n
        BY <1>2, <2>2, <2>3, <2>6, <2>7, <4>1
      <4>2. CASE i \in DOMAIN mined /\ mined'[i] = mined[i]
        BY <1>2, <2>8, <4>2 DEF SenderInv, Chain
      <4> QED BY <2>7, <4>1, <4>2
    <3>2. \A i, j \in DOMAIN mined' : i <= j => mined'[i].at <= mined'[j].at
      <4> SUFFICES ASSUME NEW i \in DOMAIN mined', NEW j \in DOMAIN mined', i <= j
                   PROVE  mined'[i].at <= mined'[j].at
        OBVIOUS
      <4>1. CASE j = n
        BY <2>3, <2>6, <3>1, <4>1
      <4>2. CASE j # n
        <5>1. /\ j \in DOMAIN mined /\ mined'[j] = mined[j] /\ j < n
              /\ i \in DOMAIN mined /\ mined'[i] = mined[i]
          BY <2>6, <2>7, <4>2
        <5> QED BY <5>1 DEF SenderInv, Chain
      <4> QED BY <4>1, <4>2
    <3> QED BY <3>1, <3>2 DEF Chain
  <2>11. Covered'
    <3>1. \A k \in Int : consumed(k) => consumed(k)'
      BY <2>6, <2>7 DEF consumed
    <3>2. outstanding' \subseteq outstanding
      BY <1>1, <2>1 DEF outstanding
    <3>3. outstanding \subseteq Tx
      BY DEF outstanding, SenderInv, NodeTypeOK, CallsTypeOK, Record
    <3>4. \A t \in outstanding' : Cover(t)'
      <4> SUFFICES ASSUME NEW t \in outstanding', t.kind = "action", t.act \in Guarded,
                          ~consumed(t.nonce)'
                   PROVE  InFlight(t.act)' /\ t \in slot'[t.act].txs
        BY DEF Cover
      <4>1. t \in outstanding /\ t.nonce \in Int /\ ~consumed(t.nonce)
        BY <3>1, <3>2, <3>3, SenderAssumption DEF Tx
      <4> QED BY <1>1, <4>1 DEF SenderInv, Covered, Cover, InFlight
    <3> QED BY <3>4 DEF Covered
  <2>12. Effects'
    <3>1. ASSUME NEW i \in DOMAIN mined', mined'[i].ok PROVE mined'[i].tx.kind = "action"
      BY <2>3, <2>6, <2>7, <3>1 DEF SenderInv, Effects
    <3>2. ASSUME NEW i \in DOMAIN mined', mined'[i].ok, NEW a \in Guarded, mined'[i].tx.act = a
          PROVE  told'[a] \in Landed \/ (InFlight(a)' /\ mined'[i].tx \in slot'[a].txs)
      <4>1. CASE i = n
        <5>1. mined'[i].tx = tx /\ tx.kind = "action" /\ tx.act = a
          BY <2>3, <2>6, <3>2, <4>1
        <5> QED BY <1>1, <5>1, NextIsCovered DEF InFlight
      <4>2. CASE i \in DOMAIN mined /\ mined'[i] = mined[i]
        BY <1>1, <3>2, <4>2 DEF SenderInv, Effects, InFlight
      <4> QED BY <2>7, <4>1, <4>2
    <3> QED BY <3>1, <3>2 DEF Effects
  <2>13. OneTransaction'
    <3> SUFFICES ASSUME NEW a \in Guarded, NEW i \in DOMAIN mined', NEW j \in DOMAIN mined',
                        mined'[i].tx.act = a, mined'[j].tx.act = a, mined'[i].ok,
                        mined'[j].tx.kind = "action"
                 PROVE  i >= j
      BY DEF OneTransaction
    <3>1. CASE i = n
      BY <2>6, <2>7, <3>1
    <3>2. CASE i # n /\ j # n
      BY <2>7, <3>2 DEF SenderInv, OneTransaction
    <3>3. CASE i # n /\ j = n
      <4>1. tx.act = a /\ tx.kind = "action"
        BY <2>3, <2>6, <3>3
      <4>2. InFlight(a) /\ slot[a].nonce = Len(mined)
        BY <4>1, NextIsCovered
      <4>3. i \in DOMAIN mined /\ mined[i].ok /\ mined[i].tx.act = a /\ i < n
        BY <2>7, <3>3
      <4>4. i = slot[a].nonce + 1
        BY <4>2, <4>3, EffectConsumes
      <4> QED BY <2>6, <2>7, <4>2, <4>3, <4>4
    <3> QED BY <3>1, <3>2, <3>3
  <2> QED BY <1>3, <2>9, <2>10, <2>11, <2>12, <2>13 DEF SenderInv
<1> QED BY <1>4, <1>5 DEF NewBlock
-----------------------------------------------------------------------------
(* The invariant, and the safety properties.                               *)

\* The invariant holds at the start.
LEMMA InitKeeps == ASSUME Init PROVE SenderInv
<1>1. mined \in Seq(Mined) /\ queue \in Seq(Acts) /\ DOMAIN mined = {}
  BY DEF Init
<1>2. NodeTypeOK /\ CallsTypeOK
  BY <1>1, SenderAssumption DEF Init, NodeTypeOK, CallsTypeOK, Labels, Unsure
<1>3. Slots /\ Chain /\ Covered /\ Effects /\ OneTransaction
  BY <1>1 DEF Init, Slots, InFlight, Chain, Covered, outstanding, Effects, OneTransaction
<1>4. Calls
  BY DEF Init, Calls, Called, InFlight, Landed, Unsure, Acts
<1> QED BY <1>2, <1>3, <1>4 DEF SenderInv

\* Every step but a block is Fine.
LEMMA EveryStep ==
    ASSUME SenderInv, ~Redelivered, [Next]_vars
    PROVE  Fine \/ NewBlock \/ UNCHANGED vars
<1>1. ASSUME NEW a \in Acts,
             \/ Call(a) \/ Plan(a) \/ SendStarts(a) \/ ReleaseDeadSlot(a) \/ AssignNonce(a)
             \/ Broadcast(a) \/ SeeReceipt(a) \/ WaitDead(a) \/ WaitTimesOut(a) \/ WaitPass(a)
      PROVE  Fine
  BY <1>1, CallFine, PlanFine, SendStartsFine, ReleaseDeadSlotFine, AssignNonceFine, BroadcastFine,
     SeeReceiptFine, WaitDeadFine, WaitTimesOutFine, WaitPassFine
<1>2. ASSUME NEW a \in Guarded, GuardResolves(a) \/ Rescue(a) PROVE Fine
  BY <1>2, GuardResolvesFine, RescueFine
<1>3. ASSUME Arrives \/ Evict PROVE Fine
  BY <1>3, NodeMovesFine
<1>4. ASSUME RecordExpires PROVE Fine
  <2>1. PICK a \in Acts : TRUE
    <3>1. lastNonce.tx \in Tx
      BY <1>4 DEF RecordExpires, SenderInv, CallsTypeOK, Record
    <3> QED BY <3>1 DEF Tx
  <2> QED BY <1>4, RecordExpiresFine
<1> QED BY <1>1, <1>2, <1>3, <1>4 DEF Next

\* Every step keeps the invariant.
LEMMA StepKeeps == ASSUME SenderInv, ~Redelivered, [Next]_vars PROVE SenderInv'
<1>1. CASE Fine
  BY <1>1 DEF Fine
<1>2. CASE NewBlock
  BY <1>2, NewBlockKeeps
<1>3. CASE UNCHANGED vars
  BY <1>3 DEF vars, node, SenderInv, NodeTypeOK, CallsTypeOK, Slots, SlotGood, InFlight, Chain, Covered,
     Cover, outstanding, consumed, Effects, Calls, Called, OneTransaction
<1> QED BY <1>1, <1>2, <1>3, EveryStep

\* What the sender relies on always holds: every transaction outstanding is its slot's, every effect
\* is its slot's or known to its caller.
THEOREM SenderInvHolds == ~Redelivered => (Spec => []SenderInv)
<1> SUFFICES ASSUME ~Redelivered PROVE Spec => []SenderInv
  OBVIOUS
<1>1. Init => SenderInv
  BY InitKeeps
<1>2. SenderInv /\ [Next]_vars => SenderInv'
  BY StepKeeps
<1> QED BY <1>1, <1>2, PTL DEF Spec

\* Nothing the node may mine of an action escapes its slot.
LEMMA LiveInSlot ==
    ASSUME SenderInv, NEW a \in Guarded, NEW t \in live(a)
    PROVE  InFlight(a) /\ t.nonce = slot[a].nonce
<1>1. t \in pool \cup wire /\ t.act = a /\ t.kind = "action" /\ ~consumed(t.nonce)
  BY DEF live
<1>2. InFlight(a) /\ t \in slot[a].txs
  BY <1>1 DEF SenderInv, Covered, Cover, outstanding
<1> QED BY <1>2 DEF SenderInv, Slots, SlotGood, GoodSlot, Acts

\* The transactions of one fill or claim that a node may still mine share one nonce: a send, a
\* replacement and a re-broadcast never sign a second one while the first is unsettled.
THEOREM SenderKeepsOneSlot == ~Redelivered => (Spec => []OneSlot)
<1>1. SenderInv => OneSlot
  BY LiveInSlot DEF OneSlot
<1> QED BY <1>1, SenderInvHolds, PTL

\* A fill or claim that may still land is awaited or in the inDoubt map.
THEOREM SenderFollowsLive == ~Redelivered => (Spec => []FollowsLive)
<1>1. SenderInv => FollowsLive
  BY LiveInSlot DEF FollowsLive, InFlight
<1> QED BY <1>1, SenderInvHolds, PTL

\* An award delivered twice is one transaction: once an action took effect, no later transaction of
\* the key performs it again.
THEOREM SenderSendsOnce == ~Redelivered => (Spec => []OneTransaction)
<1>1. SenderInv => OneTransaction
  BY DEF SenderInv
<1> QED BY <1>1, SenderInvHolds, PTL
-----------------------------------------------------------------------------
(* The sender implements Payment.                                          *)

\* An action not in flight, or whose slot's nonce is used, has nothing a node may mine.
Quiet == \A a \in Guarded : (InFlight(a) => consumed(slot[a].nonce)) => live(a) = {}
\* Once the nonce of an action in flight is spent nothing of it is live.
LEMMA InvQuiet == SenderInv => Quiet
  BY NothingLive DEF Quiet

stateOf(a) == IF effect(a, time) THEN "landed" ELSE IF live(a) # {} THEN "open" ELSE "clear"
toldOf(a) == IF told[a] \in Landed THEN "confirmed" ELSE IF told[a] \in Dead THEN "dead" ELSE "unknown"

\* The mapped state is one of Payment.
LEMMA PaymentTyped ==
    /\ paymentState = [a \in Guarded |-> stateOf(a)] /\ paymentTold = [a \in Guarded |-> toldOf(a)]
    /\ paymentState \in [Guarded -> {"clear", "open", "landed"}]
    /\ paymentTold \in [Guarded -> {"unknown", "confirmed", "dead"}]
  BY DEF paymentState, paymentTold, stateOf, toldOf, Dead

\* One action's step of Payment, in the sender's terms.
Pays(a) ==
    \/ stateOf(a) = "clear" /\ stateOf(a)' = "open" /\ toldOf(a)' = "unknown"
    \/ stateOf(a) = "open" /\ stateOf(a)' = "landed" /\ toldOf(a)' = toldOf(a)
    \/ stateOf(a) = "open" /\ stateOf(a)' = "clear" /\ toldOf(a)' = toldOf(a)
    \/ /\ stateOf(a)' = stateOf(a)
       /\ \/ stateOf(a) = "landed" /\ toldOf(a)' = "confirmed"
          \/ stateOf(a) = "clear" /\ toldOf(a)' = "dead"
          \/ toldOf(a)' = "unknown"
          \/ toldOf(a)' = toldOf(a)

\* A step in which every action pays as it may is a step of Payment.
LEMMA PaysIsPayment == ASSUME \A a \in Guarded : Pays(a) PROVE P!Next
<1>1. PaymentTyped'
  BY PaymentTyped, PTL
<1> QED BY PaymentTyped, <1>1 DEF P!Next, P!Send, P!Land, P!Die, P!Tell, P!Ask, P!Stay, Pays

\* A fine step is one of Payment for every guarded action.
LEMMA FinePays == ASSUME SenderInv, Fine, NEW a \in Guarded PROVE Pays(a)
<1>1. SenderInv' /\ Move(a) /\ effect(a, time)' = effect(a, time)
  BY DEF Fine, effect
<1>2. Quiet /\ Quiet'
  BY <1>1, InvQuiet, PTL
<1>3. InFlight(a) => told[a] \in Unsure
  BY DEF SenderInv, Calls, Called
<1>4. InFlight(a)' => told'[a] \in Unsure
  BY <1>1 DEF SenderInv, Calls, Called
<1>5. Landed \cap Dead = {} /\ Unsure \cap (Landed \cup Dead) = {}
  BY DEF Landed, Dead, Unsure
<1>6. CASE InFlight(a) /\ InFlight(a)'
  <2>1. toldOf(a) = "unknown" /\ toldOf(a)' = "unknown"
    BY <1>3, <1>4, <1>5, <1>6 DEF toldOf
  <2> QED BY <1>1, <2>1 DEF Pays, stateOf
<1>7. CASE ~InFlight(a) /\ InFlight(a)'
  <2>1. toldOf(a)' = "unknown"
    BY <1>4, <1>5, <1>7 DEF toldOf
  <2>2. live(a) = {}
    BY <1>2, <1>7 DEF Quiet
  <2> QED BY <1>1, <2>1, <2>2 DEF Pays, stateOf
<1>8. CASE ~InFlight(a)'
  <2>1. live(a)' = {}
    BY <1>2, <1>8 DEF Quiet
  <2>2. live(a) = {}
    BY <1>1, <1>2, <1>8 DEF Quiet, Move
  <2>3. stateOf(a)' = stateOf(a) /\ stateOf(a) = IF effect(a, time) THEN "landed" ELSE "clear"
    BY <1>1, <2>1, <2>2 DEF stateOf
  <2>4. \/ told'[a] = told[a] \/ told'[a] \in Unsure
        \/ told'[a] \in Landed /\ effect(a, time)
        \/ told'[a] \in Dead /\ ~effect(a, time)
    BY <1>1, <1>8 DEF Move
  <2> QED BY <1>5, <2>3, <2>4 DEF Pays, toldOf
<1> QED BY <1>6, <1>7, <1>8

\* A new block is a step of Payment for every guarded action.
LEMMA NewBlockPays == ASSUME SenderInv, NewBlock, NEW a \in Guarded PROVE Pays(a)
<1>1. UNCHANGED told /\ toldOf(a)' = toldOf(a)
  BY DEF NewBlock, sender, toldOf
<1>2. time \in Nat /\ time' \in Nat /\ time <= time'
  BY SenderAssumption DEF NewBlock, SenderInv, NodeTypeOK
<1>3. ASSUME effect(a, time) PROVE effect(a, time)'
  <2>1. PICK i \in DOMAIN mined : mined[i].tx.act = a /\ mined[i].ok /\ mined[i].at <= time
    BY <1>3 DEF effect
  <2>2. mined[i].at \in Nat
    BY MinedTyped DEF SenderInv
  <2>3. i \in DOMAIN mined' /\ mined'[i] = mined[i]
    <3>1. CASE mined' = mined
      BY <3>1
    <3>2. CASE \E tx \in next : mined' = Append(mined, mine(tx))
      BY <1>2, <3>2, Mines DEF next, SenderInv, NodeTypeOK
    <3> QED BY <3>1, <3>2 DEF NewBlock
  <2> QED BY <1>2, <2>1, <2>2, <2>3 DEF effect
<1>4. ASSUME effect(a, time)', ~effect(a, time) PROVE live(a) # {}
  <2>1. PICK i \in DOMAIN mined' : mined'[i].tx.act = a /\ mined'[i].ok
    BY <1>4 DEF effect
  <2>2. i \notin DOMAIN mined \/ mined'[i] # mined[i]
    BY <1>4, <2>1 DEF effect, SenderInv, Chain
  <2>3. PICK tx \in next : mined' = Append(mined, mine(tx))
    BY <2>1, <2>2 DEF NewBlock
  <2>4. mined'[i] = mine(tx)
    BY <1>2, <2>1, <2>2, <2>3, Mines DEF next, SenderInv, NodeTypeOK
  <2> DEFINE m == mine(tx)
  <2>5. m.tx = tx /\ (m.ok => tx.kind = "action")
    BY DEF mine
  <2> HIDE DEF m
  <2>6. tx.act = a /\ tx.kind = "action"
    BY <2>1, <2>4, <2>5 DEF m
  <2> QED BY <2>6, NextIsCovered
<1>5. live(a)' \subseteq live(a)
  <2>1. pool' \subseteq pool /\ wire' \subseteq wire
    BY DEF NewBlock
  <2>2. \A k \in Int : consumed(k) => consumed(k)'
    <3>1. CASE mined' = mined
      BY <3>1 DEF consumed
    <3>2. CASE \E tx \in next : mined' = Append(mined, mine(tx))
      BY <1>2, <3>2, Mines DEF next, consumed, SenderInv, NodeTypeOK
    <3> QED BY <3>1, <3>2 DEF NewBlock
  <2>3. \A t \in pool \cup wire : t.nonce \in Int
    BY SenderAssumption DEF SenderInv, NodeTypeOK, Tx
  <2> QED BY <2>1, <2>2, <2>3 DEF live
<1> QED BY <1>1, <1>3, <1>4, <1>5 DEF Pays, stateOf

\* Every step is a step of Payment or leaves it alone.
LEMMA StepPays == ASSUME SenderInv, ~Redelivered, [Next]_vars PROVE [P!Next]_(P!vars)
<1>1. CASE Fine
  BY <1>1, FinePays, PaysIsPayment
<1>2. CASE NewBlock
  BY <1>2, NewBlockPays, PaysIsPayment
<1>3. CASE UNCHANGED vars
  BY <1>3 DEF vars, node, P!vars, paymentState, paymentTold, effect, live, consumed
<1> QED BY <1>1, <1>2, <1>3, EveryStep

\* The sender implements Payment: what it answers its callers is so, and it sends nothing while
\* something sent earlier can still land.
THEOREM SenderImplementsPayment == ~Redelivered => (Spec => ImplementsPayment)
<1> SUFFICES ASSUME ~Redelivered PROVE Spec => P!Spec
  BY DEF ImplementsPayment
<1>1. Init => P!Init
  <2> SUFFICES ASSUME Init PROVE P!Init
    OBVIOUS
  <2>1. \A a \in Guarded : /\ ~effect(a, time) /\ live(a) = {}
                           /\ told[a] \notin Landed \cup {"not_sent", "reverted"}
    BY DEF Init, effect, live, Landed, Acts
  <2> QED BY <2>1 DEF P!Init, paymentState, paymentTold
<1>2. SenderInv /\ [Next]_vars => [P!Next]_(P!vars)
  BY StepPays
<1> QED BY <1>1, <1>2, SenderInvHolds, PTL DEF Spec, P!Spec

=============================================================================
