------------------------------ MODULE TxSender ------------------------------
(***************************************************************************)
(* The escrow gateway's transaction sender (solver-sdk/src/tx-sender.ts)   *)
(* for one `${chainId}:${address}` key: the send queue, the nonce record,  *)
(* the slots left in doubt, same-nonce replacement, the self-transfer that *)
(* frees a dead slot, and the guard that follows a slot before the action  *)
(* is sent again.  The node is external: a chain that mines the key's      *)
(* transactions in nonce order, a pool holding one transaction per nonce,  *)
(* broadcasts whose answer is lost and which may arrive late, backends     *)
(* that lag.  A transaction stands for its hash and its bytes: signatures  *)
(* are deterministic.                                                      *)
(***************************************************************************)
EXTENDS Integers, Sequences, FiniteSets

CONSTANTS
    Guarded,     \* fills and claims: a landBy, recorded under an inDoubtKey
    Plain,       \* approvals and bond calls: neither
    LandBy,      \* [Guarded -> Nat]: first chain second it can no longer land
    Market,      \* the fees a market read may answer
    AfterBlocks, \* replaceInDoubtAfterBlocks
    AfterPasses, \* replaceInDoubtAfterPasses
    WithinSec,   \* replaceInDoubtWithinSec
    Redelivered, \* whether a fill seen landed is asked for again
    MaxTime,     \* bound: the chain's last block time
    MaxNonce,    \* bound: the last nonce assigned
    MaxFaults    \* bound: lost answers, refusals for funds and evictions

Acts == Guarded \cup Plain

ASSUME SenderAssumption ==
    /\ Guarded \cap Plain = {}
    /\ LandBy \in [Guarded -> Nat]
    /\ Market \subseteq Nat /\ Redelivered \in BOOLEAN
    /\ AfterBlocks \in Nat /\ AfterPasses \in Nat /\ WithinSec \in Nat
    /\ MaxTime \in Nat /\ MaxNonce \in Nat /\ MaxFaults \in Nat

VARIABLES
    \* the chain and its node
    time,      \* number and timestamp of the latest block
    mined,     \* the key's mined transactions: the one with nonce n is mined[n + 1]
    pool,      \* transactions a node holds, one per nonce
    wire,      \* broadcasts whose answer was lost, possibly still under way
    faults,    \* faults used so far
    \* the sender
    queue,     \* sendQueues: the actions waiting for the key, the runner first
    lastNonce, \* NonceRecord, or NoRecord
    slot,      \* InDoubtSend of each action's latest send, or NoSlot
    inDoubt,   \* the actions whose slot the inDoubt map holds
    \* the callers
    pc,        \* where each action's call is
    nonce,     \* the nonce assigned to the send at the queue's head
    todo,      \* dead slots still to be released by that send
    landed,    \* fills this gateway saw confirm (OnchainEscrowGateway.landed)
    told       \* ghost: the last outcome the caller was given

node == <<time, mined, pool, wire, faults>>
vars == <<node, queue, lastNonce, slot, inDoubt, pc, nonce, todo, landed, told>>

Tx == [act : Acts, nonce : 0..MaxNonce, fee : Nat, kind : {"action", "cancel"}]
NoTx == [act |-> "none"]
NoRecord == [nonce |-> -1]
NoSlot == [nonce |-> -1]
Never == MaxTime + 1

landBy(a) == IF a \in Guarded THEN LandBy[a] ELSE Never
-----------------------------------------------------------------------------
(* The node.                                                               *)

isMined(tx) == \E i \in DOMAIN mined : mined[i].tx = tx
consumed(n) == n < Len(mined)
usedAt(n, b) == consumed(n) /\ mined[n + 1].at <= b \* the count as of block b is past n

(* The action's own result on chain, as of block b.                        *)
effect(a, b) == \E i \in DOMAIN mined : /\ mined[i].tx.act = a /\ mined[i].ok
                                        /\ mined[i].at <= b

(* A read without a block tag may come from a backend that lags: it misses *)
(* what is there, and never shows what is not.                             *)
isDoneReads(a) == {FALSE} \cup {effect(a, time)}
receiptReads(txs) == {[ok |-> FALSE, tx |-> NoTx]} \cup
    {[ok |-> mined[i].ok, tx |-> mined[i].tx] : i \in {j \in DOMAIN mined : mined[j].tx \in txs}}
found(receipt) == receipt.tx # NoTx
txStateReads(tx) == {"none"} \cup {s \in {"mined"} : isMined(tx)}
                             \cup {s \in {"pending"} : tx \in pool}

(* The pending count: past every mined nonce and the pool's unbroken run   *)
(* of nonces after them; a lagging backend misses the last of it.          *)
held(n) == n < Len(mined) \/ \E t \in pool : t.nonce = n
pendingCount == CHOOSE n \in 0..(MaxNonce + 1) :
                   /\ \A k \in 0..(n - 1) : held(k)
                   /\ n = MaxNonce + 1 \/ ~held(n)
pendingReads == {pendingCount} \cup ({pendingCount - 1} \cap Nat)

sameNonce(tx) == {t \in pool : t.nonce = tx.nonce}
takes(tx) == /\ ~consumed(tx.nonce) /\ tx \notin pool
             /\ \A t \in sameNonce(tx) : t.fee < tx.fee

(* `broadcastTransaction(raw)` and what it answers: accepted, an ambiguous *)
(* failure (lost), already known, or one of the definite refusals.         *)
broadcast(tx, answer) ==
    \/ /\ answer = "ok" /\ takes(tx)
       /\ pool' = (pool \ sameNonce(tx)) \cup {tx}
       /\ UNCHANGED <<time, mined, wire, faults>>
    \/ /\ answer = "lost" /\ faults < MaxFaults
       /\ wire' = wire \cup {tx} /\ faults' = faults + 1
       /\ UNCHANGED <<time, mined, pool>>
    \/ /\ answer = "known" /\ tx \in pool
       /\ UNCHANGED node
    \/ /\ answer = "expired" /\ consumed(tx.nonce)
       /\ UNCHANGED node
    \/ /\ answer = "underpriced" /\ ~consumed(tx.nonce)
       /\ \E t \in sameNonce(tx) : t # tx /\ t.fee >= tx.fee
       /\ UNCHANGED node
    \/ /\ answer = "broke" /\ ~consumed(tx.nonce) /\ tx \notin pool /\ faults < MaxFaults
       /\ faults' = faults + 1
       /\ UNCHANGED <<time, mined, pool, wire>>

Answers == {"ok", "lost", "known", "expired", "underpriced", "broke"}
(* Mutant: a broadcast whose answer was lost is taken for a refusal.       *)
definitelyRejected_Lost(answer) == answer \in {"expired", "underpriced", "broke", "lost"}
definitelyRejected(answer) == answer \in {"expired", "underpriced", "broke"}
-----------------------------------------------------------------------------
(* Fees.                                                                   *)

max(x, y) == IF x > y THEN x ELSE y
REPLACEMENT_FEE_CAP_MULTIPLE == 4
bumpFee(paid, floor) ==
    LET raised == (paid * 9 + 7) \div 8
    IN max(IF raised > paid THEN raised ELSE paid + 1, floor)
feeCap(s, market) == REPLACEMENT_FEE_CAP_MULTIPLE * max(s.originalFee, market)
-----------------------------------------------------------------------------
(* The slot of a send and the record of the key's last broadcast.          *)

newSlot(tx) == [nonce |-> tx.nonce, txs |-> {tx}, latest |-> tx, originalFee |-> tx.fee,
                passes |-> 0, head |-> -1, missed |-> 0, cancel |-> NoTx, released |-> FALSE]

(* Kept unless a later nonce is recorded; the expiry of a prior record is  *)
(* inherited, so steady traffic cannot keep a gap open forever.            *)
recordBroadcast(record, tx, by) ==
    IF record # NoRecord /\ record.nonce > tx.nonce THEN record
    ELSE [nonce |-> tx.nonce, tx |-> tx, landBy |-> by,
          expired |-> record # NoRecord /\ record.expired]

recordIf(answer, tx, by) ==
    lastNonce' = IF answer = "ok" THEN recordBroadcast(lastNonce, tx, by) ELSE lastNonce

(* Re-broadcast the latest signing: same bytes, same hash.                 *)
rebroadcast(a) ==
    \E answer \in Answers : /\ broadcast(slot[a].latest, answer)
                            /\ recordIf(answer, slot[a].latest, landBy(a))

(* Re-sign at the same nonce with a bumped fee, adopted unless it would    *)
(* pass the cap or the node refuses it outright.                           *)
replacement(s, m) == [s.latest EXCEPT !.fee = bumpFee(s.latest.fee, m)]
replaceAtSameNonce(a, m, answer, s) ==
    LET tx == replacement(s, m)
    IN /\ tx.fee <= feeCap(s, m)
       /\ broadcast(tx, answer)
       /\ recordIf(answer, tx, landBy(a))
       /\ ~definitelyRejected(answer)
       /\ slot' = [slot EXCEPT ![a] = [s EXCEPT !.latest = tx, !.txs = @ \cup {tx},
                                               !.passes = 0, !.missed = 0]]
replaceRefused(s, m) ==
    LET tx == replacement(s, m)
    IN \/ tx.fee > feeCap(s, m)
       \/ consumed(tx.nonce)
       \/ \E t \in sameNonce(tx) : t # tx /\ t.fee >= tx.fee
       \/ faults < MaxFaults \* refused for funds

(* Free a slot past its landBy with a self-transfer at the same nonce,     *)
(* signed once and broadcast on every call; `out` says that a node is      *)
(* shown to hold it.                                                       *)
cancelTx(s, m) == [act |-> s.latest.act, nonce |-> s.nonce,
                   fee |-> bumpFee(s.latest.fee, m), kind |-> "cancel"]
releaseSlot(a, out) ==
    \E m \in Market, answer \in Answers :
        LET s == slot[a]
            tx == IF s.cancel = NoTx THEN cancelTx(s, m) ELSE s.cancel
        IN /\ broadcast(tx, answer)
           /\ \/ answer = "expired" /\ ~out
                 /\ slot' = [slot EXCEPT ![a].cancel = tx, ![a].released = TRUE]
                 /\ UNCHANGED lastNonce
              \/ answer \in {"underpriced", "broke"} /\ ~out
                 /\ slot' = [slot EXCEPT ![a].cancel = NoTx]
                 /\ UNCHANGED lastNonce
              \/ /\ answer \in {"ok", "lost", "known"}
                 /\ slot' = [slot EXCEPT ![a].cancel = tx]
                 /\ \E r \in txStateReads(tx) : out <=> (answer = "ok" \/ r # "none")
                 /\ lastNonce' = IF out THEN recordBroadcast(lastNonce, tx, Never)
                                        ELSE lastNonce
-----------------------------------------------------------------------------
Init ==
    /\ time = 0 /\ mined = <<>> /\ pool = {} /\ wire = {} /\ faults = 0
    /\ queue = <<>> /\ lastNonce = NoRecord
    /\ slot = [a \in Acts |-> NoSlot] /\ inDoubt = {}
    /\ pc = [a \in Acts |-> "idle"] /\ nonce = 0 /\ todo = {}
    /\ landed = {}
    /\ told = [a \in Acts |-> "none"]

goto(a, label) == pc' = [pc EXCEPT ![a] = label]
tell(a, outcome) == told' = [told EXCEPT ![a] = outcome]
Landed == {"confirmed", "already"}

(* A caller asks for the action: `fill` (refused from the gateway's own    *)
(* record once it saw the fill confirm, and while one is running), `claim` *)
(* from the claim loop, or `ensureAllowance`.                              *)
(* Mutant: an earlier send still in doubt is not followed first.           *)
Call_Unguarded(a) ==
    /\ pc[a] = "idle" /\ a \notin landed
    /\ Redelivered \/ told[a] \notin Landed
    /\ goto(a, "plan")
    /\ tell(a, "none")
    /\ UNCHANGED <<node, queue, lastNonce, slot, inDoubt, nonce, todo, landed>>
Call(a) ==
    /\ pc[a] = "idle" /\ a \notin landed
    /\ Redelivered \/ told[a] \notin Landed
    /\ goto(a, IF a \in inDoubt THEN "guard" ELSE "plan")
    /\ tell(a, "none")
    /\ UNCHANGED <<node, queue, lastNonce, slot, inDoubt, nonce, todo, landed>>

(* guardInDoubt, first half: resolveSlot reads the nonce at one block b,   *)
(* then the receipts, then the effect at b, then the receipts once more.   *)
dropSlot(a) == slot' = [slot EXCEPT ![a] = NoSlot] \* unreachable once answered
landedAs(a, receipt) == IF receipt.ok THEN "confirmed" ELSE "reverted"
(* Mutant: a consumed nonce without a receipt is taken for a dead send.    *)
resolveSlot_NoEffect(a, b, first, again) ==
    IF found(first) THEN landedAs(a, first)
    ELSE IF ~usedAt(slot[a].nonce, b) THEN "in_doubt"
    ELSE IF found(again) THEN landedAs(a, again) ELSE "not_sent"
resolveSlot(a, b, first, again) ==
    IF found(first) THEN landedAs(a, first)
    ELSE IF ~usedAt(slot[a].nonce, b) \/ effect(a, b) THEN "in_doubt"
    ELSE IF found(again) THEN landedAs(a, again) ELSE "not_sent"

GuardResolves(a) ==
    /\ pc[a] = "guard"
    /\ \E b \in 0..time, first, again \in receiptReads(slot[a].txs) :
         LET resolved == resolveSlot(a, b, first, again)
         IN \/ /\ resolved = "confirmed"
               /\ inDoubt' = inDoubt \ {a} /\ dropSlot(a) /\ goto(a, "idle") /\ tell(a, "already")
            \/ /\ resolved \in {"reverted", "not_sent"}
               /\ inDoubt' = inDoubt \ {a} /\ dropSlot(a) /\ goto(a, "plan") /\ tell(a, resolved)
            \/ /\ resolved = "in_doubt"
               /\ \E done \in isDoneReads(a) :
                    \/ /\ done
                       /\ inDoubt' = inDoubt \ {a} /\ dropSlot(a) /\ goto(a, "idle") /\ tell(a, "already")
                    \/ /\ ~done
                       /\ goto(a, "rescue") /\ UNCHANGED <<slot, inDoubt, told>>
    /\ UNCHANGED <<node, queue, lastNonce, nonce, todo, landed>>

(* Second half: rescue, then refuse "in_doubt".                            *)
due(s, a) == s.passes >= AfterPasses \/ LandBy[a] - time <= WithinSec

Rescue(a) ==
    /\ pc[a] = "rescue"
    /\ \/ time >= LandBy[a] /\ \E out \in BOOLEAN : releaseSlot(a, out)
       \/ /\ time < LandBy[a]
          /\ LET s == [slot[a] EXCEPT !.passes = IF @ < AfterPasses THEN @ + 1 ELSE @]
             IN \/ /\ due(s, a)
                   /\ \E m \in Market, answer \in Answers : replaceAtSameNonce(a, m, answer, s)
                \/ /\ ~due(s, a) \/ \E m \in Market : replaceRefused(s, m)
                   /\ slot' = [slot EXCEPT ![a] = s]
                   /\ rebroadcast(a)
    /\ goto(a, "idle") /\ tell(a, "in_doubt")
    /\ UNCHANGED <<queue, inDoubt, nonce, todo, landed>>

(* Past the guard: refused when it can no longer land, or when a read      *)
(* shows it done; else it waits for the key.                               *)
Plan(a) ==
    /\ pc[a] = "plan"
    /\ \/ /\ time >= landBy(a) \/ effect(a, time)
          /\ goto(a, "idle") /\ UNCHANGED queue
          /\ IF time < landBy(a) THEN tell(a, "already") ELSE UNCHANGED told
       \/ /\ time < landBy(a) /\ FALSE \in isDoneReads(a)
          /\ queue' = Append(queue, a) /\ goto(a, "queued") /\ UNCHANGED told
    /\ UNCHANGED <<node, lastNonce, slot, inDoubt, nonce, todo, landed>>
-----------------------------------------------------------------------------
(* `send`: serialized by the key's queue through its broadcast.            *)

atHead(a) == queue # <<>> /\ Head(queue) = a

(* recheck and the simulation, which may refuse; then the dead slots.      *)
SendStarts(a) ==
    /\ pc[a] = "queued" /\ atHead(a)
    /\ \/ /\ goto(a, "idle") /\ queue' = Tail(queue)
          /\ UNCHANGED todo
       \/ /\ time < landBy(a)
          /\ goto(a, "release")
          /\ todo' = {b \in inDoubt : ~slot[b].released /\ time >= LandBy[b]}
          /\ UNCHANGED queue
    /\ UNCHANGED <<node, lastNonce, slot, inDoubt, nonce, landed, told>>

(* releaseDeadSlots: nothing sent after an unmined slot can land before it.*)
ReleaseDeadSlot(a) ==
    /\ pc[a] = "release" /\ atHead(a)
    /\ \E b \in todo :
         /\ todo' = todo \ {b}
         /\ IF b \in inDoubt THEN \E out \in BOOLEAN : releaseSlot(b, out)
                            ELSE UNCHANGED <<node, lastNonce, slot>> \* its nonce is consumed
    /\ UNCHANGED <<queue, inDoubt, pc, nonce, landed, told>>

(* assignNonce: the pending count, or one past the recorded broadcast while*)
(* the count does not show it and it still occupies its nonce.             *)
recordExpired(r) == r.expired \/ time >= r.landBy
assign(a, n) == n <= MaxNonce /\ nonce' = n /\ goto(a, "send")

AssignNonce(a) ==
    /\ pc[a] = "release" /\ atHead(a) /\ todo = {}
    /\ \E count \in pendingReads :
         \/ /\ lastNonce = NoRecord \/ count > lastNonce.nonce
            /\ lastNonce' = NoRecord /\ assign(a, count) /\ UNCHANGED node
         \/ /\ lastNonce # NoRecord /\ count <= lastNonce.nonce
            /\ \E state \in txStateReads(lastNonce.tx) :
                 \/ /\ state = "mined" \/ (state = "pending" /\ ~recordExpired(lastNonce))
                    /\ assign(a, lastNonce.nonce + 1) /\ UNCHANGED <<node, lastNonce>>
                 \/ /\ state = "none" /\ ~recordExpired(lastNonce)
                    /\ \E answer \in Answers :
                         /\ broadcast(lastNonce.tx, answer)
                         /\ \E again \in txStateReads(lastNonce.tx) :
                              IF \/ answer \in {"ok", "expired", "underpriced", "known"}
                                 \/ ~definitelyRejected(answer) /\ again # "none"
                              THEN assign(a, lastNonce.nonce + 1) /\ UNCHANGED lastNonce
                              ELSE assign(a, count) /\ lastNonce' = NoRecord
                 \/ /\ state # "mined" /\ recordExpired(lastNonce)
                    /\ lastNonce' = NoRecord /\ assign(a, count) /\ UNCHANGED node
    /\ UNCHANGED <<queue, slot, inDoubt, todo, landed, told>>

(* Populate, sign, broadcast, leave the queue.  Only an accepted broadcast *)
(* is recorded; a definite refusal is answered not_sent.                   *)
Broadcast(a) ==
    /\ pc[a] = "send" /\ atHead(a)
    /\ \E m \in Market, answer \in Answers :
         LET tx == [act |-> a, nonce |-> nonce, fee |-> m, kind |-> "action"]
         IN /\ broadcast(tx, answer)
            /\ recordIf(answer, tx, landBy(a))
            /\ IF definitelyRejected(answer)
               THEN dropSlot(a) /\ goto(a, "idle") /\ tell(a, "not_sent")
               ELSE /\ slot' = [slot EXCEPT ![a] = newSlot(tx)]
                    /\ goto(a, "wait") /\ tell(a, "none")
    /\ queue' = Tail(queue) /\ nonce' = 0
    /\ UNCHANGED <<inDoubt, todo, landed>>
-----------------------------------------------------------------------------
(* awaitReceipt, outside the queue.                                        *)

(* Mutant: a send left unconfirmed is forgotten.                           *)
giveUp_Forgets(a, outcome) == goto(a, "idle") /\ tell(a, outcome) /\ UNCHANGED inDoubt
giveUp(a, outcome) ==
    /\ goto(a, "idle") /\ tell(a, outcome)
    /\ inDoubt' = IF a \in Guarded THEN inDoubt \cup {a} ELSE inDoubt

SeeReceipt(a) ==
    /\ pc[a] = "wait"
    /\ \E receipt \in receiptReads(slot[a].txs) :
         /\ found(receipt)
         /\ tell(a, landedAs(a, receipt))
         /\ landed' = IF receipt.ok /\ a \in Guarded THEN landed \cup {a} ELSE landed
    /\ goto(a, "idle") /\ dropSlot(a)
    /\ UNCHANGED <<node, queue, lastNonce, inDoubt, nonce, todo>>

(* The head is at or past landBy and no receipt is served: free the slot.  *)
WaitDead(a) ==
    /\ pc[a] = "wait" /\ time >= landBy(a)
    /\ \E out \in BOOLEAN :
         /\ releaseSlot(a, out)
         /\ giveUp(a, IF out THEN "cancelled" ELSE "in_doubt")
    /\ UNCHANGED <<queue, nonce, todo, landed>>

(* receiptTimeoutMs has passed.                                            *)
WaitTimesOut(a) ==
    /\ pc[a] = "wait"
    /\ giveUp(a, "in_doubt")
    /\ IF a \in Guarded THEN UNCHANGED slot ELSE dropSlot(a)
    /\ UNCHANGED <<node, queue, lastNonce, nonce, todo, landed>>

(* Another pass: a new head may leave the slot out, which re-signs it when *)
(* it is underpriced or was left out for AfterBlocks; else its bytes are   *)
(* re-sent when the node's lookup does not show them.                      *)
sawHead(s) == [s EXCEPT !.head = time, !.missed = IF s.head = -1 THEN @ ELSE @ + time - s.head]
stuck(s, m) == s.latest.fee < m \/ s.missed >= AfterBlocks

WaitPass(a) ==
    /\ pc[a] = "wait" /\ time < landBy(a)
    /\ LET s == IF a \in Guarded THEN sawHead(slot[a]) ELSE slot[a]
           newBlock == a \in Guarded /\ slot[a].head # -1 /\ time > slot[a].head
       IN \/ /\ newBlock
             /\ \E m \in Market, answer \in Answers :
                  stuck(s, m) /\ replaceAtSameNonce(a, m, answer, s)
          \/ /\ ~newBlock \/ \E m \in Market : ~stuck(s, m) \/ replaceRefused(s, m)
             /\ slot' = [slot EXCEPT ![a] = s]
             /\ \/ "none" \in txStateReads(s.latest) /\ rebroadcast(a)
                \/ \E state \in txStateReads(s.latest) : state # "none" /\ UNCHANGED <<node, lastNonce>>
    /\ UNCHANGED <<queue, inDoubt, pc, nonce, todo, landed, told>>
-----------------------------------------------------------------------------
(* The node moves on its own.                                              *)

sender == <<queue, lastNonce, slot, inDoubt, pc, nonce, todo, landed, told>>

(* A block, with or without the key's next transaction.  An action takes   *)
(* effect while the block is before its landBy, and once.                  *)
mine(tx) == [tx |-> tx, at |-> time',
             ok |-> tx.kind = "action" /\ time' < landBy(tx.act) /\ ~effect(tx.act, time)]
next == {t \in pool : t.nonce = Len(mined)}

NewBlock ==
    /\ time' = IF time < MaxTime THEN time + 1 ELSE time
    /\ \/ time < MaxTime /\ UNCHANGED <<mined, pool, wire>>
       \/ \E tx \in next :
            /\ mined' = Append(mined, mine(tx))
            /\ pool' = pool \ {tx}
            /\ wire' = {t \in wire : t.nonce # tx.nonce}
    /\ UNCHANGED <<faults, sender>>

(* A broadcast whose answer was lost reaches the node after all.           *)
Arrives ==
    /\ \E tx \in wire :
         /\ wire' = wire \ {tx}
         /\ pool' = IF takes(tx) THEN (pool \ sameNonce(tx)) \cup {tx} ELSE pool
    /\ UNCHANGED <<time, mined, faults, sender>>

Evict ==
    /\ faults < MaxFaults /\ faults' = faults + 1
    /\ \E tx \in pool : pool' = pool \ {tx}
    /\ UNCHANGED <<time, mined, wire, sender>>

(* receiptTimeoutMs passed since the record chain began.                   *)
RecordExpires ==
    /\ lastNonce # NoRecord /\ ~lastNonce.expired
    /\ lastNonce' = [lastNonce EXCEPT !.expired = TRUE]
    /\ UNCHANGED <<node, queue, slot, inDoubt, pc, nonce, todo, landed, told>>

Next ==
    \/ \E a \in Acts :
         \/ Call(a) \/ Plan(a) \/ SendStarts(a) \/ ReleaseDeadSlot(a) \/ AssignNonce(a)
         \/ Broadcast(a) \/ SeeReceipt(a) \/ WaitDead(a) \/ WaitTimesOut(a) \/ WaitPass(a)
    \/ \E a \in Guarded : GuardResolves(a) \/ Rescue(a)
    \/ NewBlock \/ Arrives \/ Evict \/ RecordExpires

Spec == Init /\ [][Next]_vars
-----------------------------------------------------------------------------
(* The transactions of a that some node may yet mine.                      *)
live(a) == {t \in pool \cup wire : t.act = a /\ t.kind = "action" /\ ~consumed(t.nonce)}

(* Whatever was lost, replaced or cancelled, the transactions of one fill  *)
(* or claim that a node may still mine all compete for one nonce, so at    *)
(* most one of them can land (send and replaceAtSameNonce never sign a     *)
(* second nonce for an action whose first is unsettled).                   *)
OneSlot == \A a \in Guarded : \A t, u \in live(a) : t.nonce = u.nonce

(* A fill or claim that may still land is never forgotten: its caller is   *)
(* waiting for the receipt or the inDoubt map holds its slot, so the next  *)
(* call goes through guardInDoubt.                                         *)
FollowsLive == \A a \in Guarded : live(a) # {} => pc[a] = "wait" \/ a \in inDoubt

(* The header of escrow-gateway.ts: the same award delivered twice is one  *)
(* transaction.  Once an action took effect, no later transaction of the   *)
(* key spends gas on it again.                                             *)
OneTransaction ==
    \A a \in Guarded : \A i, j \in DOMAIN mined :
        mined[i].tx.act = a /\ mined[j].tx.act = a /\ mined[i].ok /\ mined[j].tx.kind = "action"
            => i >= j

(* The sender implements Payment: an answer of "confirmed" or "already"    *)
(* means the action landed, an answer of "not_sent" or "reverted" that     *)
(* nothing sent for it can land any more, and nothing is sent while        *)
(* something sent earlier can (send, guardInDoubt, resolveSlot).           *)
paymentState == [a \in Guarded |-> IF effect(a, time) THEN "landed"
                                   ELSE IF live(a) # {} THEN "open" ELSE "clear"]
paymentTold == [a \in Guarded |-> IF told[a] \in Landed THEN "confirmed"
                                  ELSE IF told[a] \in {"not_sent", "reverted"} THEN "dead"
                                  ELSE "unknown"]
P == INSTANCE Payment WITH Action <- Guarded, state <- paymentState, told <- paymentTold
(* The refinement above, as the property checked: every step of the sender *)
(* is a step of Payment or leaves it unchanged.                            *)
ImplementsPayment == P!Spec
=============================================================================
