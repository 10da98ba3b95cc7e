--------------------------- MODULE EscrowGateway ---------------------------
(***************************************************************************)
(* OnchainEscrowGateway (solver-sdk/src/escrow-gateway.ts): what one       *)
(* process signs, reserves, fills and claims for the orders it was         *)
(* awarded.  Its callers are the feed loop and one settle task per order.  *)
(* A transaction is what Payment promises of the sender below: it lands,   *)
(* or is dead, or is still open when its caller stops waiting.  The two    *)
(* chains, the contracts and the venue are external; one clock stands for  *)
(* the block times and the local clock, of which the code takes the later. *)
(***************************************************************************)
EXTENDS Integers, Sequences, FiniteSets, FiniteSetsExt

CONSTANTS
    Orders,       \* locks opened on the origin
    FillIds,      \* fills the venue may award; several may name one order
    OrderOf,      \* [FillIds -> Orders]
    Amount,       \* [FillIds -> Nat]: FillAuth.amount
    AcceptBy,     \* [FillIds -> Nat]: last moment an acceptance fits
    Deadline,     \* [FillIds -> Nat]: FillAuth.deadline
    RefundableAt, \* [Orders -> Nat]
    Inventory,    \* what the solver holds of the token at the start
    MaxTime,      \* bound: the last moment
    MaxFaults,    \* bound: failed reads, failed writes and lost transactions
    None

ASSUME GatewayAssumption ==
    /\ IsFiniteSet(FillIds)
    /\ OrderOf \in [FillIds -> Orders] /\ Amount \in [FillIds -> Nat]
    /\ AcceptBy \in [FillIds -> Nat] /\ Deadline \in [FillIds -> Nat]
    /\ RefundableAt \in [Orders -> Nat]
    /\ Inventory \in Nat /\ MaxTime \in Nat /\ MaxFaults \in Nat
    /\ None \notin FillIds \cup Orders /\ "feed" \notin Orders

VARIABLES
    \* the chains and the venue
    time, balance,
    paid,           \* fills on chain: `filled(fillId)`
    lock,           \* [Orders -> {"Open", "Claimed", "Refunded"}]
    fillTx,         \* fills with a transaction that may still land
    claimTx,        \* orders with a claim that may still land
    venueHolds,     \* fills whose acceptance the venue may hold
    faults,
    \* the gateway, process-local
    accepted,       \* [FillIds -> {"no", "restored", "signed"}]
    acceptedOrders, \* [Orders -> FillIds \cup {None}]
    accepting,      \* [Orders -> FillIds \cup {None}]
    owedFills,      \* accepted fills whose amount is held back
    acceptQueue,    \* acceptQueues: the callers waiting for the token, the holder first
    reserved,       \* what the holder read as owed to others
    filling, landed,
    inDoubt,        \* the sender's slots in doubt (TxSender)
    call            \* each caller's operation: where it is, its fill, what the file
                    \* held of its order when it began, its answer

chain == <<time, balance, paid, lock, fillTx, claimTx, venueHolds, faults>>
gateway == <<accepted, acceptedOrders, accepting, owedFills, acceptQueue, reserved,
             filling, landed, inDoubt>>

Callers == Orders \cup {"feed"}
NoCall == [pc |-> "off", f |-> None, own |-> FALSE, resume |-> FALSE, phase |-> None, res |-> None]
at(c, pc) == call[c].pc = pc
goto(c, pc) == call' = [call EXCEPT ![c].pc = pc, ![c].res = None]
answer(c, res) == call' = [call EXCEPT ![c].pc = "answered", ![c].res = res]

fault == faults < MaxFaults /\ faults' = faults + 1
noFault == UNCHANGED faults

(* A read of `filled` may come from a backend that lags.                   *)
filledReads(f) == {FALSE} \cup {(f \in paid)}
-----------------------------------------------------------------------------
(* accept                                                                  *)

requireOneFillPerOrder(f) == acceptedOrders[OrderOf[f]] \in {None, f}

(* Joins the acceptance of the same FillAuth in flight, refuses another    *)
(* fill of the order, re-posts what is signed, re-signs what was restored, *)
(* else takes a place in the token's queue.                                *)
Accept(c) ==
    LET f == call[c].f
        o == OrderOf[f]
        free == accepting[o] = None /\ requireOneFillPerOrder(f)
    IN /\ at(c, "accept")
       /\ \/ /\ accepting[o] = f
             /\ goto(c, "join") /\ UNCHANGED <<accepting, acceptQueue>>
          \/ /\ accepting[o] # f /\ ~free
             /\ answer(c, "refused") /\ UNCHANGED <<accepting, acceptQueue>>
          \/ /\ free /\ accepted[f] = "signed"
             /\ goto(c, "onSigned") /\ UNCHANGED <<accepting, acceptQueue>>
          \/ /\ free /\ accepted[f] # "signed"
             /\ accepting' = [accepting EXCEPT ![o] = f]
             /\ IF call[c].resume \/ accepted[f] = "restored"
                THEN /\ call' = [call EXCEPT ![c].pc = "sign", ![c].own = TRUE]
                     /\ UNCHANGED acceptQueue
                ELSE /\ call' = [call EXCEPT ![c].pc = "slot", ![c].own = TRUE]
                     /\ acceptQueue' = Append(acceptQueue, c)
       /\ UNCHANGED <<chain, accepted, acceptedOrders, owedFills, reserved, filling, landed, inDoubt>>

Joined(c) ==
    /\ at(c, "join") /\ accepting[OrderOf[call[c].f]] = None
    /\ goto(c, "accept")
    /\ UNCHANGED <<chain, gateway>>

holdsSlot(c) == acceptQueue # <<>> /\ Head(acceptQueue) = c
released(c) == IF call[c].own THEN [accepting EXCEPT ![OrderOf[call[c].f]] = None] ELSE accepting
refuseAccept(c) ==
    /\ call' = [call EXCEPT ![c].pc = "answered", ![c].res = "refused", ![c].own = FALSE]
    /\ accepting' = released(c)
    /\ acceptQueue' = Tail(acceptQueue) /\ reserved' = 0

(* checkFillWindow: the fill fits before its deadline and, with its        *)
(* attestation and a margin, before the lock turns refundable.  That       *)
(* budget is far more than the claim's own (ClaimInclusion, below).        *)
FillBudget == 2
checkFillWindow(f) == time <= Deadline[f] /\ time + FillBudget < RefundableAt[OrderOf[f]]

total(fs) == MapThenSumSet(LAMBDA g : Amount[g], fs)

(* The windows, `filled`, and what other accepted fills still owe, read    *)
(* before the balance.                                                     *)
owedInventory_Landing(f, seen) == owedFills \cap filling
owedInventory(f, seen) ==
    {g \in owedFills \ {f} : g \notin landed /\ time <= Deadline[g] /\ g \notin seen}

CheckAccept(c) ==
    LET f == call[c].f
    IN /\ at(c, "slot") /\ holdsSlot(c)
       /\ \/ /\ \/ (time > AcceptBy[f] \/ ~checkFillWindow(f) \/ f \in paid) /\ noFault
                \/ fault
             /\ refuseAccept(c) /\ UNCHANGED owedFills
          \/ /\ time <= AcceptBy[f] /\ checkFillWindow(f) /\ FALSE \in filledReads(f)
             /\ \E seen \in SUBSET (paid \cap owedFills) :
                  LET owed == owedInventory(f, seen)
                  IN /\ owedFills' = owed \cup (owedFills \cap ({f} \cup landed))
                     /\ reserved' = total(owed)
             /\ goto(c, "balance") /\ noFault
             /\ UNCHANGED <<accepting, acceptQueue>>
       /\ UNCHANGED <<time, balance, paid, lock, fillTx, claimTx, venueHolds,
                      accepted, acceptedOrders, filling, landed, inDoubt>>

recordSigned(f) ==
    /\ accepted' = [accepted EXCEPT ![f] = "signed"]
    /\ owedFills' = owedFills \cup {f}
    /\ acceptedOrders' = [acceptedOrders EXCEPT ![OrderOf[f]] = f]

(* The balance, the allowance, the simulation and the claim path; then the *)
(* signature, recorded before the slot is given up.                        *)
SignAcceptance(c) ==
    LET f == call[c].f
    IN /\ at(c, "balance") /\ holdsSlot(c)
       /\ \/ /\ \/ balance < Amount[f] + reserved /\ noFault
                \/ fault
             /\ refuseAccept(c)
             /\ UNCHANGED <<accepted, acceptedOrders, owedFills>>
          \/ /\ balance >= Amount[f] + reserved /\ noFault
             /\ recordSigned(f)
             /\ acceptQueue' = Tail(acceptQueue) /\ reserved' = 0
             /\ goto(c, "onSigned") /\ UNCHANGED accepting
       /\ UNCHANGED <<time, balance, paid, lock, fillTx, claimTx, venueHolds,
                      filling, landed, inDoubt>>

(* A resumed acceptance is owed already: it is re-signed with no refusals. *)
ResignAcceptance(c) ==
    /\ at(c, "sign")
    /\ recordSigned(call[c].f)
    /\ goto(c, "onSigned")
    /\ UNCHANGED <<chain, accepting, acceptQueue, reserved, filling, landed, inDoubt>>

(* The POST, bounded and never throwing: whether or not it is acknowledged *)
(* the venue may hold the acceptance.                                      *)
PostAcceptance(c) ==
    /\ at(c, "post")
    /\ venueHolds' = venueHolds \cup {call[c].f}
    /\ call' = [call EXCEPT ![c].pc = "answered", ![c].res = "accepted", ![c].own = FALSE]
    /\ accepting' = released(c)
    /\ UNCHANGED <<time, balance, paid, lock, fillTx, claimTx, faults, accepted,
                   acceptedOrders, owedFills, acceptQueue, reserved, filling, landed, inDoubt>>

(* The caller's `onSigned` threw: nothing is posted.                       *)
signedThrew(c) ==
    /\ call' = [call EXCEPT ![c].pc = "answered", ![c].res = "refused", ![c].own = FALSE]
    /\ accepting' = released(c)

(* restoreAcceptance of a set of fills: registered, not signed.            *)
restoreAcceptance(fs) ==
    /\ accepted' = [f \in FillIds |-> IF f \in fs THEN "restored" ELSE "no"]
    /\ acceptedOrders' = [o \in Orders |->
           IF \E f \in fs : OrderOf[f] = o THEN CHOOSE f \in fs : OrderOf[f] = o ELSE None]
    /\ owedFills' = fs
-----------------------------------------------------------------------------
(* fill                                                                    *)

Fill(c) ==
    LET f == call[c].f
    IN /\ at(c, "fill")
       /\ \/ ~requireOneFillPerOrder(f) /\ answer(c, "mismatch") /\ UNCHANGED filling
          \/ /\ requireOneFillPerOrder(f) /\ accepted[f] = "no"
             /\ answer(c, "not_accepted") /\ UNCHANGED filling
          \/ /\ requireOneFillPerOrder(f) /\ accepted[f] # "no" /\ f \in landed
             /\ answer(c, "already_filled") /\ UNCHANGED filling
          \/ /\ requireOneFillPerOrder(f) /\ accepted[f] # "no" /\ f \in filling \ landed
             /\ answer(c, "in_doubt") /\ UNCHANGED filling
          \/ /\ requireOneFillPerOrder(f) /\ accepted[f] # "no" /\ f \notin filling \cup landed
             /\ filling' = filling \cup {f}
             /\ goto(c, "send")
       /\ UNCHANGED <<chain, accepted, acceptedOrders, accepting, owedFills, acceptQueue,
                      reserved, landed, inDoubt>>

endFill(c, res) == filling' = filling \ {call[c].f} /\ answer(c, res)

(* guardInDoubt, the deadline, the preflight and the send.                 *)
SendFill(c) ==
    LET f == call[c].f
        dead == f \notin fillTx \cup paid
    IN /\ at(c, "send")
       /\ \/ fault /\ endFill(c, "threw") /\ UNCHANGED <<fillTx, inDoubt>>
          \/ /\ f \in inDoubt /\ f \in paid /\ noFault
             /\ inDoubt' = inDoubt \ {f} /\ endFill(c, "already_filled")
             /\ UNCHANGED fillTx
          \/ /\ f \in inDoubt /\ noFault \* still followed: re-broadcast, or its slot freed
             /\ fillTx' \in {fillTx, fillTx \cup {g \in {f} : time <= Deadline[f] /\ f \notin paid}}
             /\ endFill(c, "in_doubt") /\ UNCHANGED inDoubt
          \/ /\ f \notin inDoubt \/ dead
             /\ inDoubt' = inDoubt \ {f} /\ noFault
             /\ \/ time > Deadline[f] /\ endFill(c, "auth_expired") /\ UNCHANGED fillTx
                \/ /\ time <= Deadline[f] /\ f \in paid
                   /\ endFill(c, "already_filled") /\ UNCHANGED fillTx
                \/ /\ time <= Deadline[f] /\ balance < Amount[f] /\ f \notin paid
                   /\ endFill(c, "threw") /\ UNCHANGED fillTx
                \/ /\ time <= Deadline[f] /\ balance >= Amount[f]
                   /\ fillTx' = IF f \in paid THEN fillTx ELSE fillTx \cup {f}
                   /\ goto(c, "wait") /\ UNCHANGED filling
       /\ UNCHANGED <<time, balance, paid, lock, claimTx, venueHolds, accepted,
                      acceptedOrders, accepting, owedFills, acceptQueue, reserved, landed>>

(* The receipt, or none in time.                                           *)
AwaitReceipt(c) ==
    LET f == call[c].f
    IN /\ at(c, "wait")
       /\ \/ /\ f \in paid /\ endFill(c, "confirmed")
             /\ landed' = landed \cup {f} /\ owedFills' = owedFills \ {f}
             /\ UNCHANGED inDoubt
          \/ /\ endFill(c, "in_doubt") /\ inDoubt' = inDoubt \cup {f}
             /\ UNCHANGED <<landed, owedFills>>
          \/ /\ f \notin fillTx \cup paid \* not_sent or reverted
             /\ endFill(c, "threw") /\ UNCHANGED <<landed, owedFills, inDoubt>>
       /\ UNCHANGED <<chain, accepted, acceptedOrders, accepting, acceptQueue, reserved>>
-----------------------------------------------------------------------------
(* claimUntilRefundable                                                    *)

ClaimInclusion == 1
claimWindowOpen(o) == time + ClaimInclusion < RefundableAt[o]

(* fetchAttestation: the venue attests a fill it saw land, sooner or later.*)
attested(o) == \E f \in paid : OrderOf[f] = o

(* One pass: the lock, the window, the guard, the attestation, the claim.  *)
claimEnds(o) == lock[o] # "Open" \/ ~claimWindowOpen(o)
ClaimPass(o) ==
    /\ at(o, "claim") /\ ~claimEnds(o)
    /\ attested(o) /\ o \notin claimTx
    /\ claimTx' = claimTx \cup {o}
    /\ UNCHANGED <<time, balance, paid, lock, fillTx, venueHolds, faults, gateway, call>>
-----------------------------------------------------------------------------
(* The chains, the contracts and the venue.                                *)

memory == <<gateway, call>>

(* RiddlerFiller pays a fillId once, before its deadline, from inventory.  *)
FillLands ==
    /\ \E f \in fillTx :
         /\ f \notin paid /\ time <= Deadline[f] /\ balance >= Amount[f]
         /\ paid' = paid \cup {f} /\ balance' = balance - Amount[f]
         /\ fillTx' = fillTx \ {f}
    /\ UNCHANGED <<time, lock, claimTx, venueHolds, faults, memory>>

(* A transaction is evicted, or reverts: for lack of inventory, or past    *)
(* its deadline.                                                           *)
FillDies ==
    /\ \E f \in fillTx :
         /\ IF time > Deadline[f] \/ balance < Amount[f] THEN noFault ELSE fault
         /\ fillTx' = fillTx \ {f}
    /\ UNCHANGED <<time, balance, paid, lock, claimTx, venueHolds, memory>>

ClaimLands ==
    /\ \E o \in claimTx :
         /\ claimTx' = claimTx \ {o}
         /\ lock' = IF lock[o] = "Open" /\ time < RefundableAt[o]
                    THEN [lock EXCEPT ![o] = "Claimed"] ELSE lock
    /\ UNCHANGED <<time, balance, paid, fillTx, venueHolds, faults, memory>>

ClaimDies ==
    /\ \E o \in claimTx : claimTx' = claimTx \ {o}
    /\ UNCHANGED <<time, balance, paid, lock, fillTx, venueHolds, faults, memory>>

Refund ==
    /\ \E o \in Orders : /\ lock[o] = "Open" /\ time >= RefundableAt[o]
                         /\ lock' = [lock EXCEPT ![o] = "Refunded"]
    /\ UNCHANGED <<time, balance, paid, fillTx, claimTx, venueHolds, faults, memory>>

Tick ==
    /\ time < MaxTime /\ time' = time + 1
    /\ UNCHANGED <<balance, paid, lock, fillTx, claimTx, venueHolds, faults, memory>>
=============================================================================
