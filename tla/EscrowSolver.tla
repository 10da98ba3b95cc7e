---------------------------- MODULE EscrowSolver ----------------------------
(***************************************************************************)
(* The reference solver over the gateway (examples/escrow-solver.ts), its  *)
(* startup order (supervise.ts) and what its state file keeps across a     *)
(* crash.  The feed handles one event at a time; one settle task per order *)
(* re-drives its fill and then runs its claim loop.                        *)
(***************************************************************************)
EXTENDS EscrowGateway

CONSTANTS
    Auctions,
    AuctionOf, \* [FillIds -> Auctions]: the auction whose award names the fill
    MaxCrashes \* bound: deaths of the process

ASSUME SolverAssumption ==
    /\ AuctionOf \in [FillIds -> Auctions] /\ MaxCrashes \in Nat
    /\ None \notin Auctions \cup {"accepting", "accepted", "filled"}

VARIABLES
    up, crashes,
    bidding,  \* the feed is read
    stands,   \* an allowance covering the resumed fills stands
    unsent,   \* resumed owed orders whose fill holds no nonce yet (`sent`)
    awarded,  \* bids that were awarded, with the fill accepted for them
    fills,    \* FillStateFile in memory
    disk      \* the state file

process == <<bidding, stands, unsent, awarded, fills>>
vars == <<chain, gateway, call, up, crashes, process, disk>>

Phase == {"accepting", "accepted", "filled"}
NoEntry == [phase |-> None, f |-> None]
NoFile == [o \in Orders |-> NoEntry]
entry(phase, f) == [phase |-> phase, f |-> f]

Init ==
    /\ time = 0 /\ balance = Inventory /\ paid = {} /\ fillTx = {} /\ claimTx = {}
    /\ lock = [o \in Orders |-> "Open"] /\ venueHolds = {} /\ faults = 0
    /\ accepted = [f \in FillIds |-> "no"] /\ acceptedOrders = [o \in Orders |-> None]
    /\ accepting = [o \in Orders |-> None] /\ owedFills = {} /\ acceptQueue = <<>>
    /\ reserved = 0 /\ filling = {} /\ landed = {} /\ inDoubt = {}
    /\ call = [c \in Callers |-> NoCall]
    /\ up = TRUE /\ crashes = 0 /\ bidding = FALSE /\ stands = FALSE /\ unsent = {}
    /\ awarded = [a \in Auctions |-> None]
    /\ fills = NoFile /\ disk = NoFile
-----------------------------------------------------------------------------
(* FillStateFile: the file is rewritten whole from memory, which follows   *)
(* it only for a write that succeeded.  A write may fail before the rename *)
(* or after it (the directory sync).                                       *)

write(new) == fills' = new /\ disk' = new /\ noFault
writeFails(new) == fault /\ UNCHANGED fills /\ disk' \in {disk, new}

put(o, e) == [fills EXCEPT ![o] = e]

(* recordBestEffort and forget: a write that fails is logged.  A record    *)
(* needs the auction's entry, which a finished task has dropped.           *)
recordBestEffort(phase, f) ==
    LET new == put(OrderOf[f], entry(phase, f))
    IN IF awarded[AuctionOf[f]] = None THEN UNCHANGED <<fills, disk, faults>>
       ELSE write(new) \/ writeFails(new)

forget(o) ==
    LET new == put(o, NoEntry)
    IN IF fills[o] = NoEntry THEN UNCHANGED <<fills, disk, faults>>
       ELSE write(new) \/ writeFails(new)
-----------------------------------------------------------------------------
(* The feed: one announcement or award at a time.                          *)

idle == up /\ bidding /\ at("feed", "off")
restOfChain == <<time, balance, paid, lock, fillTx, claimTx, venueHolds>>

(* fill: an award, delivered for the first time after this process bid, or *)
(* again, of an order the venue still sees open.  One that names another   *)
(* fill than the one held for its auction or persisted for its order is    *)
(* refused.                                                                *)
Award(f) ==
    LET a == AuctionOf[f]
        o == OrderOf[f]
    IN /\ idle /\ lock[o] = "Open"
       /\ awarded[a] \in {None, "priced", f}
       /\ fills[o].f \in {None, f}
       /\ awarded' \in {[awarded EXCEPT ![a] = "priced"]} \* the bid, kept without a fill
                       \cup {w \in {awarded} : w[a] # None}
       /\ call' = [call EXCEPT !["feed"] = [NoCall EXCEPT !.pc = "prepare", !.f = f]]
       /\ UNCHANGED <<chain, gateway, up, crashes, bidding, stands, unsent, fills, disk>>

(* prepare verified the award against its final lock; the fill is bound to *)
(* the auction and, unless the file holds the order, recorded `accepting`. *)
Prepared ==
    LET f == call["feed"].f
        o == OrderOf[f]
        new == put(o, entry("accepting", f))
        accepts == call' = [call EXCEPT !["feed"].pc = "accept", !["feed"].phase = fills[o].phase]
    IN /\ at("feed", "prepare")
       /\ \/ /\ \/ (lock[o] # "Open" \/ time > Deadline[f]) /\ noFault
                \/ fault
             /\ call' = [call EXCEPT !["feed"] = NoCall]
             /\ UNCHANGED <<awarded, fills, disk>>
          \/ /\ lock[o] = "Open" /\ time <= Deadline[f]
             /\ awarded' = [awarded EXCEPT ![AuctionOf[f]] = f]
             /\ \/ /\ fills[o].phase # None
                   /\ accepts /\ UNCHANGED <<fills, disk>> /\ noFault
                \/ /\ fills[o].phase = None
                   /\ write(new) /\ accepts
                \/ /\ fills[o].phase = None
                   /\ writeFails(new) /\ call' = [call EXCEPT !["feed"] = NoCall]
       /\ UNCHANGED <<restOfChain, gateway, up, crashes, bidding, stands, unsent>>

(* onSigned: `accepted` reaches the file before the POST, or nothing is    *)
(* posted.  A resumed `accepted` order has it there already.               *)
recordsAccepted_Never(c) == FALSE
recordsAccepted(c) == call[c].phase = "accepting" \/ (c = "feed" /\ call[c].phase = None)

OnSigned(c) ==
    LET f == call[c].f
        new == put(OrderOf[f], entry("accepted", f))
    IN /\ at(c, "onSigned")
       /\ \/ /\ ~recordsAccepted(c)
             /\ goto(c, "post") /\ UNCHANGED <<fills, disk, accepting>> /\ noFault
          \/ /\ recordsAccepted(c) /\ awarded[AuctionOf[f]] # None
             /\ \/ write(new) /\ goto(c, "post") /\ UNCHANGED accepting
                \/ writeFails(new) /\ signedThrew(c)
          \/ /\ recordsAccepted(c) /\ awarded[AuctionOf[f]] = None
             /\ signedThrew(c) /\ UNCHANGED <<fills, disk>> /\ noFault
       /\ UNCHANGED <<restOfChain, accepted, acceptedOrders, owedFills, acceptQueue, reserved,
                      filling, landed, inDoubt, up, crashes, bidding, stands, unsent, awarded>>

(* settleInBackground: one task per order; a second call joins it.         *)
startTask_Unfollowed(c, o, pc) ==
    call' = [c EXCEPT !["feed"] = NoCall]
startTask(c, o, pc) ==
    call' = [c EXCEPT !["feed"] = NoCall,
                      ![o] = IF c[o].pc = "off"
                             THEN [NoCall EXCEPT !.pc = pc, !.f = c["feed"].f] ELSE @]

FeedAnswered ==
    LET f == call["feed"].f
        o == OrderOf[f]
        res == call["feed"].res
        ends == call' = [call EXCEPT !["feed"] = NoCall]
    IN /\ at("feed", "answered")
       /\ \/ /\ res = "accepted"
             /\ goto("feed", "fill") /\ UNCHANGED <<fills, disk>> /\ noFault
          \/ /\ res = "refused" /\ ends
             /\ IF call["feed"].phase = None THEN forget(o) ELSE UNCHANGED <<fills, disk, faults>>
          \/ /\ res = "confirmed"
             /\ recordBestEffort("filled", f) /\ startTask(call, o, "claim")
          \/ /\ res \in {"already_filled", "mismatch"} /\ ends
             /\ UNCHANGED <<fills, disk, faults>>
          \/ /\ res \in {"in_doubt", "threw", "auth_expired", "not_accepted"}
             /\ startTask(call, o, "follow") /\ UNCHANGED <<fills, disk, faults>>
       /\ UNCHANGED <<restOfChain, gateway, up, crashes, bidding, stands, unsent, awarded>>
-----------------------------------------------------------------------------
(* An order's settle task.                                                 *)

(* fillSettled: nothing more is sent for the order's fill.                 *)
toClaim(o) == goto(o, "claim") /\ unsent' = unsent \ {o}
taskEnds(o) ==
    /\ call' = [call EXCEPT ![o] = NoCall]
    /\ awarded' = [awarded EXCEPT ![AuctionOf[call[o].f]] = None]
    /\ unsent' = unsent \ {o}
sameSolver == UNCHANGED <<restOfChain, gateway, up, crashes, bidding, stands>>

(* A resumed order waits for the allowance, or past its deadline.          *)
AllowanceStands(o) ==
    /\ at(o, "allow")
    /\ stands \/ time > Deadline[call[o].f]
    /\ goto(o, IF call[o].phase = "accepting" THEN "accept" ELSE "follow")
    /\ sameSolver /\ UNCHANGED <<faults, awarded, unsent, fills, disk>>

(* reregister and reaccept: what a resumed order does with its acceptance. *)
AcceptAnswered(o) ==
    /\ at(o, "answered") /\ call[o].res \in {"accepted", "refused"}
    /\ goto(o, IF call[o].phase = "accepted" THEN "allow"
               ELSE IF call[o].res = "accepted" THEN "follow" ELSE "drop")
    /\ sameSolver /\ UNCHANGED <<faults, awarded, unsent, fills, disk>>

(* A refused re-acceptance is dropped, unless its fill is on chain or that *)
(* cannot be read.                                                         *)
Drop(o) ==
    LET f == call[o].f
    IN /\ at(o, "drop")
       /\ \/ /\ FALSE \in filledReads(f)
             /\ forget(o) /\ taskEnds(o)
          \/ /\ f \in paid
             /\ recordBestEffort("filled", f) /\ toClaim(o) /\ UNCHANGED awarded
          \/ /\ fault /\ toClaim(o) /\ UNCHANGED <<awarded, fills, disk>>
       /\ sameSolver

(* followFill, one pass.                                                   *)
FollowGrace == 1

FollowSees(o) ==
    /\ call[o].pc \in {"follow", "expired"} /\ claimWindowOpen(o) /\ call[o].f \in paid
    /\ recordBestEffort("filled", call[o].f) /\ toClaim(o)
    /\ sameSolver /\ UNCHANGED <<awarded>>

FollowStops(o) ==
    /\ call[o].pc \in {"follow", "expired"}
    /\ ~claimWindowOpen(o) \/ time > Deadline[call[o].f] + FollowGrace
    /\ toClaim(o)
    /\ sameSolver /\ UNCHANGED <<faults, awarded, fills, disk>>

FollowFills(o) ==
    /\ at(o, "follow") /\ claimWindowOpen(o) /\ time <= Deadline[call[o].f] + FollowGrace
    /\ goto(o, "fill")
    /\ sameSolver /\ UNCHANGED <<faults, awarded, unsent, fills, disk>>

FillAnswered(o) ==
    LET res == call[o].res
    IN /\ at(o, "answered") /\ res \notin {"accepted", "refused"}
       /\ \/ /\ res \in {"confirmed", "already_filled"}
             /\ recordBestEffort("filled", call[o].f) /\ toClaim(o)
          \/ /\ res \in {"mismatch", "not_accepted"}
             /\ toClaim(o) /\ UNCHANGED <<faults, fills, disk>>
          \/ /\ res = "auth_expired"
             /\ goto(o, "expired") /\ unsent' = unsent \ {o} /\ UNCHANGED <<faults, fills, disk>>
          \/ /\ res = "in_doubt"
             /\ goto(o, "follow") /\ unsent' = unsent \ {o} /\ UNCHANGED <<faults, fills, disk>>
          \/ /\ res = "threw"
             /\ goto(o, "follow") /\ UNCHANGED <<unsent, faults, fills, disk>>
       /\ sameSolver /\ UNCHANGED <<awarded>>

(* The claim loop's result: the order leaves the file.                     *)
ClaimEnds(o) ==
    /\ at(o, "claim") /\ claimEnds(o)
    /\ forget(o) /\ taskEnds(o)
    /\ sameSolver
-----------------------------------------------------------------------------
(* startSolver                                                             *)

(* The approval for the resumed fills confirmed, or none was needed.       *)
ApprovalStands ==
    /\ up /\ ~stands /\ stands' = TRUE
    /\ UNCHANGED <<chain, gateway, call, up, crashes, bidding, unsent, awarded, fills, disk>>

(* Bidding waits for the allowance and for every resumed fill to be sent;  *)
(* an approval that fails never lets it start.                             *)
StartBidding ==
    /\ up /\ stands /\ unsent = {} /\ ~bidding
    /\ bidding' = TRUE
    /\ UNCHANGED <<chain, gateway, call, up, crashes, stands, unsent, awarded, fills, disk>>

(* The process dies; what is on disk and on the chains stays.              *)
Crash ==
    /\ up /\ crashes < MaxCrashes
    /\ up' = FALSE /\ crashes' = crashes + 1
    /\ accepted' = [f \in FillIds |-> "no"] /\ acceptedOrders' = [o \in Orders |-> None]
    /\ accepting' = [o \in Orders |-> None] /\ owedFills' = {} /\ acceptQueue' = <<>>
    /\ reserved' = 0 /\ filling' = {} /\ landed' = {} /\ inDoubt' = {}
    /\ call' = [c \in Callers |-> NoCall]
    /\ bidding' = FALSE /\ stands' = FALSE /\ unsent' = {}
    /\ awarded' = [a \in Auctions |-> None]
    /\ fills' = NoFile
    /\ UNCHANGED <<chain, disk>>

(* startSolver and resume: every persisted order's task starts, its sent   *)
(* acceptance registered before anything else runs.                        *)
resumesAt(phase) ==
    IF phase = "filled" THEN "claim" ELSE IF phase = "accepted" THEN "accept" ELSE "allow"

Restart ==
    /\ ~up /\ up' = TRUE
    /\ fills' = disk
    /\ restoreAcceptance({disk[o].f : o \in {p \in Orders : disk[p].phase \in {"accepted", "filled"}}})
    /\ call' = [c \in Callers |->
           IF c = "feed" THEN NoCall
           ELSE IF disk[c] = NoEntry THEN NoCall
           ELSE [NoCall EXCEPT !.pc = resumesAt(disk[c].phase), !.f = disk[c].f,
                               !.phase = disk[c].phase, !.resume = (disk[c].phase = "accepted")]]
    /\ awarded' = [a \in Auctions |->
           IF \E o \in Orders : disk[o] # NoEntry /\ AuctionOf[disk[o].f] = a
           THEN disk[CHOOSE o \in Orders : disk[o] # NoEntry /\ AuctionOf[disk[o].f] = a].f ELSE None]
    /\ unsent' = {o \in Orders : disk[o].phase \in {"accepting", "accepted"}}
    /\ UNCHANGED <<chain, accepting, acceptQueue, reserved, filling, landed, inDoubt, crashes,
                   bidding, stands, disk>>
-----------------------------------------------------------------------------
Gateway(c) ==
    /\ \/ Accept(c) \/ Joined(c) \/ CheckAccept(c) \/ SignAcceptance(c) \/ ResignAcceptance(c)
       \/ PostAcceptance(c) \/ Fill(c) \/ SendFill(c) \/ AwaitReceipt(c)
    /\ UNCHANGED <<up, crashes, process, disk>>

Claim(o) == ClaimPass(o) /\ UNCHANGED <<up, crashes, process, disk>>

Task(o) ==
    \/ AllowanceStands(o) \/ AcceptAnswered(o) \/ Drop(o) \/ FollowSees(o) \/ FollowStops(o)
    \/ FollowFills(o) \/ FillAnswered(o) \/ ClaimEnds(o)

World ==
    /\ FillLands \/ FillDies \/ ClaimLands \/ ClaimDies \/ Refund \/ Tick
    /\ UNCHANGED <<up, crashes, process, disk>>

Next ==
    \/ \E f \in FillIds : Award(f)
    \/ Prepared \/ FeedAnswered
    \/ \E c \in Callers : Gateway(c) \/ OnSigned(c)
    \/ \E o \in Orders : Task(o) \/ Claim(o)
    \/ ApprovalStands \/ StartBidding \/ Crash \/ Restart
    \/ World

Spec == Init /\ [][Next]_vars
-----------------------------------------------------------------------------
(* However awards are repeated, re-issued under another fillId, refused,   *)
(* resumed or raced with a crash, an order is paid for at most once        *)
(* (requireOneFillPerOrder, `accepting`, the file's entry and the order of *)
(* resume).                                                                *)
OneFillPerOrder == \A f, g \in paid : OrderOf[f] = OrderOf[g] => f = g

(* An acceptance the venue may hold survives the process: until the order  *)
(* can bring nothing more, the file on disk names that very fill as        *)
(* accepted or filled (onSigned writes before the POST).                   *)
AcceptanceOnDisk ==
    \A f \in venueHolds : LET o == OrderOf[f] IN
        claimEnds(o) \/ (disk[o].f = f /\ disk[o].phase \in {"accepted", "filled"})

(* A FillAuth expires while its lock can still be claimed: the venue caps  *)
(* its deadline well before the refund (SOLVER-RFC.md 5.2: fillDeadline -  *)
(* 120 - 300; refundableAt is fillDeadline + claimWindow, ESCROW-RFC.md 3).*)
(* The gateway checks now against each, never the one against the other.   *)
FillsFitClaims == \A f \in FillIds : Deadline[f] + ClaimInclusion < RefundableAt[OrderOf[f]]

(* The fills this process has accepted and not yet paid.                   *)
committed == {f \in FillIds : /\ accepted[f] # "no" /\ f \notin paid /\ time <= Deadline[f]}
(* What the solver has accepted and can still be asked to pay never        *)
(* exceeds what it holds, although several acceptances are checked while   *)
(* fills are landing (acceptQueue, owedInventory read before the balance), *)
(* provided FillsFitClaims: what a finished task has forgotten is counted  *)
(* by no process after it.                                                 *)
InventoryCovers == total(committed) <= balance

(* A fill that was paid is never left behind while its lock can still be   *)
(* claimed: in a running process a settle task has the order, or the feed  *)
(* call that sent the fill is still on its way to start one.               *)
PaidIsFollowed ==
    \A f \in paid : LET o == OrderOf[f] IN
        up /\ lock[o] = "Open" /\ claimWindowOpen(o)
            => call[o].pc # "off" \/ (call["feed"].f = f /\ call["feed"].pc \notin {"prepare"})
=============================================================================
