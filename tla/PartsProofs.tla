----------------------------- MODULE PartsProofs ----------------------------
(***************************************************************************)
(* No order of the state file is erased by another process that shares it, *)
(* however many start, stall, die and leave, but by a step that lands      *)
(* after a successor has linked its own lease (NoOrderErased).             *)
(*                                                                         *)
(* A process may come to write the file while the lease is its own, while  *)
(* it is past a check that nobody has linked since, or while a starter has *)
(* its lease aside and may put it back.  At most one process claims the    *)
(* file in one of these ways, because link(2) creates a lease only where   *)
(* there is none and every claim but the new one is then overtaken; and    *)
(* that one has every recorded order in memory.                            *)
(*                                                                         *)
(* BridgeSound holds of the widget's bridge however often the frame        *)
(* reloads.  The host hears of a reload late: until it handles the         *)
(* document's ready it may answer and serve the document before.  What     *)
(* keeps that from the new document is that only the handled ready pins it *)
(* (OwnMessages), that messages arrive in order (InOrder), and that the    *)
(* ready begins a session no request at the wallet is of (OwnSession).     *)
(*                                                                         *)
(* ProviderSound holds of the provider's daemon and its ledger.  Two       *)
(* signatures of one payload under one key can differ only when the row    *)
(* of the first left the ledger: the daemon's own requests are served one  *)
(* at a time (Serial) and while the payload is fresh (InTime), so age is   *)
(* never the reason between two of them (Missed).                          *)
(*                                                                         *)
(* TransportSound holds of the HTTP client.  A refusal reported is one     *)
(* answered while nothing was claimed or moved (Refusal): a row is claimed *)
(* and its funds move only once its promo is redeemed (RowSound), and only *)
(* the request that claimed it finishes it (Claimed).  A quote served late *)
(* is excluded through the order of the calls: a fetch that is not the     *)
(* pending one of its request was overtaken by a forced refresh, after     *)
(* which no caller joined it.                                              *)
(*                                                                         *)
(* BidderSound holds of the bidding solver.  Its float is whole through    *)
(* every sum of its holds because a hold is taken and given back for one   *)
(* auction at a time (SumPut, SumDrop), and a bid the venue may award is   *)
(* held because a closed auction takes no bid (ClosedIsOver) and a bid is  *)
(* submitted under its hold (SubmitsHeld).  No entry of its feed is passed *)
(* over because what lies between the cursor and the batch's own is to be  *)
(* handled or answered (BatchCovers).  A token costs one registration      *)
(* because the one in memory is the last until the venue drops it          *)
(* (HeldWhileHonoured).                                                    *)
(***************************************************************************)
EXTENDS FillLease, WidgetBridge, Provider, Transport, Bidder, SumProofs

-----------------------------------------------------------------------------
(* The lease on the solver's state file. *)

Lease == [token : Procs \X Nat, at : Nat]

Places == {"off", "link", "judge", "move", "compare", "putBack",
           "load", "run", "write", "renew", "lost", "release"}

\* Past its look at the lease, with a step on the lease or the file to come.
Looked == {"write", "renew", "release", "compare", "putBack"}

Process == [pc : Places, start : Nat, at : Nat, seen : Lease \cup {Gone}, attempt : Nat,
            fills : SUBSET LeaseOrders, next : SUBSET LeaseOrders, sound : BOOLEAN, over : BOOLEAN]

\* What a process knows of its ghosts: only one past its look can be overtaken.
Ghosts(r) ==
    /\ r.pc \in Looked => r.sound = TRUE
    /\ r.pc \notin Looked => r.sound = FALSE /\ r.over = FALSE

Shape ==
    /\ clock \in Nat
    /\ lease \in Lease \cup {Gone}
    /\ file \in SUBSET LeaseOrders
    /\ aside \in [Procs -> Lease \cup {Gone}]
    /\ proc \in [Procs -> Process]
    /\ recorded \in SUBSET LeaseOrders
    /\ unfenced \in BOOLEAN
    /\ \A p \in Procs : Ghosts(proc[p])

\* Holding the file's orders, and not known to have lost the lease.
Working(r) == r.pc \in {"load", "run", "write", "renew"}

\* Past its check, with nobody linked since.
Ahead(r) == r.pc \in {"write", "renew"} /\ ~r.over

\* A starter that may yet put back what it found at the path.
Keeper(r) == r.pc \in {"compare", "putBack"} /\ ~r.over

\* The lease of this token is at the path, or may be again.
Names(l, t) == l # Gone /\ l.token = t
Held(t) == Names(lease, t) \/ \E q \in Procs : Keeper(proc[q]) /\ Names(aside[q], t)

Claims(p) == Working(proc[p]) /\ (Held(token(p)) \/ Ahead(proc[p]))
Remembers(p) == proc[p].pc = "load" \/ recorded \subseteq proc[p].fills

Fenced ==
    /\ recorded \subseteq file
    /\ \A p \in Procs : Claims(p) => Remembers(p)
    /\ \A p, q \in Procs : Claims(p) /\ Claims(q) => p = q

LeaseInv == Shape /\ (unfenced \/ Fenced)

-----------------------------------------------------------------------------
(* What a step of one process does to the others.                          *)

\* A process becomes one record, the others stay what they were.
LEMMA Become ==
    ASSUME Shape, NEW p \in Procs, NEW r \in Process, Ghosts(r), become(p, r)
    PROVE  /\ proc' \in [Procs -> Process]
           /\ \A q \in Procs : Ghosts(proc'[q])
           /\ proc'[p] = r
           /\ \A q \in Procs \ {p} : proc'[q] = proc[q]
BY DEF Shape, become

\* What a process that refuses or ends is left with.
LEMMA IdleShape ==
    ASSUME Shape, NEW p \in Procs
    PROVE  /\ [Idle EXCEPT !.start = proc[p].start] \in Process
           /\ Ghosts([Idle EXCEPT !.start = proc[p].start])
           /\ [Idle EXCEPT !.start = proc[p].start].pc = "off"
BY DEF Shape, Process, Places, Idle, Ghosts, Looked

\* A step that brings no lease back and lets its process claim only what it
\* claimed before, with the same orders or with those of the file.
LEMMA PassedOn ==
    ASSUME Shape, Fenced, NEW p \in Procs, NEW r \in Process, Ghosts(r), become(p, r),
           UNCHANGED <<file, recorded>>,
           \A t : Held(t)' => Held(t),
           Working(r) => /\ Working(proc[p])
                         /\ r.start = proc[p].start
                         /\ Ahead(r) => Claims(p)
                         /\ \/ r.pc = "load"
                            \/ proc[p].pc # "load" /\ r.fills = proc[p].fills
                            \/ r.fills = file
    PROVE  Fenced'
<1>1. proc'[p] = r /\ \A q \in Procs \ {p} : proc'[q] = proc[q]
  BY Become
<1>2. Claims(p)' => Claims(p) /\ Remembers(p)'
  <2> SUFFICES ASSUME Claims(p)' PROVE Claims(p) /\ Remembers(p)'
    OBVIOUS
  <2>1. Working(r) /\ (Held(token(p))' \/ Ahead(r))
    BY <1>1 DEF Claims
  <2>2. token(p)' = token(p)
    BY <1>1, <2>1 DEF token
  <2>3. Held(token(p))' => Held(token(p))
    BY <2>2 DEF Held, Names, Keeper
  <2>4. Claims(p)
    BY <2>1, <2>3 DEF Claims
  <2>5. recorded \subseteq file /\ Remembers(p)
    BY <2>4 DEF Fenced
  <2> QED BY <1>1, <2>1, <2>4, <2>5 DEF Remembers
<1>3. ASSUME NEW q \in Procs, q # p
      PROVE  (Claims(q)' => Claims(q)) /\ (Remembers(q)' = Remembers(q))
  <2>1. proc'[q] = proc[q]
    BY <1>1, <1>3
  <2>2. token(q)' = token(q)
    BY <2>1 DEF token
  <2>3. Held(token(q))' => Held(token(q))
    BY <2>2 DEF Held, Names, Keeper
  <2> QED BY <2>1, <2>3 DEF Claims, Remembers
<1>4. \A q \in Procs : Claims(q)' => Claims(q) /\ Remembers(q)'
  BY <1>2, <1>3 DEF Fenced
<1> QED BY <1>4 DEF Fenced

\* A step that leaves every lease where it is.
LEMMA StandingLeases ==
    ASSUME Shape, NEW p \in Procs, NEW r \in Process, Ghosts(r), become(p, r),
           UNCHANGED <<lease, aside>>, Keeper(r) => Keeper(proc[p])
    PROVE  \A t : Held(t)' => Held(t)
<1>1. proc'[p] = r /\ \A q \in Procs \ {p} : proc'[q] = proc[q]
  BY Become
<1> QED BY <1>1 DEF Held

\* The last process to leave or to give up takes nothing from the others.
LEMMA RefusedFits ==
    ASSUME Shape, Fenced, NEW p \in Procs, refuse(p), UNCHANGED <<file, recorded>>,
           \A t : Held(t)' => Held(t)
    PROVE  Fenced'
<1> DEFINE r == [Idle EXCEPT !.start = proc[p].start]
<1>1. r \in Process /\ Ghosts(r) /\ r.pc = "off" /\ become(p, r)
  BY IdleShape DEF refuse
<1> HIDE DEF r
<1>2. ~Working(r)
  BY <1>1 DEF Working
<1> QED BY <1>1, <1>2, PassedOn

-----------------------------------------------------------------------------
(* Acquiring the lease.                                                    *)

\* A process starts, with a lease of its own to link.
LEMMA AcquireKeeps ==
    ASSUME LeaseInv, NEW p \in Procs, Acquire(p)
    PROVE  LeaseInv'
<1> DEFINE r == [Idle EXCEPT !.pc = "link", !.start = proc[p].start + 1, !.at = clock]
<1>01. Idle \in Process /\ Idle.sound = FALSE /\ Idle.over = FALSE
  BY DEF Idle, Process, Places
<1>02. proc[p].start + 1 \in Nat /\ clock \in Nat /\ become(p, r)
  BY DEF LeaseInv, Shape, Acquire, Process
<1>03. r \in Process /\ r.pc = "link" /\ r.sound = FALSE /\ r.over = FALSE
  <2> HIDE DEF Idle
  <2> QED BY <1>01, <1>02 DEF Process, Places
<1> HIDE DEF r
<1>1. r \in Process /\ Ghosts(r) /\ r.pc = "link" /\ become(p, r)
  BY <1>02, <1>03 DEF Ghosts, Looked
<1>2. ~Working(r) /\ ~Keeper(r)
  BY <1>1 DEF Working, Keeper
<1>3. Shape'
  BY <1>1, Become DEF LeaseInv, Shape, Acquire
<1>4. Fenced => Fenced'
  BY <1>1, <1>2, PassedOn, StandingLeases DEF LeaseInv, Acquire
<1> QED BY <1>3, <1>4 DEF LeaseInv, Acquire

\* Another attempt of the same start, or none: no step of a process that holds orders.
LEMMA TryAgainShape ==
    ASSUME Shape, NEW p \in Procs, tryAgain(p)
    PROVE  \E r \in Process : /\ Ghosts(r) /\ become(p, r)
                              /\ ~Working(r) /\ ~Keeper(r)
<1> DEFINE again == [proc[p] EXCEPT !.pc = "link", !.seen = Gone, !.attempt = @ + 1,
                                    !.sound = FALSE, !.over = FALSE]
           stops == [Idle EXCEPT !.start = proc[p].start]
<1>0. proc[p] \in Process
  BY DEF Shape
<1>01. again \in Process /\ again.pc = "link" /\ again.sound = FALSE /\ again.over = FALSE
  <2> DEFINE seen == [proc[p] EXCEPT !.pc = "link", !.seen = Gone]
             tried == [seen EXCEPT !.attempt = proc[p].attempt + 1]
  <2>1. seen \in Process /\ seen.pc = "link"
    BY <1>0 DEF Process, Places
  <2> HIDE DEF seen
  <2>2. tried \in Process /\ tried.pc = "link"
    BY <1>0, <2>1 DEF Process
  <2>3. again = [tried EXCEPT !.sound = FALSE, !.over = FALSE]
    BY DEF seen
  <2> HIDE DEF tried, again
  <2> QED BY <2>2, <2>3 DEF Process
<1>1. again \in Process /\ Ghosts(again) /\ again.pc = "link"
  <2> HIDE DEF again
  <2> QED BY <1>01 DEF Ghosts, Looked
<1>2. stops \in Process /\ Ghosts(stops) /\ stops.pc = "off"
  BY IdleShape
<1>3. become(p, again) \/ become(p, stops)
  BY DEF tryAgain, refuse
<1> HIDE DEF again, stops
<1> QED BY <1>1, <1>2, <1>3 DEF Working, Keeper

\* A process judges the lease it found: gone, held or stale.
LEMMA JudgeKeeps ==
    ASSUME LeaseInv, NEW p \in Procs, Judge(p)
    PROVE  LeaseInv'
<1> DEFINE judged == [proc[p] EXCEPT !.pc = "move", !.seen = lease]
           stops == [Idle EXCEPT !.start = proc[p].start]
<1>1. judged \in Process /\ Ghosts(judged) /\ judged.pc = "move"
  BY DEF LeaseInv, Shape, Judge, isAt, Process, Places, Ghosts, Looked
<1>2. stops \in Process /\ Ghosts(stops) /\ stops.pc = "off"
  BY IdleShape DEF LeaseInv
<1>3. tryAgain(p) \/ become(p, stops) \/ become(p, judged)
  BY DEF Judge, refuse
<1> HIDE DEF judged, stops
<1>4. PICK r \in Process : Ghosts(r) /\ become(p, r) /\ ~Working(r) /\ ~Keeper(r)
  BY <1>1, <1>2, <1>3, TryAgainShape DEF LeaseInv, Working, Keeper
<1>5. Shape'
  BY <1>4, Become DEF LeaseInv, Shape, Judge
<1>6. Fenced => Fenced'
  BY <1>4, PassedOn, StandingLeases DEF LeaseInv, Judge
<1> QED BY <1>5, <1>6 DEF LeaseInv, Judge

\* The lease moved aside is in the hands of its mover, whom nobody has overtaken yet.
LEMMA MoveKeeps ==
    ASSUME LeaseInv, NEW p \in Procs, Move(p)
    PROVE  LeaseInv'
<1>1. CASE lease = Gone /\ tryAgain(p) /\ UNCHANGED <<lease, aside>>
  <2>1. PICK r \in Process : Ghosts(r) /\ become(p, r) /\ ~Working(r) /\ ~Keeper(r)
    BY <1>1, TryAgainShape DEF LeaseInv
  <2>2. Shape'
    BY <1>1, <2>1, Become DEF LeaseInv, Shape, Move
  <2>3. Fenced => Fenced'
    BY <1>1, <2>1, PassedOn, StandingLeases DEF LeaseInv, Move
  <2> QED BY <2>2, <2>3 DEF LeaseInv, Move
<1>2. CASE /\ lease # Gone
           /\ aside' = [aside EXCEPT ![p] = lease] /\ lease' = Gone
           /\ become(p, [proc[p] EXCEPT !.pc = "compare", !.sound = TRUE])
  <2> DEFINE r == [proc[p] EXCEPT !.pc = "compare", !.sound = TRUE]
  <2>1. r \in Process /\ Ghosts(r) /\ r.pc = "compare" /\ become(p, r)
    BY <1>2 DEF LeaseInv, Shape, Process, Places, Ghosts, Looked
  <2> HIDE DEF r
  <2>2. proc'[p] = r /\ \A q \in Procs \ {p} : proc'[q] = proc[q]
    BY <2>1, Become DEF LeaseInv
  <2>3. Shape'
    BY <1>2, <2>1, Become DEF LeaseInv, Shape, Move
  <2>4. /\ aside'[p] = lease
        /\ \A q \in Procs \ {p} : aside'[q] = aside[q]
    BY <1>2 DEF LeaseInv, Shape
  <2>5. \A t : Held(t)' => Held(t)
    BY <1>2, <2>2, <2>4 DEF Held, Names
  <2>6. Fenced => Fenced'
    BY <2>1, <2>5, PassedOn DEF LeaseInv, Move, Working
  <2> QED BY <2>3, <2>6 DEF LeaseInv, Move
<1> QED BY <1>1, <1>2 DEF Move

\* What was moved aside is compared with the lease that was judged stale.
LEMMA CompareKeeps ==
    ASSUME LeaseInv, NEW p \in Procs, Compare(p)
    PROVE  LeaseInv'
<1>1. CASE aside' = [aside EXCEPT ![p] = Gone] /\ tryAgain(p)
  <2>1. PICK r \in Process : Ghosts(r) /\ become(p, r) /\ ~Working(r) /\ ~Keeper(r)
    BY <1>1, TryAgainShape DEF LeaseInv
  <2>2. proc'[p] = r /\ \A q \in Procs \ {p} : proc'[q] = proc[q]
    BY <2>1, Become DEF LeaseInv
  <2>3. Shape'
    BY <1>1, <2>1, Become DEF LeaseInv, Shape, Compare
  <2>4. \A q \in Procs \ {p} : aside'[q] = aside[q]
    BY <1>1 DEF LeaseInv, Shape
  <2>5. \A t : Held(t)' => Held(t)
    BY <2>1, <2>2, <2>4 DEF Held, Compare
  <2>6. Fenced => Fenced'
    BY <2>1, <2>5, PassedOn DEF LeaseInv, Compare
  <2> QED BY <2>3, <2>6 DEF LeaseInv, Compare
<1>2. CASE become(p, [proc[p] EXCEPT !.pc = "putBack"]) /\ UNCHANGED aside
  <2> DEFINE r == [proc[p] EXCEPT !.pc = "putBack"]
  <2>1. r \in Process /\ Ghosts(r) /\ r.pc = "putBack" /\ r.over = proc[p].over /\ become(p, r)
    BY <1>2 DEF LeaseInv, Shape, Process, Places, Ghosts, Looked, Compare, isAt
  <2> HIDE DEF r
  <2>2. Shape'
    BY <1>2, <2>1, Become DEF LeaseInv, Shape, Compare
  <2>3. ~Working(r) /\ (Keeper(r) => Keeper(proc[p]))
    BY <2>1 DEF Working, Keeper, Compare, isAt
  <2>4. Fenced => Fenced'
    BY <1>2, <2>1, <2>3, PassedOn, StandingLeases DEF LeaseInv, Compare
  <2> QED BY <2>2, <2>4 DEF LeaseInv, Compare
<1> QED BY <1>1, <1>2 DEF Compare

\* What is put back, nobody having linked since, was held all along.
LEMMA PutBackKeeps ==
    ASSUME LeaseInv, NEW p \in Procs, PutBack(p)
    PROVE  LeaseInv'
<1>1. /\ \A q \in Procs \ {p} : proc'[q] = proc[q]
      /\ proc'[p].pc = "off"
      /\ proc' \in [Procs -> Process]
      /\ \A q \in Procs : Ghosts(proc'[q])
  BY IdleShape, Become DEF LeaseInv, PutBack, refuse
<1>2. Shape'
  BY <1>1 DEF LeaseInv, Shape, PutBack
<1>3. \A q \in Procs \ {p} : aside'[q] = aside[q]
  BY DEF LeaseInv, Shape, PutBack
<1>4. ASSUME ~unfenced'
      PROVE  \A t : Held(t)' => Held(t)
  <2>1. lease' # lease => ~proc[p].over
    BY <1>4 DEF PutBack
  <2>2. lease' = lease \/ (lease' = aside[p] /\ Keeper(proc[p]))
    BY <2>1 DEF PutBack, Keeper, isAt
  <2> QED BY <1>1, <1>3, <2>2 DEF Held, Keeper
<1>5. Fenced /\ ~unfenced' => Fenced'
  BY <1>4, RefusedFits DEF LeaseInv, PutBack
<1> QED BY <1>2, <1>5 DEF LeaseInv, Shape, PutBack

\* The process whose link succeeds is the only one with a claim: whoever was
\* past a look at the lease has been overtaken.
LEMMA LinkKeeps ==
    ASSUME LeaseInv, NEW p \in Procs, Link(p)
    PROVE  LeaseInv'
<1>1. CASE become(p, [proc[p] EXCEPT !.pc = "judge"]) /\ UNCHANGED lease
  <2> DEFINE r == [proc[p] EXCEPT !.pc = "judge"]
  <2>1. r \in Process /\ Ghosts(r) /\ r.pc = "judge" /\ become(p, r)
    BY <1>1 DEF LeaseInv, Shape, Process, Places, Ghosts, Looked, Link, isAt
  <2> HIDE DEF r
  <2>2. ~Working(r) /\ ~Keeper(r)
    BY <2>1 DEF Working, Keeper
  <2>3. Shape'
    BY <1>1, <2>1, Become DEF LeaseInv, Shape, Link
  <2>4. Fenced => Fenced'
    BY <1>1, <2>1, <2>2, PassedOn, StandingLeases DEF LeaseInv, Link
  <2> QED BY <2>3, <2>4 DEF LeaseInv, Link
<1>2. CASE /\ lease = Gone
           /\ lease' = [token |-> token(p), at |-> proc[p].at]
           /\ proc' = [[q \in Procs |-> overtaken(p, q)] EXCEPT
                          ![p].pc = "load", ![p].attempt = 0]
  <2> DEFINE loading == [proc[p] EXCEPT !.pc = "load", !.attempt = 0]
             behind(q) == overtaken(p, q)
  <2>1. proc' = [q \in Procs |-> IF q = p THEN loading ELSE behind(q)]
    BY <1>2 DEF overtaken, LeaseInv, Shape
  <2>2. /\ loading \in Process /\ Ghosts(loading)
        /\ loading.pc = "load" /\ loading.start = proc[p].start
    <3>1. proc[p] \in Process /\ Ghosts(proc[p]) /\ proc[p].pc = "link"
      BY DEF LeaseInv, Shape, Link, isAt
    <3>2. loading \in Process /\ loading.pc = "load" /\ loading.start = proc[p].start
          /\ loading.sound = proc[p].sound /\ loading.over = proc[p].over
      BY <3>1 DEF Process, Places
    <3> HIDE DEF loading
    <3> QED BY <3>1, <3>2 DEF Ghosts, Looked
  <2>3. ASSUME NEW q \in Procs, q # p
        PROVE  /\ behind(q) \in Process /\ Ghosts(behind(q))
               /\ behind(q).pc = proc[q].pc /\ behind(q).start = proc[q].start
               /\ proc[q].sound => behind(q).over
    BY <2>3 DEF overtaken, LeaseInv, Shape, Process, Places, Ghosts
  <2> HIDE DEF loading, behind
  <2>4. proc'[p] = loading /\ \A q \in Procs \ {p} : proc'[q] = behind(q)
    BY <2>1
  <2>5. Shape'
    <3>1. proc' \in [Procs -> Process] /\ \A q \in Procs : Ghosts(proc'[q])
      BY <2>1, <2>2, <2>3
    <3>2. lease' \in Lease
      BY <1>2 DEF LeaseInv, Shape, Process, Places, Lease, token
    <3> QED BY <3>1, <3>2 DEF LeaseInv, Shape, Link
  <2>6. ASSUME NEW q \in Procs, q # p
        PROVE  ~Ahead(proc'[q]) /\ ~Keeper(proc'[q])
    BY <2>3, <2>4, <2>6 DEF Ahead, Keeper, LeaseInv, Shape, Ghosts, Looked
  <2>7. ~Keeper(proc'[p])
    BY <2>2, <2>4 DEF Keeper
  <2>8. ASSUME NEW q \in Procs, Claims(q)'
        PROVE  q = p
    <3>1. SUFFICES ASSUME q # p PROVE FALSE
      OBVIOUS
    <3>2. Names(lease', token(q)')
      BY <2>6, <2>7, <2>8, <3>1 DEF Claims, Held
    <3> QED BY <1>2, <3>1, <3>2 DEF Names, token
  <2>9. Remembers(p)'
    BY <2>2, <2>4 DEF Remembers
  <2>10. Fenced => Fenced'
    BY <2>8, <2>9 DEF Fenced, Link
  <2> QED BY <2>5, <2>10 DEF LeaseInv, Link
<1> QED BY <1>1, <1>2 DEF Link

-----------------------------------------------------------------------------
(* The holder.                                                             *)

\* The holder loads the fills its file holds.
LEMMA LoadKeeps ==
    ASSUME LeaseInv, NEW p \in Procs, Load(p)
    PROVE  LeaseInv'
<1> DEFINE r == [proc[p] EXCEPT !.pc = "run", !.fills = file]
<1>1. /\ r \in Process /\ Ghosts(r) /\ become(p, r)
      /\ r.pc = "run" /\ r.start = proc[p].start /\ r.fills = file
  BY DEF LeaseInv, Shape, Load, isAt, Process, Places, Ghosts, Looked
<1> HIDE DEF r
<1>2. Working(proc[p]) /\ ~Ahead(r) /\ ~Keeper(r)
  BY <1>1 DEF Working, Ahead, Keeper, Load, isAt
<1>3. Shape'
  BY <1>1, Become DEF LeaseInv, Shape, Load
<1>4. Fenced => Fenced'
  BY <1>1, <1>2, PassedOn, StandingLeases DEF LeaseInv, Load
<1> QED BY <1>3, <1>4 DEF LeaseInv, Load

\* A process that checked, or found its lease taken, holds what it held.
LEMMA CheckedKeeps ==
    ASSUME LeaseInv, NEW p \in Procs, isAt(p, "run"), NEW r \in Process, Ghosts(r), become(p, r),
           Working(r) => own(p) /\ r.pc # "load" /\ r.start = proc[p].start /\ r.fills = proc[p].fills,
           ~Keeper(r),
           UNCHANGED <<clock, lease, file, aside, recorded, unfenced>>
    PROVE  LeaseInv'
<1>1. Working(proc[p]) /\ proc[p].pc # "load"
  BY DEF isAt, Working
<1>2. own(p) => Claims(p)
  BY <1>1 DEF own, Claims, Held, Names
<1>3. Shape'
  BY Become DEF LeaseInv, Shape
<1>4. Fenced => Fenced'
  BY <1>1, <1>2, PassedOn, StandingLeases DEF LeaseInv
<1> QED BY <1>3, <1>4 DEF LeaseInv

\* A process that has lost its lease holds no fills.
LEMMA LosesShape ==
    ASSUME Shape, NEW p \in Procs, isAt(p, "run")
    PROVE  LET r == [proc[p] EXCEPT !.pc = "lost", !.fills = {}]
           IN  r \in Process /\ Ghosts(r) /\ r.pc = "lost"
BY DEF Shape, isAt, Process, Places, Ghosts, Looked

\* The holder checks its lease before a write.
LEMMA CheckWriteKeeps ==
    ASSUME LeaseInv, NEW p \in Procs, CheckWrite(p)
    PROVE  LeaseInv'
<1>1. CASE ~assertHeld(p) /\ loses(p)
  <2> DEFINE r == [proc[p] EXCEPT !.pc = "lost", !.fills = {}]
  <2>1. r \in Process /\ Ghosts(r) /\ r.pc = "lost" /\ become(p, r)
    BY <1>1, LosesShape DEF LeaseInv, CheckWrite, loses
  <2> HIDE DEF r
  <2> QED BY <2>1, CheckedKeeps DEF CheckWrite, Working, Keeper
<1>2. ASSUME assertHeld(p), NEW new \in SUBSET LeaseOrders,
             become(p, [proc[p] EXCEPT !.pc = "write", !.next = new, !.sound = own(p)])
      PROVE  LeaseInv'
  <2> DEFINE r == [proc[p] EXCEPT !.pc = "write", !.next = new, !.sound = TRUE]
  <2>1. own(p) = TRUE
    BY <1>2 DEF assertHeld, own
  <2>2. become(p, r)
    BY <1>2, <2>1
  <2>3. /\ r \in Process /\ Ghosts(r) /\ r.pc = "write"
        /\ r.start = proc[p].start /\ r.fills = proc[p].fills
    BY DEF LeaseInv, Shape, Process, Places, Ghosts, Looked
  <2> HIDE DEF r
  <2> QED BY <2>1, <2>2, <2>3, CheckedKeeps DEF CheckWrite, Keeper
<1> QED BY <1>1, <1>2 DEF CheckWrite

\* The holder checks its lease before it renews it.
LEMMA CheckRenewKeeps ==
    ASSUME LeaseInv, NEW p \in Procs, CheckRenew(p)
    PROVE  LeaseInv'
<1>1. CASE ~assertHeld(p) /\ loses(p)
  <2> DEFINE r == [proc[p] EXCEPT !.pc = "lost", !.fills = {}]
  <2>1. r \in Process /\ Ghosts(r) /\ r.pc = "lost" /\ become(p, r)
    BY <1>1, LosesShape DEF LeaseInv, CheckRenew, loses
  <2> HIDE DEF r
  <2> QED BY <2>1, CheckedKeeps DEF CheckRenew, Working, Keeper
<1>2. CASE /\ assertHeld(p)
           /\ become(p, [proc[p] EXCEPT !.pc = "renew", !.at = clock, !.sound = own(p)])
  <2> DEFINE r == [proc[p] EXCEPT !.pc = "renew", !.at = clock, !.sound = TRUE]
  <2>1. own(p) = TRUE
    BY <1>2 DEF assertHeld, own
  <2>2. become(p, r)
    BY <1>2, <2>1
  <2>3. /\ r \in Process /\ Ghosts(r) /\ r.pc = "renew"
        /\ r.start = proc[p].start /\ r.fills = proc[p].fills
    BY DEF LeaseInv, Shape, Process, Places, Ghosts, Looked
  <2> HIDE DEF r
  <2> QED BY <2>1, <2>2, <2>3, CheckedKeeps DEF CheckRenew, Keeper
<1> QED BY <1>1, <1>2 DEF CheckRenew

\* A write of the one process with a claim writes every recorded order but the
\* one it removes.
LEMMA WriteKeeps ==
    ASSUME LeaseInv, NEW p \in Procs, Write(p)
    PROVE  LeaseInv'
<1> DEFINE next == proc[p].next
           r == [proc[p] EXCEPT !.pc = "run", !.fills = next, !.next = {},
                                !.sound = FALSE, !.over = FALSE]
<1>1. /\ r \in Process /\ Ghosts(r) /\ become(p, r)
      /\ r.pc = "run" /\ r.start = proc[p].start /\ r.fills = next
  BY DEF LeaseInv, Shape, Write, isAt, Process, Places, Ghosts, Looked
<1>2. next \in SUBSET LeaseOrders /\ proc[p].fills \in SUBSET LeaseOrders
  BY DEF LeaseInv, Shape, Process, Places
<1> HIDE DEF r
<1>3. proc'[p] = r /\ \A q \in Procs \ {p} : proc'[q] = proc[q]
  BY <1>1, Become DEF LeaseInv
<1>4. Shape'
  BY <1>1, <1>2, Become DEF LeaseInv, Shape, Process, Places, Write
<1>5. ASSUME Fenced, ~unfenced' PROVE Fenced'
  <2>1. Claims(p)
    BY <1>5 DEF Write, isAt, Claims, Working, Ahead
  <2>2. recorded \subseteq proc[p].fills
    BY <1>5, <2>1 DEF Fenced, Remembers, Write, isAt
  <2>3. recorded' \subseteq next /\ file' = next
    BY <2>2 DEF Write
  <2>4. \A t : Held(t)' => Held(t)
    BY <1>1, StandingLeases DEF LeaseInv, Write, Keeper
  <2>5. ASSUME NEW q \in Procs, Claims(q)' PROVE q = p
    <3>1. SUFFICES ASSUME q # p PROVE FALSE
      OBVIOUS
    <3>2. proc'[q] = proc[q]
      BY <1>3, <3>1
    <3>3. Held(token(q))' => Held(token(q))
      BY <2>4, <3>2 DEF token, Held, Names, Keeper
    <3>4. Claims(q)
      BY <2>5, <3>2, <3>3 DEF Claims
    <3> QED BY <1>5, <2>1, <3>1, <3>4 DEF Fenced
  <2>6. Remembers(p)'
    BY <1>1, <1>3, <2>3 DEF Remembers
  <2> QED BY <2>3, <2>5, <2>6 DEF Fenced
<1> QED BY <1>4, <1>5 DEF LeaseInv, Write

\* A renewal nobody has overtaken leaves the lease to the process with the claim.
LEMMA RenewKeeps ==
    ASSUME LeaseInv, NEW p \in Procs, Renew(p)
    PROVE  LeaseInv'
<1> DEFINE r == [proc[p] EXCEPT !.pc = "run", !.sound = FALSE, !.over = FALSE]
<1>1. /\ r \in Process /\ Ghosts(r) /\ become(p, r)
      /\ r.pc = "run" /\ r.start = proc[p].start /\ r.fills = proc[p].fills
  BY DEF LeaseInv, Shape, Renew, isAt, Process, Places, Ghosts, Looked
<1> HIDE DEF r
<1>2. proc'[p] = r /\ \A q \in Procs \ {p} : proc'[q] = proc[q]
  BY <1>1, Become DEF LeaseInv
<1>3. lease' \in Lease
  BY DEF LeaseInv, Shape, Process, Places, Lease, token, Renew
<1>4. Shape'
  BY <1>1, <1>3, Become DEF LeaseInv, Shape, Process, Places, Renew
<1>5. ASSUME Fenced, ~unfenced' PROVE Fenced'
  <2>1. Claims(p)
    BY <1>5 DEF Renew, isAt, Claims, Working, Ahead
  <2>2. recorded \subseteq proc[p].fills
    BY <1>5, <2>1 DEF Fenced, Remembers, Renew, isAt
  <2>3. ASSUME NEW q \in Procs, Claims(q)' PROVE q = p
    <3>1. SUFFICES ASSUME q # p PROVE FALSE
      OBVIOUS
    <3>2. proc'[q] = proc[q] /\ token(q)' = token(q)
      BY <1>2, <3>1 DEF token
    <3>3. ~Names(lease', token(q))
      BY <3>1 DEF Renew, Names, token
    <3>4. \A k \in Procs : Keeper(proc'[k]) => Keeper(proc[k])
      BY <1>1, <1>2 DEF Keeper
    <3>5. Held(token(q))' => Held(token(q))
      BY <3>2, <3>3, <3>4 DEF Held, Renew
    <3>6. Claims(q)
      BY <2>3, <3>2, <3>5 DEF Claims
    <3> QED BY <1>5, <2>1, <3>1, <3>6 DEF Fenced
  <2>4. Remembers(p)'
    BY <1>1, <1>2, <2>2 DEF Remembers, Renew
  <2> QED BY <1>5, <2>3, <2>4 DEF Fenced, Renew
<1> QED BY <1>4, <1>5 DEF LeaseInv, Renew

\* The holder checks its lease before it lets it go.
LEMMA CheckReleaseKeeps ==
    ASSUME LeaseInv, NEW p \in Procs, CheckRelease(p)
    PROVE  LeaseInv'
<1> DEFINE stays == [proc[p] EXCEPT !.pc = "release", !.fills = {}, !.sound = TRUE]
           stops == [Idle EXCEPT !.start = proc[p].start]
<1>1. stays \in Process /\ Ghosts(stays) /\ stays.pc = "release"
  BY DEF LeaseInv, Shape, Process, Places, Ghosts, Looked
<1>2. stops \in Process /\ Ghosts(stops) /\ stops.pc = "off"
  BY IdleShape DEF LeaseInv
<1>3. become(p, stays) \/ become(p, stops)
  BY DEF CheckRelease, refuse
<1> HIDE DEF stays, stops
<1>4. PICK r \in Process : Ghosts(r) /\ become(p, r) /\ ~Working(r) /\ ~Keeper(r)
  BY <1>1, <1>2, <1>3 DEF Working, Keeper
<1>5. Shape'
  BY <1>4, Become DEF LeaseInv, Shape, CheckRelease
<1>6. Fenced => Fenced'
  BY <1>4, PassedOn, StandingLeases DEF LeaseInv, CheckRelease
<1> QED BY <1>5, <1>6 DEF LeaseInv, CheckRelease

\* The holder lets its lease go.
LEMMA ReleaseKeeps ==
    ASSUME LeaseInv, NEW p \in Procs, Release(p)
    PROVE  LeaseInv'
<1>1. /\ \A q \in Procs \ {p} : proc'[q] = proc[q]
      /\ proc'[p].pc = "off"
      /\ proc' \in [Procs -> Process]
      /\ \A q \in Procs : Ghosts(proc'[q])
  BY IdleShape, Become DEF LeaseInv, Release, refuse
<1>2. Shape'
  BY <1>1 DEF LeaseInv, Shape, Process, Places, Release
<1>3. \A t : Held(t)' => Held(t)
  BY <1>1 DEF Release, Held, Names, Keeper
<1>4. Fenced => Fenced'
  BY <1>3, RefusedFits DEF LeaseInv, Release
<1> QED BY <1>2, <1>4 DEF LeaseInv, Release

\* A process dies with whatever it held.
LEMMA DieKeeps ==
    ASSUME LeaseInv, NEW p \in Procs, Die(p)
    PROVE  LeaseInv'
<1>1. /\ \A q \in Procs \ {p} : proc'[q] = proc[q]
      /\ proc'[p].pc = "off"
      /\ proc' \in [Procs -> Process]
      /\ \A q \in Procs : Ghosts(proc'[q])
  BY IdleShape, Become DEF LeaseInv, Die, refuse
<1>2. Shape'
  BY <1>1 DEF LeaseInv, Shape, Die
<1>3. \A q \in Procs \ {p} : aside'[q] = aside[q]
  BY DEF LeaseInv, Shape, Die
<1>4. \A t : Held(t)' => Held(t)
  BY <1>1, <1>3 DEF Die, Held, Keeper
<1>5. Fenced => Fenced'
  BY <1>4, RefusedFits DEF LeaseInv, Die
<1> QED BY <1>2, <1>5 DEF LeaseInv, Die

-----------------------------------------------------------------------------
\* The lease invariant holds at the start.
LEMMA LeaseStarts == LeaseInit => LeaseInv
<1> SUFFICES ASSUME LeaseInit PROVE LeaseInv
  OBVIOUS
<1>1. Idle \in Process /\ Ghosts(Idle) /\ Idle.pc = "off"
  BY DEF Idle, Process, Places, Ghosts, Looked
<1>2. Shape
  BY <1>1 DEF LeaseInit, Shape
<1>3. \A p \in Procs : ~Claims(p)
  BY <1>1 DEF LeaseInit, Claims, Working
<1> QED BY <1>2, <1>3 DEF LeaseInv, Fenced, LeaseInit

\* Time passes and nothing else does.
LEMMA LeaseStands ==
    ASSUME LeaseInv, UNCHANGED <<lease, file, aside, proc, recorded, unfenced>>, clock' \in Nat
    PROVE  LeaseInv'
<1>1. Shape'
  BY DEF LeaseInv, Shape
<1>2. Fenced => Fenced'
  BY DEF Fenced, Claims, Remembers, Held, token
<1> QED BY <1>1, <1>2 DEF LeaseInv

\* Every step of the leases keeps their invariant.
LEMMA LeaseSteps == LeaseInv /\ [LeaseNext]_leaseVars => LeaseInv'
<1> SUFFICES ASSUME LeaseInv, [LeaseNext]_leaseVars PROVE LeaseInv'
  OBVIOUS
<1>1. CASE UNCHANGED leaseVars
  BY <1>1, LeaseStands DEF leaseVars, LeaseInv, Shape
<1>2. CASE LeaseClock
  BY <1>2, LeaseStands DEF LeaseClock, LeaseInv, Shape
<1>3. ASSUME NEW p \in Procs,
             Acquire(p) \/ Link(p) \/ Judge(p) \/ Move(p) \/ Compare(p) \/ PutBack(p)
      PROVE  LeaseInv'
  BY <1>3, AcquireKeeps, LinkKeeps, JudgeKeeps, MoveKeeps, CompareKeeps, PutBackKeeps
<1>4. ASSUME NEW p \in Procs,
             Load(p) \/ CheckWrite(p) \/ Write(p) \/ CheckRenew(p) \/ Renew(p)
             \/ CheckRelease(p) \/ Release(p) \/ Die(p)
      PROVE  LeaseInv'
  BY <1>4, LoadKeeps, CheckWriteKeeps, WriteKeeps, CheckRenewKeeps, RenewKeeps,
     CheckReleaseKeeps, ReleaseKeeps, DieKeeps
<1> QED BY <1>1, <1>2, <1>3, <1>4 DEF LeaseNext

\* However many processes share the state file, and wherever they stall or die,
\* no recorded order is erased but by a step that lands after a successor has
\* linked a lease of its own (StateLock, FillStateFile.write).
THEOREM NoOrderErasedTheorem == LeaseSpec => []NoOrderErased
<1>1. LeaseInv => NoOrderErased
  BY DEF LeaseInv, Fenced, NoOrderErased
<1> QED BY LeaseStarts, LeaseSteps, <1>1, PTL DEF LeaseSpec

-----------------------------------------------------------------------------
(* The widget's bridge. *)

Host == [provider : {NoWallet, "w1", "w2"}, ready : BOOLEAN, session : Nat, pending : SUBSET Nat,
         inFlight : Nat, connected : BOOLEAN, destroyed : BOOLEAN]
Frame == [pinned : BOOLEAN, available : BOOLEAN, nextId : Nat, pending : SUBSET Nat, destroyed : BOOLEAN]
ToHost == [type : {"ready", "rpc"}, doc : Nat, id : Nat, accounts : BOOLEAN]
ToFrame == [type : {"provider", "rpcResult", "providerEvent"}, available : BOOLEAN, id : Nat,
            doc : Nat, ok : BOOLEAN]
AtWallet == [doc : Nat, id : Nat, accounts : BOOLEAN, session : Nat]

BridgeTypes ==
  /\ host \in Host
  /\ document \in Nat
  /\ frame \in Frame
  /\ toHost \in Seq(ToHost)
  /\ toFrame \in Seq(ToFrame)
  /\ wallet \in SUBSET AtWallet

\* The documents number their requests, and none comes twice: not among the messages that wait at the
\* host, nor as one of those and one at the wallet.
Numbered ==
  ~host.destroyed =>
    /\ \A i \in DOMAIN toHost : toHost[i].type = "rpc" =>
         /\ toHost[i].doc <= document
         /\ toHost[i].doc = document => toHost[i].id < frame.nextId
         /\ \A r \in wallet : <<r.doc, r.id>> # <<toHost[i].doc, toHost[i].id>>
         /\ \A j \in DOMAIN toHost :
              toHost[j].type = "rpc"
                 /\ <<toHost[j].doc, toHost[j].id>> = <<toHost[i].doc, toHost[i].id>> => i = j
    /\ \A r \in wallet : r.doc <= document /\ (r.doc = document => r.id < frame.nextId)

Counted == IsFiniteSet(wallet) /\ WalletNotFlooded

\* The ready of the document is not handled yet.
ReadyWaits == \E i \in DOMAIN toHost : toHost[i].type = "ready"

\* Of the messages that wait at the host, those of an earlier document come before a ready.
InOrder ==
  \A i \in DOMAIN toHost :
    toHost[i].type = "rpc" =>
      \/ toHost[i].doc = document
      \/ \E j \in DOMAIN toHost : j > i /\ toHost[j].type = "ready"

\* Once its ready is handled the session is the document's.
OwnSession ==
  /\ \A r \in wallet : r.session <= host.session
  /\ ~ReadyWaits /\ ~host.destroyed =>
       /\ \A r \in wallet : r.session = host.session => r.doc = document
       /\ host.connected => AutoConnect \/ document \in asked

\* By the time the document takes the message it is pinned.
PinnedBy(j) == frame.pinned \/ \E i \in DOMAIN toFrame : i < j /\ toFrame[i].type = "provider"

\* A document not told early is pinned by its own ready, and what it takes after that is its own.
OwnMessages ==
  document \notin toldEarly =>
    /\ ReadyWaits => ~frame.pinned /\ \A i \in DOMAIN toFrame : toFrame[i].type # "provider"
    /\ \A j \in DOMAIN toFrame : PinnedBy(j) =>
         /\ toFrame[j].type = "rpcResult" => toFrame[j].doc = document
         /\ toFrame[j].type = "providerEvent" => AutoConnect \/ document \in asked

BridgeInv ==
  /\ BridgeTypes /\ Numbered /\ Counted /\ InOrder /\ OwnSession /\ OwnMessages
  /\ AnswersOwnDocument /\ HeardAfterAsking

-----------------------------------------------------------------------------
(* What the steps have in common. *)

\* Appending a message adds one place, behind all others.
LEMMA Appended ==
  ASSUME NEW S, NEW s \in Seq(S), NEW m \in S
  PROVE  LET t == Append(s, m) IN
         /\ t \in Seq(S)
         /\ \A i \in DOMAIN s : i \in DOMAIN t /\ t[i] = s[i]
         /\ \A i \in DOMAIN t : i \in DOMAIN s \/ t[i] = m
         /\ \A i \in DOMAIN t : i \in DOMAIN s \/ \A j \in DOMAIN s : j < i
         /\ \A i, j \in DOMAIN t : (i \notin DOMAIN s /\ j \notin DOMAIN s) => i = j
         /\ DOMAIN s \subseteq Nat /\ DOMAIN t \subseteq Nat
         /\ \E i \in DOMAIN t : i \notin DOMAIN s
<1> DEFINE t == Append(s, m)
           n == Len(s)
<1>1. /\ t \in Seq(S) /\ n \in Nat /\ DOMAIN s = 1..n /\ DOMAIN t = 1..(n + 1)
      /\ t[n + 1] = m /\ \A i \in 1..n : t[i] = s[i]
  OBVIOUS
<1> HIDE DEF t, n
<1> QED BY <1>1 DEF t

\* A place of a sequence holds one of its members.
LEMMA Member ==
  ASSUME NEW S, NEW s \in Seq(S), NEW i \in DOMAIN s
  PROVE  s[i] \in S
OBVIOUS

\* Dropping the head moves every other place down by one.
LEMMA Dropped ==
  ASSUME NEW S, NEW s \in Seq(S), s # <<>>
  PROVE  LET t == Tail(s) IN
         /\ t \in Seq(S) /\ Head(s) \in S /\ 1 \in DOMAIN s /\ s[1] = Head(s)
         /\ \A i \in DOMAIN t : i + 1 \in DOMAIN s /\ t[i] = s[i + 1]
         /\ \A i \in DOMAIN s : i = 1 \/ (i - 1 \in DOMAIN t /\ t[i - 1] = s[i] /\ i > 1)
         /\ DOMAIN s \subseteq Nat \ {0} /\ DOMAIN t \subseteq Nat \ {0}
OBVIOUS

\* What is remembered is not forgotten.
NothingForgotten == asked \subseteq asked' /\ toldEarly \subseteq toldEarly'

\* Nothing is posted to the frame.
LEMMA NothingPosted ==
  ASSUME OwnMessages, NothingForgotten, document' = document, toFrame' = toFrame,
         frame'.pinned = frame.pinned, ReadyWaits' => ReadyWaits
  PROVE  OwnMessages'
<1>1. \A j : PinnedBy(j)' => PinnedBy(j)
  BY DEF PinnedBy
<1> QED BY <1>1 DEF OwnMessages, NothingForgotten

\* A message is posted to the frame.
LEMMA MessagePosted ==
  ASSUME BridgeTypes, OwnMessages, NothingForgotten, document' = document, frame' = frame,
         NEW m \in ToFrame, toFrame' = Append(toFrame, m),
         ReadyWaits' => ReadyWaits,
         document \notin toldEarly' /\ ReadyWaits' => m.type # "provider",
         document \notin toldEarly' /\ ~ReadyWaits =>
           /\ m.type = "rpcResult" => m.doc = document
           /\ m.type = "providerEvent" => AutoConnect \/ document \in asked'
  PROVE  OwnMessages'
<1>1. SUFFICES ASSUME document \notin toldEarly' PROVE OwnMessages'
  BY DEF OwnMessages
<1>2. document \notin toldEarly
  BY <1>1 DEF NothingForgotten
<1>3. /\ \A i \in DOMAIN toFrame : i \in DOMAIN toFrame' /\ toFrame'[i] = toFrame[i]
      /\ \A i \in DOMAIN toFrame' : i \in DOMAIN toFrame \/ toFrame'[i] = m
      /\ \A i \in DOMAIN toFrame' : i \in DOMAIN toFrame \/ \A j \in DOMAIN toFrame : j < i
      /\ \A i, j \in DOMAIN toFrame' : (i \notin DOMAIN toFrame /\ j \notin DOMAIN toFrame) => i = j
      /\ DOMAIN toFrame \subseteq Nat /\ DOMAIN toFrame' \subseteq Nat
  BY Appended DEF BridgeTypes
<1>4. ReadyWaits' => ~frame'.pinned /\ \A i \in DOMAIN toFrame' : toFrame'[i].type # "provider"
  BY <1>1, <1>2, <1>3 DEF OwnMessages
<1>5. ASSUME NEW j \in DOMAIN toFrame', PinnedBy(j)'
      PROVE  /\ toFrame'[j].type = "rpcResult" => toFrame'[j].doc = document
             /\ toFrame'[j].type = "providerEvent" => AutoConnect \/ document \in asked'
  <2>1. PinnedBy(j)
    <3>1. CASE frame.pinned
      BY <3>1 DEF PinnedBy
    <3>2. CASE ~frame.pinned
      <4>1. PICK i \in DOMAIN toFrame' : i < j /\ toFrame'[i].type = "provider"
        BY <1>5, <3>2 DEF PinnedBy
      <4>2. i \in DOMAIN toFrame
        <5>1. SUFFICES ASSUME i \notin DOMAIN toFrame PROVE FALSE
          OBVIOUS
        <5>2. j \in DOMAIN toFrame
          BY <1>3, <1>5, <4>1, <5>1
        <5> QED BY <1>3, <4>1, <5>1, <5>2
      <4> QED BY <1>3, <4>1, <4>2 DEF PinnedBy
    <3> QED BY <3>1, <3>2
  <2>2. CASE j \in DOMAIN toFrame
    BY <1>2, <1>3, <2>1, <2>2 DEF OwnMessages, NothingForgotten
  <2>3. CASE j \notin DOMAIN toFrame
    <3>1. toFrame'[j] = m
      BY <1>3, <2>3
    <3>2. ~ReadyWaits
      BY <1>2, <2>1 DEF OwnMessages, PinnedBy
    <3> QED BY <1>1, <3>1, <3>2
  <2> QED BY <2>2, <2>3
<1> QED BY <1>4, <1>5 DEF OwnMessages

\* The frame takes a message.
LEMMA MessageTaken ==
  ASSUME BridgeTypes, OwnMessages, document' = document, toFrame # <<>>, toFrame' = Tail(toFrame),
         asked' = asked, toldEarly' = toldEarly, ReadyWaits' <=> ReadyWaits,
         frame'.pinned => frame.pinned \/ Head(toFrame).type = "provider"
  PROVE  OwnMessages'
<1>1. /\ 1 \in DOMAIN toFrame /\ toFrame[1] = Head(toFrame)
      /\ \A i \in DOMAIN toFrame' : i + 1 \in DOMAIN toFrame /\ toFrame'[i] = toFrame[i + 1]
      /\ DOMAIN toFrame \subseteq Nat \ {0} /\ DOMAIN toFrame' \subseteq Nat \ {0}
  BY Dropped DEF BridgeTypes
<1>2. ASSUME NEW j \in DOMAIN toFrame', PinnedBy(j)' PROVE PinnedBy(j + 1)
  BY <1>1, <1>2 DEF PinnedBy
<1> QED BY <1>1, <1>2 DEF OwnMessages

\* What the frame and the host remember of each other stays true.
LEMMA HistoryStays ==
  ASSUME AnswersOwnDocument, HeardAfterAsking, NothingForgotten, resolved' = resolved, heard' = heard
  PROVE  AnswersOwnDocument' /\ HeardAfterAsking'
BY DEF AnswersOwnDocument, HeardAfterAsking, NothingForgotten

\* A step of neither queue nor the wallet.
LEMMA NothingNumbered ==
  ASSUME Numbered, toHost' = toHost, wallet' \subseteq wallet, document' = document,
         frame'.nextId = frame.nextId, host'.destroyed = host.destroyed
  PROVE  Numbered'
BY DEF Numbered

\* The order of the messages to the host rests on them and the document alone.
LEMMA OrderStays ==
  ASSUME InOrder, toHost' = toHost, document' = document
  PROVE  InOrder' /\ (ReadyWaits' <=> ReadyWaits)
BY DEF InOrder, ReadyWaits

-----------------------------------------------------------------------------
(* The host's actions. *)

\* The host takes the first message.
LEMMA HostTakes ==
  ASSUME BridgeTypes, Numbered, InOrder, toHost # <<>>, toHost' = Tail(toHost), ~host.destroyed,
         document' = document, frame' = frame,
         \/ wallet' = wallet
         \/ /\ Head(toHost).type = "rpc"
            /\ \E r : r.doc = Head(toHost).doc /\ r.id = Head(toHost).id /\ wallet' = wallet \cup {r}
  PROVE  /\ toHost' \in Seq(ToHost) /\ Head(toHost) \in ToHost
         /\ Numbered' /\ InOrder'
         /\ ReadyWaits' => ReadyWaits
         /\ Head(toHost).type = "ready" => ReadyWaits
         /\ Head(toHost).type = "rpc" /\ ~ReadyWaits' => Head(toHost).doc = document /\ ~ReadyWaits
         /\ Head(toHost).type = "rpc" /\ ~ReadyWaits => Head(toHost).doc = document
         /\ Head(toHost).type = "rpc" => \A r \in wallet : ~(r.doc = Head(toHost).doc /\ r.id = Head(toHost).id)
<1>1. /\ toHost' \in Seq(ToHost) /\ Head(toHost) \in ToHost
      /\ 1 \in DOMAIN toHost /\ toHost[1] = Head(toHost)
      /\ \A i \in DOMAIN toHost' : i + 1 \in DOMAIN toHost /\ toHost'[i] = toHost[i + 1]
      /\ \A i \in DOMAIN toHost : i = 1 \/ (i - 1 \in DOMAIN toHost' /\ toHost'[i - 1] = toHost[i] /\ i > 1)
      /\ DOMAIN toHost \subseteq Nat \ {0} /\ DOMAIN toHost' \subseteq Nat \ {0}
  BY Dropped DEF BridgeTypes
<1>2. ReadyWaits' => ReadyWaits
  BY <1>1 DEF ReadyWaits
<1>3. Head(toHost).type = "ready" => ReadyWaits
  BY <1>1 DEF ReadyWaits
<1>4. Head(toHost).type = "rpc" /\ ~ReadyWaits' => ~ReadyWaits
  BY <1>1 DEF ReadyWaits
<1>5. Head(toHost).type = "rpc" /\ ~ReadyWaits => Head(toHost).doc = document
  BY <1>1 DEF ReadyWaits, InOrder
<1>6. InOrder'
  <2>1. ASSUME NEW i \in DOMAIN toHost', toHost'[i].type = "rpc", toHost'[i].doc # document
        PROVE  \E j \in DOMAIN toHost' : j > i /\ toHost'[j].type = "ready"
    <3>1. PICK j \in DOMAIN toHost : j > i + 1 /\ toHost[j].type = "ready"
      BY <1>1, <2>1 DEF InOrder
    <3>2. j - 1 \in DOMAIN toHost' /\ toHost'[j - 1].type = "ready" /\ j - 1 > i
      BY <1>1, <3>1
    <3> QED BY <3>2
  <2> QED BY <2>1 DEF InOrder
<1>7. \A i \in DOMAIN toHost' : toHost'[i].type = "rpc" =>
        /\ toHost'[i].doc <= document
        /\ toHost'[i].doc = document => toHost'[i].id < frame.nextId
        /\ \A r \in wallet : <<r.doc, r.id>> # <<toHost'[i].doc, toHost'[i].id>>
        /\ \A j \in DOMAIN toHost' :
             toHost'[j].type = "rpc" /\ <<toHost'[j].doc, toHost'[j].id>> = <<toHost'[i].doc, toHost'[i].id>>
             => i = j
  BY <1>1 DEF Numbered
<1>8. Head(toHost).type = "rpc" =>
        /\ Head(toHost).doc <= document
        /\ Head(toHost).doc = document => Head(toHost).id < frame.nextId
        /\ \A r \in wallet : ~(r.doc = Head(toHost).doc /\ r.id = Head(toHost).id)
        /\ \A i \in DOMAIN toHost' : toHost'[i].type = "rpc" =>
             <<Head(toHost).doc, Head(toHost).id>> # <<toHost'[i].doc, toHost'[i].id>>
  BY <1>1 DEF Numbered
<1>9. \A r \in wallet : r.doc <= document /\ (r.doc = document => r.id < frame.nextId)
  BY DEF Numbered
<1>10. Numbered'
  BY <1>7, <1>8, <1>9 DEF Numbered
<1> QED BY <1>1, <1>2, <1>3, <1>4, <1>5, <1>6, <1>8, <1>10

\* The messages a host sends are messages to a frame.
LEMMA MessageTypes ==
  /\ \A a \in BOOLEAN : Provider(a) \in ToFrame /\ Provider(a).type = "provider"
  /\ \A r, ok : (r.id \in Nat /\ r.doc \in Nat /\ ok \in BOOLEAN) =>
        Result(r, ok) \in ToFrame /\ Result(r, ok).type = "rpcResult" /\ Result(r, ok).doc = r.doc
  /\ Event \in ToFrame /\ Event.type = "providerEvent"
BY DEF Provider, Result, Event, ToFrame

\* A ready is handled.
LEMMA ReadyStep ==
  ASSUME BridgeInv, HostReceives, Head(toHost).type = "ready"
  PROVE  BridgeInv'
<1>1. /\ toHost # <<>> /\ ~host.destroyed /\ toHost' = Tail(toHost) /\ host' = onReady(host)
      /\ toFrame' = Append(toFrame, Provider(attached(host)))
      /\ wallet' = wallet /\ document' = document /\ frame' = frame /\ resolved' = resolved
      /\ heard' = heard /\ asked' = asked /\ toldEarly' = tellsEarly(Tail(toHost))
  BY DEF HostReceives
<1>2. BridgeTypes /\ Numbered /\ Counted /\ InOrder /\ OwnSession /\ OwnMessages
      /\ AnswersOwnDocument /\ HeardAfterAsking
  BY DEF BridgeInv
<1>3. /\ host' \in Host /\ host'.session = host.session + 1 /\ host'.connected = AutoConnect
      /\ host'.inFlight = host.inFlight /\ host.session \in Nat
  <2>1. host \in Host /\ host.session \in Nat
    BY <1>2 DEF BridgeTypes, Host
  <2>2. PICK n \in Nat : n = host.session + 1
    BY <2>1
  <2>3. host' = [host EXCEPT !.session = n, !.pending = {}, !.connected = AutoConnect, !.ready = TRUE]
    BY <1>1, <2>2 DEF onReady
  <2>4. host' \in Host /\ host'.session = n /\ host'.connected = AutoConnect
        /\ host'.inFlight = host.inFlight
    BY <2>1, <2>3, BridgeConstants DEF Host
  <2> QED BY <2>1, <2>2, <2>4
<1>4. attached(host) \in BOOLEAN
  BY DEF attached
<1>5. Provider(attached(host)) \in ToFrame /\ Provider(attached(host)).type = "provider"
  BY <1>4, MessageTypes
<1> DEFINE m == Provider(attached(host))
<1>6. m \in ToFrame /\ m.type = "provider" /\ toFrame' = Append(toFrame, m)
  BY <1>1, <1>5
<1> HIDE DEF m
<1>7. /\ toHost' \in Seq(ToHost) /\ Numbered' /\ InOrder' /\ ReadyWaits /\ (ReadyWaits' => ReadyWaits)
  BY <1>1, <1>2, HostTakes
<1>8. NothingForgotten /\ (ReadyWaits' => document \in toldEarly')
  BY <1>1 DEF NothingForgotten, tellsEarly, ReadyWaits
<1>9. OwnMessages'
  BY <1>1, <1>2, <1>6, <1>7, <1>8, MessagePosted
<1>10. OwnSession'
  <2>1. \A r \in wallet : r.session <= host.session /\ r.session \in Nat
    BY <1>2 DEF OwnSession, BridgeTypes, AtWallet
  <2> QED BY <1>1, <1>3, <2>1 DEF OwnSession
<1>11. BridgeTypes'
  BY <1>1, <1>2, <1>3, <1>6, <1>7, Appended DEF BridgeTypes
<1>12. Counted'
  BY <1>1, <1>2, <1>3 DEF Counted, WalletNotFlooded
<1> QED BY <1>1, <1>2, <1>7, <1>8, <1>9, <1>10, <1>11, <1>12, HistoryStays DEF BridgeInv

\* A request is ignored, refused, or goes to the wallet.
LEMMA RequestStep ==
  ASSUME BridgeInv, HostReceives, Head(toHost).type # "ready"
  PROVE  BridgeInv'
<1> DEFINE m == Head(toHost)
           r == [doc |-> m.doc, id |-> m.id, accounts |-> m.accounts, session |-> host.session]
<1>1. /\ toHost # <<>> /\ ~host.destroyed /\ toHost' = Tail(toHost)
      /\ document' = document /\ frame' = frame /\ resolved' = resolved
      /\ heard' = heard /\ asked' = asked /\ toldEarly' = toldEarly
  BY DEF HostReceives
<1>2. /\ BridgeTypes /\ Numbered /\ Counted /\ InOrder /\ OwnSession /\ OwnMessages
      /\ AnswersOwnDocument /\ HeardAfterAsking
  BY DEF BridgeInv
<1>3. m \in ToHost /\ m.type = "rpc" /\ m.doc \in Nat /\ m.id \in Nat /\ m.accounts \in BOOLEAN
  <2>1. m \in ToHost
    BY <1>1, <1>2, Dropped DEF BridgeTypes
  <2> QED BY <2>1 DEF ToHost
<1>4. NothingForgotten
  BY <1>1 DEF NothingForgotten
<1>5. host \in Host /\ host.session \in Nat /\ host.inFlight \in Nat
  BY <1>2 DEF BridgeTypes, Host
<1>6. r \in AtWallet /\ r.doc = m.doc /\ r.id = m.id /\ r.session = host.session
  BY <1>3, <1>5 DEF AtWallet
<1>7. \/ wallet' = wallet /\ host' = host
      \/ /\ wallet' = wallet \cup {r} /\ toFrame' = toFrame /\ host.inFlight < MaxPendingRpc
         /\ host' = [host EXCEPT !.pending = @ \cup {m.id}, !.inFlight = @ + 1]
  <2>1. \/ wallet' = wallet /\ host' = host
        \/ /\ wallet' = wallet \cup {r} /\ toFrame' = toFrame /\ ~(host.inFlight >= MaxPendingRpc)
           /\ host' = [host EXCEPT !.pending = @ \cup {m.id}, !.inFlight = @ + 1]
    BY DEF HostReceives
  <2> QED BY <1>5, <2>1, BridgeConstants
<1>8. toFrame' = toFrame \/ toFrame' = Append(toFrame, Result(m, FALSE))
  BY DEF HostReceives
<1> HIDE DEF r
<1>9. /\ toHost' \in Seq(ToHost) /\ Numbered' /\ InOrder'
      /\ ReadyWaits' => ReadyWaits
      /\ ~ReadyWaits' => m.doc = document /\ ~ReadyWaits
      /\ ~ReadyWaits => m.doc = document
      /\ \A w \in wallet : ~(w.doc = m.doc /\ w.id = m.id)
  <2>1. \/ wallet' = wallet
        \/ \E w : w.doc = Head(toHost).doc /\ w.id = Head(toHost).id /\ wallet' = wallet \cup {w}
    BY <1>6, <1>7
  <2> QED BY <1>1, <1>2, <1>3, <2>1, HostTakes
<1>10. OwnMessages'
  <2>1. CASE toFrame' = toFrame
    BY <1>1, <1>2, <1>4, <1>9, <2>1, NothingPosted
  <2>2. CASE toFrame' = Append(toFrame, Result(m, FALSE))
    <3>1. Result(m, FALSE) \in ToFrame /\ Result(m, FALSE).type = "rpcResult" /\ Result(m, FALSE).doc = m.doc
      BY <1>3, MessageTypes
    <3>2. PICK a \in ToFrame : a = Result(m, FALSE)
      BY <3>1
    <3> HIDE DEF m
    <3> QED BY <1>1, <1>2, <1>4, <1>9, <2>2, <3>1, <3>2, MessagePosted
  <2> QED BY <1>8, <2>1, <2>2
<1>11. toFrame' \in Seq(ToFrame)
  <2>1. PICK a \in ToFrame : a = Result(m, FALSE)
    BY <1>3, MessageTypes
  <2>2. toFrame \in Seq(ToFrame)
    BY <1>2 DEF BridgeTypes
  <2>3. Append(toFrame, a) \in Seq(ToFrame)
    BY <2>1, <2>2, Appended
  <2> QED BY <1>8, <2>1, <2>2, <2>3
<1>12. host' \in Host /\ host'.session = host.session /\ host'.connected = host.connected
  <2>1. CASE host' = host
    BY <1>5, <2>1
  <2>2. CASE host' = [host EXCEPT !.pending = @ \cup {m.id}, !.inFlight = @ + 1]
    <3>1. PICK n \in Nat : n = host.inFlight + 1
      BY <1>5
    <3>2. PICK ids \in SUBSET Nat : ids = host.pending \cup {m.id}
      BY <1>3, <1>5 DEF Host
    <3>3. host' = [host EXCEPT !.pending = ids, !.inFlight = n]
      BY <2>2, <3>1, <3>2
    <3> QED BY <1>5, <3>3 DEF Host
  <2> QED BY <1>7, <2>1, <2>2
<1>13. BridgeTypes'
  BY <1>1, <1>2, <1>6, <1>7, <1>9, <1>11, <1>12 DEF BridgeTypes
<1>14. OwnSession'
  BY <1>1, <1>2, <1>5, <1>6, <1>7, <1>9, <1>12 DEF OwnSession
<1>15. Counted'
  <2>1. CASE wallet' = wallet /\ host' = host
    BY <1>2, <2>1 DEF Counted, WalletNotFlooded
  <2>2. CASE /\ wallet' = wallet \cup {r} /\ host.inFlight < MaxPendingRpc
             /\ host' = [host EXCEPT !.pending = @ \cup {m.id}, !.inFlight = @ + 1]
    <3>1. r \notin wallet
      BY <1>6, <1>9
    <3>2. IsFiniteSet(wallet') /\ Cardinality(wallet') = Cardinality(wallet) + 1
      BY <1>2, <2>2, <3>1, FS_AddElement DEF Counted
    <3>3. host'.inFlight = host.inFlight + 1
      BY <1>5, <2>2 DEF Host
    <3> QED BY <1>2, <1>5, <2>2, <3>2, <3>3, BridgeConstants DEF Counted, WalletNotFlooded
  <2> QED BY <1>7, <2>1, <2>2
<1> QED BY <1>1, <1>2, <1>4, <1>9, <1>10, <1>13, <1>14, <1>15, HistoryStays DEF BridgeInv

\* The wallet settles a request.
LEMMA SettleStep ==
  ASSUME BridgeInv, NEW r \in wallet, NEW ok \in BOOLEAN, WalletSettles(r, ok)
  PROVE  BridgeInv'
<1>1. /\ toHost' = toHost /\ wallet' = wallet \ {r} /\ document' = document /\ frame' = frame
      /\ resolved' = resolved /\ heard' = heard /\ toldEarly' = toldEarly
  BY DEF WalletSettles
<1>2. /\ BridgeTypes /\ Numbered /\ Counted /\ InOrder /\ OwnSession /\ OwnMessages
      /\ AnswersOwnDocument /\ HeardAfterAsking
  BY DEF BridgeInv
<1>3. host \in Host /\ host.inFlight \in Nat /\ r \in AtWallet /\ r.doc \in Nat /\ r.id \in Nat
      /\ r.accounts \in BOOLEAN
  BY <1>2 DEF BridgeTypes, Host, AtWallet
<1>4. IsFiniteSet(wallet') /\ Cardinality(wallet') = Cardinality(wallet) - 1
      /\ host.inFlight = Cardinality(wallet) /\ Cardinality(wallet) \in Nat /\ Cardinality(wallet) # 0
  BY <1>1, <1>2, FS_RemoveElement, FS_EmptySet, FS_CardinalityType DEF Counted, WalletNotFlooded
<1>5. PICK n \in Nat : n = host.inFlight - 1
  BY <1>4
<1>6. /\ InOrder' /\ (ReadyWaits' <=> ReadyWaits)
  BY <1>1, <1>2, OrderStays
<1>7. CASE host.destroyed \/ r.session # host.session
  <2>1. host' = [host EXCEPT !.inFlight = n] /\ toFrame' = toFrame /\ asked' = asked
    BY <1>5, <1>7 DEF WalletSettles
  <2>2. /\ host' \in Host /\ host'.inFlight = n /\ host'.session = host.session
        /\ host'.connected = host.connected /\ host'.destroyed = host.destroyed
    BY <1>3, <2>1 DEF Host
  <2>3. NothingForgotten
    BY <1>1, <2>1 DEF NothingForgotten
  <2>4. OwnMessages'
    BY <1>1, <1>2, <1>6, <2>1, <2>3, NothingPosted
  <2>5. Numbered'
    BY <1>1, <1>2, <2>2, NothingNumbered
  <2>6. OwnSession'
    BY <1>1, <1>2, <1>6, <2>1, <2>2 DEF OwnSession
  <2>7. Counted'
    BY <1>2, <1>4, <1>5, <2>2, BridgeConstants DEF Counted, WalletNotFlooded
  <2>8. BridgeTypes'
    BY <1>1, <1>2, <2>1, <2>2 DEF BridgeTypes
  <2> QED BY <1>1, <1>2, <1>6, <2>3, <2>4, <2>5, <2>6, <2>7, <2>8, HistoryStays DEF BridgeInv
<1>8. CASE ~host.destroyed /\ r.session = host.session
  <2>1. PICK c \in BOOLEAN : c = (host.connected \/ (r.accounts /\ ok))
    OBVIOUS
  <2>2. PICK ids \in SUBSET Nat : ids = host.pending \ {r.id}
    BY <1>3 DEF Host
  <2>3. host' = [host EXCEPT !.inFlight = n, !.pending = ids, !.connected = c]
    BY <1>5, <1>8, <2>1, <2>2 DEF WalletSettles
  <2>4. /\ host' \in Host /\ host'.inFlight = n /\ host'.session = host.session
        /\ host'.connected = c /\ host'.destroyed = host.destroyed
    BY <1>3, <2>3 DEF Host
  <2>5. /\ toFrame' = Append(toFrame, Result(r, ok))
        /\ asked' = IF r.accounts /\ ok THEN asked \cup {r.doc} ELSE asked
    BY <1>8 DEF WalletSettles
  <2>6. NothingForgotten
    BY <1>1, <2>5 DEF NothingForgotten
  <2>7. ~ReadyWaits => r.doc = document
    BY <1>2, <1>8 DEF OwnSession
  <2>8. Result(r, ok) \in ToFrame /\ Result(r, ok).type = "rpcResult" /\ Result(r, ok).doc = r.doc
    BY <1>3, MessageTypes
  <2>9. PICK a \in ToFrame : a = Result(r, ok)
    BY <2>8
  <2>10. OwnMessages'
    BY <1>1, <1>2, <1>6, <2>5, <2>6, <2>7, <2>8, <2>9, MessagePosted
  <2>11. Numbered'
    BY <1>1, <1>2, <2>4, NothingNumbered
  <2>12. OwnSession'
    BY <1>1, <1>2, <1>6, <2>1, <2>4, <2>5, <2>7 DEF OwnSession
  <2>13. Counted'
    BY <1>2, <1>4, <1>5, <2>4, BridgeConstants DEF Counted, WalletNotFlooded
  <2>14. BridgeTypes'
    BY <1>1, <1>2, <2>4, <2>5, <2>8, Appended DEF BridgeTypes
  <2> QED BY <1>1, <1>2, <1>6, <2>6, <2>10, <2>11, <2>12, <2>13, <2>14, HistoryStays DEF BridgeInv
<1> QED BY <1>7, <1>8

\* A step that touches neither the messages to the host nor the wallet nor the frame, and of the host at
\* most what the frame does not depend on.
LEMMA HostOnly ==
  ASSUME BridgeInv, NothingForgotten, toHost' = toHost, wallet' = wallet, document' = document, frame' = frame,
         resolved' = resolved, heard' = heard, asked' = asked, host' \in Host,
         host'.inFlight = host.inFlight, host'.destroyed = host.destroyed,
         \/ host'.session = host.session /\ host'.connected = host.connected
         \/ host'.session = host.session + 1 /\ host'.connected = AutoConnect,
         toFrame' \in Seq(ToFrame), OwnMessages'
  PROVE  BridgeInv'
<1>1. /\ BridgeTypes /\ Numbered /\ Counted /\ InOrder /\ OwnSession
      /\ AnswersOwnDocument /\ HeardAfterAsking
  BY DEF BridgeInv
<1>2. InOrder' /\ (ReadyWaits' <=> ReadyWaits) /\ Numbered'
  BY <1>1, OrderStays, NothingNumbered
<1>3. \A r \in wallet : r.session <= host.session /\ r.session \in Nat
  BY <1>1 DEF OwnSession, BridgeTypes, AtWallet
<1>4. host.session \in Nat
  BY <1>1 DEF BridgeTypes, Host
<1>5. OwnSession'
  <2>1. CASE host'.session = host.session /\ host'.connected = host.connected
    BY <1>1, <1>2, <2>1 DEF OwnSession
  <2>2. CASE host'.session = host.session + 1 /\ host'.connected = AutoConnect
    BY <1>3, <1>4, <2>2 DEF OwnSession
  <2> QED BY <2>1, <2>2
<1>6. Counted' /\ BridgeTypes'
  BY <1>1 DEF Counted, WalletNotFlooded, BridgeTypes
<1> QED BY <1>1, <1>2, <1>5, <1>6, HistoryStays DEF BridgeInv

\* The wallet emits, and the host swaps wallets.
LEMMA EmitStep ==
  ASSUME BridgeInv, WalletEmits
  PROVE  BridgeInv'
<1>1. /\ toHost' = toHost /\ wallet' = wallet /\ document' = document /\ frame' = frame
      /\ resolved' = resolved /\ heard' = heard /\ asked' = asked /\ toldEarly' = toldEarly /\ host' = host
  BY DEF WalletEmits
<1>2. BridgeTypes /\ OwnSession /\ OwnMessages /\ InOrder /\ toFrame \in Seq(ToFrame) /\ host \in Host
  BY DEF BridgeInv, BridgeTypes
<1>3. NothingForgotten /\ (ReadyWaits' <=> ReadyWaits)
  BY <1>1, <1>2, OrderStays DEF NothingForgotten
<1>4. OwnMessages' /\ toFrame' \in Seq(ToFrame)
  <2>1. CASE toFrame' = toFrame
    BY <1>1, <1>2, <1>3, <2>1, NothingPosted
  <2>2. CASE toFrame' # toFrame
    <3>1. toFrame' = Append(toFrame, Event) /\ ~host.destroyed /\ host.connected
      BY <2>2 DEF WalletEmits
    <3>2. PICK a \in ToFrame : a = Event /\ a.type = "providerEvent"
      BY MessageTypes
    <3>3. ~ReadyWaits => AutoConnect \/ document \in asked
      BY <1>2, <3>1 DEF OwnSession
    <3>4. OwnMessages'
      BY <1>1, <1>2, <1>3, <3>1, <3>2, <3>3, MessagePosted
    <3> QED BY <1>2, <3>1, <3>2, <3>4, Appended
  <2> QED BY <2>1, <2>2
<1> QED BY <1>1, <1>2, <1>3, <1>4, HostOnly

\* The host swaps the wallet of its provider.
LEMMA SwapStep ==
  ASSUME BridgeInv, NEW next \in {NoWallet, "w1", "w2"}, UpdateProvider(next)
  PROVE  BridgeInv'
<1>1. /\ toHost' = toHost /\ wallet' = wallet /\ document' = document /\ frame' = frame
      /\ resolved' = resolved /\ heard' = heard /\ asked' = asked
      /\ host' = [host EXCEPT !.provider = next]
      /\ toldEarly' = IF host.ready THEN tellsEarly(toHost) ELSE toldEarly
  BY DEF UpdateProvider
<1>2. BridgeTypes /\ OwnSession /\ OwnMessages /\ InOrder /\ toFrame \in Seq(ToFrame) /\ host \in Host
  BY DEF BridgeInv, BridgeTypes
<1>3. NothingForgotten /\ (ReadyWaits' <=> ReadyWaits)
  BY <1>1, <1>2, OrderStays DEF NothingForgotten, tellsEarly
<1>4. /\ host' \in Host /\ host'.inFlight = host.inFlight /\ host'.destroyed = host.destroyed
      /\ host'.session = host.session /\ host'.connected = host.connected
  BY <1>1, <1>2 DEF Host
<1>5. OwnMessages' /\ toFrame' \in Seq(ToFrame)
  <2>1. CASE ~host.ready
    <3>1. toFrame' = toFrame
      BY <2>1 DEF UpdateProvider
    <3> QED BY <1>1, <1>2, <1>3, <3>1, NothingPosted
  <2>2. CASE host.ready
    <3>1. toFrame' = Append(toFrame, Provider(next # NoWallet))
      BY <2>2 DEF UpdateProvider
    <3>2. ReadyWaits' => document \in toldEarly'
      BY <1>1, <1>3, <2>2 DEF tellsEarly, ReadyWaits
    <3>3. PICK b \in BOOLEAN : b = (next # NoWallet)
      OBVIOUS
    <3>4. PICK a \in ToFrame : a = Provider(b) /\ a.type = "provider"
      BY MessageTypes
    <3>5. toFrame' = Append(toFrame, a)
      BY <3>1, <3>3, <3>4
    <3>6. OwnMessages'
      BY <1>1, <1>2, <1>3, <3>2, <3>4, <3>5, MessagePosted
    <3> QED BY <1>2, <3>5, <3>6, Appended
  <2> QED BY <2>1, <2>2
<1> QED BY <1>1, <1>2, <1>3, <1>4, <1>5, HostOnly

\* The host updates the parameters.
LEMMA ParamsStep ==
  ASSUME BridgeInv, UpdateParams
  PROVE  BridgeInv'
<1>1. /\ toHost' = toHost /\ wallet' = wallet /\ document' = document /\ frame' = frame
      /\ resolved' = resolved /\ heard' = heard /\ asked' = asked /\ toFrame' = toFrame
      /\ toldEarly' = toldEarly
      /\ host' = [host EXCEPT !.ready = FALSE, !.session = @ + 1, !.pending = {}, !.connected = AutoConnect]
  BY DEF UpdateParams
<1>2. BridgeTypes /\ OwnSession /\ OwnMessages /\ InOrder /\ toFrame \in Seq(ToFrame) /\ host \in Host
      /\ host.session \in Nat
  BY DEF BridgeInv, BridgeTypes, Host
<1>3. NothingForgotten /\ (ReadyWaits' <=> ReadyWaits)
  BY <1>1, <1>2, OrderStays DEF NothingForgotten
<1>4. PICK n \in Nat : n = host.session + 1
  BY <1>2
<1>5. host' = [host EXCEPT !.ready = FALSE, !.session = n, !.pending = {}, !.connected = AutoConnect]
  BY <1>1, <1>4
<1>6. /\ host' \in Host /\ host'.inFlight = host.inFlight /\ host'.destroyed = host.destroyed
      /\ host'.session = n /\ host'.connected = AutoConnect
  BY <1>2, <1>5, BridgeConstants DEF Host
<1>7. OwnMessages'
  BY <1>1, <1>2, <1>3, NothingPosted
<1> QED BY <1>1, <1>2, <1>3, <1>4, <1>6, <1>7, HostOnly

-----------------------------------------------------------------------------
(* The documents. *)

\* A new connection is a frame that trusts no document yet.
LEMMA ConnectionType ==
  /\ Connection \in Frame /\ Connection.pinned = FALSE /\ Connection.nextId = 1
  /\ [Connection EXCEPT !.destroyed = TRUE] \in Frame
  /\ [Connection EXCEPT !.destroyed = TRUE].pinned = FALSE
BY DEF Connection, Frame

\* The host destroys the widget.
LEMMA DestroyStep ==
  ASSUME BridgeInv, DestroyWidget
  PROVE  BridgeInv'
<1>1. /\ host' = [host EXCEPT !.destroyed = TRUE, !.provider = NoWallet, !.pending = {}]
      /\ frame' = [Connection EXCEPT !.destroyed = TRUE]
      /\ toHost' = <<>> /\ toFrame' = <<>>
      /\ wallet' = wallet /\ document' = document
      /\ resolved' = resolved /\ heard' = heard /\ asked' = asked /\ toldEarly' = toldEarly
  BY DEF DestroyWidget
<1>2. BridgeTypes /\ Counted /\ OwnSession /\ AnswersOwnDocument /\ HeardAfterAsking /\ host \in Host
  BY DEF BridgeInv, BridgeTypes
<1>3. /\ host' \in Host /\ host'.inFlight = host.inFlight /\ host'.destroyed = TRUE
      /\ host'.session = host.session
  BY <1>1, <1>2 DEF Host
<1>4. frame' \in Frame /\ frame'.pinned = FALSE
  BY <1>1, ConnectionType
<1>5. NothingForgotten
  BY <1>1 DEF NothingForgotten
<1>6. BridgeTypes'
  BY <1>1, <1>2, <1>3, <1>4 DEF BridgeTypes
<1>7. Numbered' /\ Counted' /\ InOrder' /\ OwnSession'
  BY <1>1, <1>2, <1>3 DEF Numbered, Counted, WalletNotFlooded, InOrder, OwnSession
<1>8. OwnMessages'
  BY <1>1, <1>4 DEF OwnMessages, ReadyWaits
<1> QED BY <1>1, <1>2, <1>5, <1>6, <1>7, <1>8, HistoryStays DEF BridgeInv

\* A document is loaded.
LEMMA LoadStep ==
  ASSUME BridgeInv, LoadDocument
  PROVE  BridgeInv'
<1> DEFINE m == [type |-> "ready", doc |-> document + 1, id |-> 0, accounts |-> FALSE]
<1>1. /\ ~host.destroyed /\ document' = document + 1 /\ frame' = Connection
      /\ toHost' = Append(toHost, m) /\ toFrame' = <<>> /\ host' = host /\ wallet' = wallet
      /\ resolved' = resolved /\ heard' = heard /\ asked' = asked /\ toldEarly' = toldEarly
  BY DEF LoadDocument
<1>2. /\ BridgeTypes /\ Numbered /\ Counted /\ InOrder /\ OwnSession
      /\ AnswersOwnDocument /\ HeardAfterAsking /\ document \in Nat /\ toHost \in Seq(ToHost)
  BY DEF BridgeInv, BridgeTypes
<1>3. m \in ToHost /\ m.type = "ready"
  BY <1>2 DEF ToHost
<1> HIDE DEF m
<1>4. /\ toHost' \in Seq(ToHost)
      /\ \A i \in DOMAIN toHost : i \in DOMAIN toHost' /\ toHost'[i] = toHost[i]
      /\ \A i \in DOMAIN toHost' : i \in DOMAIN toHost \/ toHost'[i] = m
      /\ \A i \in DOMAIN toHost' : i \in DOMAIN toHost \/ \A j \in DOMAIN toHost : j < i
      /\ DOMAIN toHost \subseteq Nat
      /\ \E i \in DOMAIN toHost' : i \notin DOMAIN toHost
  BY <1>1, <1>2, <1>3, Appended
<1>5. PICK n \in DOMAIN toHost' : toHost'[n].type = "ready" /\ \A i \in DOMAIN toHost : i < n
  BY <1>3, <1>4
<1>6. ReadyWaits' /\ InOrder'
  BY <1>3, <1>4, <1>5 DEF ReadyWaits, InOrder
<1>14. \A i \in DOMAIN toHost : toHost[i].doc \in Nat
  <2>1. \A i \in DOMAIN toHost : toHost[i] \in ToHost
    BY <1>2, Member
  <2> QED BY <2>1 DEF ToHost
<1>7. \A i \in DOMAIN toHost : toHost[i].type = "rpc" => toHost[i].doc < document + 1
  <2>1. \A i \in DOMAIN toHost : toHost[i].doc \in Nat
    BY <1>14
  <2> QED BY <1>1, <1>2, <2>1 DEF Numbered
<1>8. \A r \in wallet : r.doc < document + 1
  BY <1>1, <1>2 DEF Numbered, BridgeTypes, AtWallet
<1>9. \A i \in DOMAIN toHost' : toHost'[i].type = "rpc" => i \in DOMAIN toHost
  BY <1>3, <1>4
<1>10. Numbered'
  <2>1. ASSUME NEW i \in DOMAIN toHost', toHost'[i].type = "rpc"
        PROVE  /\ i \in DOMAIN toHost /\ toHost'[i] = toHost[i]
               /\ toHost'[i].doc <= document + 1 /\ toHost'[i].doc # document + 1
               /\ \A r \in wallet : <<r.doc, r.id>> # <<toHost'[i].doc, toHost'[i].id>>
               /\ \A j \in DOMAIN toHost' :
                    toHost'[j].type = "rpc"
                    /\ <<toHost'[j].doc, toHost'[j].id>> = <<toHost'[i].doc, toHost'[i].id>> => i = j
    <3>1. i \in DOMAIN toHost /\ toHost'[i] = toHost[i] /\ toHost[i].doc \in Nat
      BY <1>4, <1>9, <1>14, <2>1
    <3>2. toHost'[i].doc <= document + 1 /\ toHost'[i].doc # document + 1
      BY <1>2, <1>7, <2>1, <3>1
    <3> QED BY <1>1, <1>2, <1>4, <1>9, <2>1, <3>1, <3>2 DEF Numbered
  <2>2. \A r \in wallet : r.doc <= document + 1 /\ r.doc # document + 1
    BY <1>2, <1>8 DEF BridgeTypes, AtWallet
  <2> QED BY <1>1, <2>1, <2>2 DEF Numbered
<1>11. OwnSession'
  BY <1>1, <1>2, <1>6 DEF OwnSession
<1>12. OwnMessages'
  BY <1>1, ConnectionType DEF OwnMessages
<1>13. BridgeTypes' /\ Counted' /\ NothingForgotten
  BY <1>1, <1>2, <1>4, ConnectionType DEF BridgeTypes, Counted, WalletNotFlooded, NothingForgotten
<1> QED BY <1>1, <1>2, <1>6, <1>10, <1>11, <1>12, <1>13, HistoryStays DEF BridgeInv

\* The frame makes a request of its provider.
LEMMA RequestsStep ==
  ASSUME BridgeInv, NEW accounts \in BOOLEAN, FrameRequests(accounts)
  PROVE  BridgeInv'
<1> DEFINE m == [type |-> "rpc", doc |-> document, id |-> frame.nextId, accounts |-> accounts]
<1>1. /\ host' = host /\ wallet' = wallet /\ document' = document /\ toFrame' = toFrame
      /\ resolved' = resolved /\ heard' = heard /\ asked' = asked /\ toldEarly' = toldEarly
      /\ toHost' = Append(toHost, m)
      /\ frame' = [frame EXCEPT !.nextId = @ + 1, !.pending = @ \cup {frame.nextId}]
  BY DEF FrameRequests
<1>2. /\ BridgeTypes /\ Numbered /\ Counted /\ InOrder /\ OwnSession /\ OwnMessages
      /\ AnswersOwnDocument /\ HeardAfterAsking /\ document \in Nat /\ toHost \in Seq(ToHost)
      /\ frame \in Frame
  BY DEF BridgeInv, BridgeTypes
<1>3. frame.nextId \in Nat /\ frame.pending \in SUBSET Nat
  BY <1>2 DEF Frame
<1>4. PICK n \in Nat : n = frame.nextId + 1
  BY <1>3
<1>17. PICK ids \in SUBSET Nat : ids = frame.pending \cup {frame.nextId}
  BY <1>3
<1>5. frame' = [frame EXCEPT !.nextId = n, !.pending = ids]
  BY <1>1, <1>4, <1>17
<1>6. frame' \in Frame /\ frame'.nextId = n /\ frame'.pinned = frame.pinned
  BY <1>2, <1>5 DEF Frame
<1>7. m \in ToHost /\ m.type = "rpc" /\ m.doc = document /\ m.id = frame.nextId
  BY <1>2, <1>3 DEF ToHost
<1> HIDE DEF m
<1>8. /\ toHost' \in Seq(ToHost)
      /\ \A i \in DOMAIN toHost : i \in DOMAIN toHost' /\ toHost'[i] = toHost[i]
      /\ \A i \in DOMAIN toHost' : i \in DOMAIN toHost \/ toHost'[i] = m
      /\ \A i, j \in DOMAIN toHost' : (i \notin DOMAIN toHost /\ j \notin DOMAIN toHost) => i = j
  BY <1>1, <1>2, <1>7, Appended
<1>9. ReadyWaits' <=> ReadyWaits
  BY <1>7, <1>8 DEF ReadyWaits
<1>10. InOrder'
  BY <1>1, <1>2, <1>7, <1>8 DEF InOrder
<1>11. /\ \A i \in DOMAIN toHost : toHost[i].id \in Nat
       /\ \A r \in wallet : r.id \in Nat
  <2>1. \A i \in DOMAIN toHost : toHost[i] \in ToHost
    BY <1>2, Member
  <2> QED BY <1>2, <2>1 DEF ToHost, BridgeTypes, AtWallet
<1>12. Numbered'
  <2>1. SUFFICES ASSUME ~host.destroyed PROVE Numbered'
    BY <1>1 DEF Numbered
  <2>2. \A r \in wallet : r.doc <= document /\ (r.doc = document => r.id < n)
    BY <1>2, <1>3, <1>4, <1>11, <2>1 DEF Numbered
  <2>3. ASSUME NEW i \in DOMAIN toHost', toHost'[i].type = "rpc"
        PROVE  /\ toHost'[i].doc <= document
               /\ toHost'[i].doc = document => toHost'[i].id < n
               /\ \A r \in wallet : <<r.doc, r.id>> # <<toHost'[i].doc, toHost'[i].id>>
    <3>1. CASE i \in DOMAIN toHost
      <4>1. toHost'[i] = toHost[i] /\ toHost[i].id \in Nat
        BY <1>8, <1>11, <3>1
      <4> QED BY <1>2, <1>3, <1>4, <2>1, <2>3, <3>1, <4>1 DEF Numbered
    <3>2. CASE i \notin DOMAIN toHost
      <4>1. toHost'[i] = m
        BY <1>8, <3>2
      <4>2. \A r \in wallet : r.doc = document => r.id # frame.nextId
        BY <1>2, <1>3, <1>11, <2>1 DEF Numbered
      <4> QED BY <1>2, <1>3, <1>4, <1>7, <4>1, <4>2
    <3> QED BY <3>1, <3>2
  <2>4. ASSUME NEW i \in DOMAIN toHost', NEW j \in DOMAIN toHost', toHost'[i].type = "rpc",
               toHost'[j].type = "rpc",
               toHost'[j].doc = toHost'[i].doc, toHost'[j].id = toHost'[i].id
        PROVE  i = j
    <3>1. \A k \in DOMAIN toHost : toHost[k].type = "rpc" /\ toHost[k].doc = document
                                   => toHost[k].id # frame.nextId
      BY <1>2, <1>3, <1>11, <2>1 DEF Numbered
    <3>2. CASE i \in DOMAIN toHost /\ j \in DOMAIN toHost
      BY <1>2, <1>8, <2>1, <2>4, <3>2 DEF Numbered
    <3>3. CASE i \notin DOMAIN toHost /\ j \notin DOMAIN toHost
      BY <1>8, <3>3
    <3>4. CASE i \in DOMAIN toHost /\ j \notin DOMAIN toHost
      BY <1>7, <1>8, <2>4, <3>1, <3>4
    <3>5. CASE i \notin DOMAIN toHost /\ j \in DOMAIN toHost
      BY <1>7, <1>8, <2>4, <3>1, <3>5
    <3> QED BY <3>2, <3>3, <3>4, <3>5
  <2> QED BY <1>1, <1>6, <2>2, <2>3, <2>4 DEF Numbered
<1>13. NothingForgotten
  BY <1>1 DEF NothingForgotten
<1>14. OwnMessages'
  BY <1>1, <1>2, <1>6, <1>9, <1>13, NothingPosted
<1>15. OwnSession'
  BY <1>1, <1>2, <1>9 DEF OwnSession
<1>16. BridgeTypes' /\ Counted'
  BY <1>1, <1>2, <1>6, <1>8 DEF BridgeTypes, Counted, WalletNotFlooded
<1> QED BY <1>1, <1>2, <1>10, <1>12, <1>13, <1>14, <1>15, <1>16, HistoryStays DEF BridgeInv

\* The frame takes a message, or closes the bridge.
LEMMA TakesStep ==
  ASSUME BridgeInv, FrameReceives
  PROVE  BridgeInv'
<1> DEFINE m == Head(toFrame)
<1>1. /\ host' = host /\ wallet' = wallet /\ document' = document /\ toHost' = toHost
      /\ asked' = asked /\ toldEarly' = toldEarly /\ toFrame # <<>> /\ toFrame' = Tail(toFrame)
  BY DEF FrameReceives
<1>2. /\ BridgeTypes /\ Numbered /\ Counted /\ InOrder /\ OwnSession /\ OwnMessages
      /\ AnswersOwnDocument /\ HeardAfterAsking /\ toFrame \in Seq(ToFrame) /\ frame \in Frame
  BY DEF BridgeInv, BridgeTypes
<1>3. m \in ToFrame /\ toFrame' \in Seq(ToFrame) /\ 1 \in DOMAIN toFrame /\ toFrame[1] = m
  BY <1>1, <1>2, Dropped
<1>4. m.available \in BOOLEAN
  BY <1>3 DEF ToFrame
<1>5. \/ m.type = "provider" /\ frame' = setAvailable(frame, m.available) /\ resolved' = resolved /\ heard' = heard
      \/ /\ m.type = "rpcResult" /\ frame.pinned /\ frame' = [frame EXCEPT !.pending = @ \ {m.id}]
         /\ resolved' = resolved \cup {[doc |-> document, id |-> m.id, from |-> m.doc]} /\ heard' = heard
      \/ /\ m.type = "providerEvent" /\ frame.pinned /\ frame' = frame /\ resolved' = resolved
         /\ heard' = heard \cup {document}
      \/ frame' = frame /\ resolved' = resolved /\ heard' = heard
  BY DEF FrameReceives
<1> HIDE DEF m
<1>6. /\ frame' \in Frame /\ frame'.nextId = frame.nextId
      /\ frame'.pinned => frame.pinned \/ m.type = "provider"
  <2>1. CASE m.type = "provider" /\ frame' = setAvailable(frame, m.available)
    <3>1. PICK ids \in SUBSET Nat : ids = IF frame.available /\ ~m.available THEN {} ELSE frame.pending
      BY <1>2 DEF Frame
    <3>2. frame' = [frame EXCEPT !.pinned = TRUE, !.available = m.available, !.pending = ids]
      BY <2>1, <3>1 DEF setAvailable
    <3> QED BY <1>2, <1>4, <2>1, <3>2 DEF Frame
  <2>2. CASE frame' = [frame EXCEPT !.pending = @ \ {m.id}]
    <3>1. PICK ids \in SUBSET Nat : ids = frame.pending \ {m.id}
      BY <1>2 DEF Frame
    <3>2. frame' = [frame EXCEPT !.pending = ids]
      BY <2>2, <3>1
    <3> QED BY <1>2, <3>2 DEF Frame
  <2>3. CASE frame' = frame
    BY <1>2, <2>3
  <2> QED BY <1>5, <2>1, <2>2, <2>3
<1>7. frame.pinned /\ document \notin toldEarly =>
        /\ m.type = "rpcResult" => m.doc = document
        /\ m.type = "providerEvent" => AutoConnect \/ document \in asked
  BY <1>2, <1>3 DEF OwnMessages, PinnedBy
<1>8. AnswersOwnDocument' /\ HeardAfterAsking'
  BY <1>1, <1>2, <1>5, <1>7 DEF AnswersOwnDocument, HeardAfterAsking
<1>9. InOrder' /\ (ReadyWaits' <=> ReadyWaits)
  BY <1>1, <1>2, OrderStays
<1>10. OwnMessages'
  BY <1>1, <1>2, <1>6, <1>9, MessageTaken DEF m
<1>11. OwnSession'
  BY <1>1, <1>2, <1>9 DEF OwnSession
<1>12. Numbered'
  BY <1>1, <1>2, <1>6, NothingNumbered
<1>13. BridgeTypes' /\ Counted'
  BY <1>1, <1>2, <1>3, <1>6 DEF BridgeTypes, Counted, WalletNotFlooded
<1> QED BY <1>8, <1>9, <1>10, <1>11, <1>12, <1>13 DEF BridgeInv

\* The frame closes its side of the bridge.
LEMMA ClosesStep ==
  ASSUME BridgeInv, FrameDestroys
  PROVE  BridgeInv'
<1>1. /\ host' = host /\ wallet' = wallet /\ document' = document /\ toHost' = toHost
      /\ asked' = asked /\ toldEarly' = toldEarly /\ toFrame' = toFrame /\ resolved' = resolved
      /\ heard' = heard /\ frame' = [frame EXCEPT !.destroyed = TRUE, !.pending = {}]
  BY DEF FrameDestroys
<1>2. /\ BridgeTypes /\ Numbered /\ Counted /\ InOrder /\ OwnSession /\ OwnMessages
      /\ AnswersOwnDocument /\ HeardAfterAsking /\ frame \in Frame
  BY DEF BridgeInv, BridgeTypes
<1>3. frame' \in Frame /\ frame'.nextId = frame.nextId /\ frame'.pinned = frame.pinned
  BY <1>1, <1>2 DEF Frame
<1>4. InOrder' /\ (ReadyWaits' <=> ReadyWaits) /\ NothingForgotten
  BY <1>1, <1>2, OrderStays DEF NothingForgotten
<1>5. OwnMessages'
  BY <1>1, <1>2, <1>3, <1>4, NothingPosted
<1>6. OwnSession'
  BY <1>1, <1>2, <1>4 DEF OwnSession
<1>7. Numbered'
  BY <1>1, <1>2, <1>3, NothingNumbered
<1>8. BridgeTypes' /\ Counted'
  BY <1>1, <1>2, <1>3 DEF BridgeTypes, Counted, WalletNotFlooded
<1> QED BY <1>1, <1>2, <1>4, <1>5, <1>6, <1>7, <1>8, HistoryStays DEF BridgeInv

-----------------------------------------------------------------------------
(* The theorem. *)

\* The bridge invariant holds at the start.
LEMMA BridgeStarts == BridgeInit => BridgeInv
<1>1. SUFFICES ASSUME BridgeInit PROVE BridgeInv
  OBVIOUS
<1> DEFINE m == [type |-> "ready", doc |-> 1, id |-> 0, accounts |-> FALSE]
<1>2. m \in ToHost /\ m.type = "ready"
  BY DEF ToHost
<1>3. /\ host \in Host /\ host.session = 0 /\ host.inFlight = 0
  <2>1. /\ host.provider \in {NoWallet, "w1", "w2"} /\ host.ready \in BOOLEAN /\ host.session = 0
        /\ host.pending = {} /\ host.inFlight = 0 /\ host.connected = AutoConnect
        /\ host.destroyed \in BOOLEAN
    BY <1>1 DEF BridgeInit
  <2>2. host = [provider |-> host.provider, ready |-> host.ready, session |-> host.session,
                pending |-> host.pending, inFlight |-> host.inFlight, connected |-> host.connected,
                destroyed |-> host.destroyed]
    BY <1>1 DEF BridgeInit
  <2>3. host.connected \in BOOLEAN /\ host.session \in Nat /\ host.inFlight \in Nat
        /\ host.pending \in SUBSET Nat
    BY <2>1, BridgeConstants
  <2> QED BY <2>1, <2>2, <2>3 DEF Host
<1> HIDE DEF m
<1>4. toHost = <<m>> /\ frame = Connection /\ toFrame = <<>> /\ wallet = {} /\ document = 1
      /\ resolved = {} /\ heard = {}
  BY <1>1 DEF BridgeInit, m
<1>5. toHost \in Seq(ToHost) /\ \A i \in DOMAIN toHost : toHost[i].type = "ready"
  BY <1>2, <1>4
<1>6. ReadyWaits
  BY <1>2, <1>4 DEF ReadyWaits
<1>7. IsFiniteSet(wallet) /\ Cardinality(wallet) = 0
  BY <1>4, FS_EmptySet
<1>8. BridgeTypes /\ Counted
  BY <1>3, <1>4, <1>5, <1>7, ConnectionType, BridgeConstants DEF BridgeTypes, Counted, WalletNotFlooded
<1>9. Numbered /\ InOrder
  BY <1>4, <1>5 DEF Numbered, InOrder
<1>10. OwnSession
  BY <1>4, <1>6 DEF OwnSession
<1>11. OwnMessages
  BY <1>4, ConnectionType DEF OwnMessages
<1> QED BY <1>4, <1>8, <1>9, <1>10, <1>11 DEF BridgeInv, AnswersOwnDocument, HeardAfterAsking

\* Every step of the bridge keeps its invariant.
LEMMA BridgeSteps == BridgeInv /\ [BridgeNext]_bridgeVars => BridgeInv'
<1>1. SUFFICES ASSUME BridgeInv, [BridgeNext]_bridgeVars PROVE BridgeInv'
  OBVIOUS
<1>2. CASE UNCHANGED bridgeVars
  BY <1>1, <1>2 DEF bridgeVars, BridgeInv, BridgeTypes, Numbered, Counted, WalletNotFlooded, InOrder,
       OwnSession, OwnMessages, PinnedBy, ReadyWaits, AnswersOwnDocument, HeardAfterAsking
<1>3. CASE HostReceives
  BY <1>1, <1>3, ReadyStep, RequestStep
<1>4. ASSUME NEW r \in wallet, NEW ok \in BOOLEAN, WalletSettles(r, ok) PROVE BridgeInv'
  BY <1>1, <1>4, SettleStep
<1>5. ASSUME NEW next \in {NoWallet, "w1", "w2"}, UpdateProvider(next) PROVE BridgeInv'
  BY <1>1, <1>5, SwapStep
<1>6. ASSUME NEW accounts \in BOOLEAN, FrameRequests(accounts) PROVE BridgeInv'
  BY <1>1, <1>6, RequestsStep
<1>7. CASE WalletEmits \/ UpdateParams \/ DestroyWidget
  BY <1>1, <1>7, EmitStep, ParamsStep, DestroyStep
<1>8. CASE LoadDocument \/ FrameReceives \/ FrameDestroys
  BY <1>1, <1>8, LoadStep, TakesStep, ClosesStep
<1> QED BY <1>1, <1>2, <1>3, <1>4, <1>5, <1>6, <1>7, <1>8 DEF BridgeNext

\* However often the frame reloads, the host swaps wallets and the wallet takes its time: a document is
\* answered and told only what it asked for (unless it was told of a wallet before its ready was
\* handled), and no more requests are at the wallet than the cap.  Code: widget.ts, frame.ts.
THEOREM BridgeTheorem == BridgeInit /\ [][BridgeNext]_bridgeVars => []BridgeSound
<1>1. BridgeInv => BridgeSound
  BY DEF BridgeInv, BridgeSound, Counted
<1> QED BY <1>1, BridgeStarts, BridgeSteps, PTL

-----------------------------------------------------------------------------
(* The provider's daemon and its ledger. *)

Payloads == DOMAIN Timestamp
Stages == {"new", "queued", "hash", "sign", "record", "reply", "done"}
ServedRequest == [pc : Stages, key : Nat, since : Nat, sig : Nat, replayed : BOOLEAN,
            answer : Errors \cup {"none", "signature"}]

ProviderTypes ==
  /\ second \in Nat /\ key \in Nat /\ made \in Nat
  /\ request \in [Calls -> ServedRequest]
  /\ waiting \in Seq(Calls)
  /\ \A e \in entries : e.payload \in Payloads /\ e.sig \in Nat

\* The ledger has one row of a payload.
OneRow == \A e, f \in entries : e.payload = f.payload => e = f

\* A request is answered by its last step.
Answers == \A c \in Calls : request[c].pc # "done" => request[c].answer = "none"

Active(c) == request[c].pc \in {"hash", "sign", "record", "reply"}
\* A request that hashes works while it is at the head of the queue.
Serial ==
  \A c \in Calls : usesBarretenberg(c) /\ Active(c) => waiting # <<>> /\ Head(waiting) = c

\* The policy took the request no longer ago than its hashing may take.
InTime ==
  \A c \in Calls : request[c].pc = "hash" =>
    /\ second <= request[c].since + MaxSkew
    /\ daemon(c) => Timestamp[PayloadOf[c]] >= request[c].since - MaxAge

\* What expired is past what the policy takes, from then on.
Aged ==
  \A g \in dropped : g.why = "expired" =>
    g.payload \in Payloads /\ Timestamp[g.payload] < second - retentionSeconds

\* The request has the signature it answers with, or is about to get one.
Has(c) == RouteOf[c] # "root" /\ (request[c].pc = "reply" \/ request[c].answer = "signature")
Signing(c) == RouteOf[c] # "root" /\ request[c].pc \in {"sign", "record"}
Same(c, d) == PayloadOf[c] = PayloadOf[d] /\ request[c].key = request[d].key
\* Its row is in the ledger, or a row of its payload was lost.
Stored(c) ==
  \/ \E e \in entries : e.payload = PayloadOf[c] /\ e.key = request[c].key /\ e.sig = request[c].sig
  \/ \E g \in dropped : g.payload = PayloadOf[c]

AllStored == \A c \in Calls : Has(c) => Stored(c)
\* A request of the daemon that found no row, while another has the signature, found it lost.
Missed ==
  \A c, d \in Calls : Signing(c) /\ Has(d) /\ Same(c, d) /\ daemon(c) /\ daemon(d) => lost(c, d)
Agree ==
  \A c, d \in Calls : Has(c) /\ Has(d) /\ Same(c, d) => request[c].sig = request[d].sig \/ lost(c, d)

\* A daemon that takes requests has a signer.
Alive == listening \in {"yes", "closing"} => key # 0

Ledger == OneRow /\ Aged /\ AllStored /\ Missed /\ Agree
Handled == ProviderTypes /\ Answers /\ Serial /\ InTime /\ ReleasedIsAudited /\ NoUseAfterDestroy /\ Alive
ProviderInv == Handled /\ Ledger

-----------------------------------------------------------------------------

\* The provider invariant holds at the start.
LEMMA ProviderStarts == ProviderInit => ProviderInv
<1> SUFFICES ASSUME ProviderInit PROVE ProviderInv
  OBVIOUS
<1>0. \A c \in Calls : request[c] = NoRequest
  BY DEF ProviderInit
<1>1. ProviderTypes
  BY DEF ProviderInit, ProviderTypes, ServedRequest, NoRequest, Stages, Errors
<1>2. OneRow /\ Aged
  BY DEF ProviderInit, OneRow, Aged
<1>3. Answers /\ Serial /\ InTime /\ ReleasedIsAudited /\ NoUseAfterDestroy
  BY <1>0 DEF Answers, Serial, InTime, ReleasedIsAudited, NoUseAfterDestroy, Active, inFlight, NoRequest
<1>4. Alive
  BY DEF ProviderInit, Alive
<1>5. AllStored /\ Missed /\ Agree
  BY <1>0 DEF AllStored, Missed, Agree, Has, Signing, NoRequest
<1> QED BY <1>1, <1>2, <1>3, <1>4, <1>5 DEF ProviderInv, Ledger, Handled

\* What a step does to the one request it is about.
Changes(c, r) == r \in ServedRequest /\ request' = [request EXCEPT ![c] = r]

\* Changing one request leaves the others alone.
LEMMA Changed ==
  ASSUME ProviderTypes, NEW c \in Calls, NEW r, Changes(c, r)
  PROVE  /\ request' \in [Calls -> ServedRequest]
         /\ request'[c] = r
         /\ \A d \in Calls : d # c => request'[d] = request[d]
  BY DEF Changes, ProviderTypes

\* The daemon's routes that use the ledger hold the queue: one is at work at a time.
LEMMA OneAtATime ==
  ASSUME ProviderConstants, Serial, NEW c \in Calls, NEW d \in Calls, daemon(c), daemon(d),
         RouteOf[c] # "root", RouteOf[d] # "root", Active(c), Active(d)
  PROVE  c = d
  BY DEF ProviderConstants, Serial, daemon, usesBarretenberg

\* A step that leaves the ledger alone and gives no request a signature to answer.
LEMMA LedgerStands ==
  ASSUME Ledger, entries' = entries, dropped' = dropped, second' = second,
         \A d \in Calls : Has(d)' => /\ Has(d) /\ request'[d].key = request[d].key
                                     /\ request'[d].sig = request[d].sig,
         \A d \in Calls : Signing(d)' => Signing(d) /\ request'[d].key = request[d].key
  PROVE  Ledger'
<1>1. OneRow' /\ Aged'
  BY DEF Ledger, OneRow, Aged
<1>2. AllStored'
  BY DEF Ledger, AllStored, Stored
<1>3. \A c, d \in Calls : lost(c, d) => lost(c, d)'
  BY DEF lost
<1>4. Missed'
  BY <1>3 DEF Ledger, Missed, Same
<1>5. Agree'
  BY <1>3 DEF Ledger, Agree, Same
<1> QED BY <1>1, <1>2, <1>4, <1>5 DEF Ledger

\* A step of one request, in what it leaves to the others.
LEMMA RequestMoves ==
  ASSUME Handled, NEW c \in Calls, NEW r, Changes(c, r),
         second' = second, key' = key, listening' = listening, made' \in Nat, waiting' \in Seq(Calls),
         \A e \in entries' : e.payload \in Payloads /\ e.sig \in Nat,
         r.pc # "done" => r.answer = "none",
         r.pc = "hash" => /\ second <= r.since + MaxSkew
                          /\ daemon(c) => Timestamp[PayloadOf[c]] >= r.since - MaxAge,
         log \subseteq log',
         daemon(c) /\ r.answer = "signature" =>
           \E l \in log' : l.call = c /\ l.outcome \in {"signed", "replayed"},
         daemon(c) /\ r.pc \notin {"new", "done"} => key # 0,
         usesBarretenberg(c) /\ r.pc \in {"hash", "sign", "record", "reply"} =>
           waiting' # <<>> /\ Head(waiting') = c,
         \A d \in Calls : d # c /\ usesBarretenberg(d) /\ Active(d) =>
           waiting' # <<>> /\ Head(waiting') = d
  PROVE  Handled'
<1>1. /\ request' \in [Calls -> ServedRequest]
      /\ request'[c] = r
      /\ \A d \in Calls : d # c => request'[d] = request[d]
  BY Changed DEF Handled
<1>2. ProviderTypes'
  BY <1>1 DEF Handled, ProviderTypes
<1>3. Answers'
  BY <1>1 DEF Handled, Answers
<1>4. Serial'
  BY <1>1 DEF Handled, Serial, Active
<1>5. InTime'
  BY <1>1 DEF Handled, InTime
<1>6. ReleasedIsAudited'
  BY <1>1 DEF Handled, ReleasedIsAudited
<1>7. NoUseAfterDestroy'
  BY <1>1 DEF Handled, NoUseAfterDestroy, inFlight
<1>8. Alive'
  BY DEF Handled, Alive
<1> QED BY <1>2, <1>3, <1>4, <1>5, <1>6, <1>7, <1>8 DEF Handled

\* What one request's step leaves of the others' stake in the ledger.
LEMMA NothingStored ==
  ASSUME ProviderInv, NEW c \in Calls, NEW r, Changes(c, r),
         entries' = entries, dropped' = dropped, second' = second,
         RouteOf[c] # "root" /\ (r.pc = "reply" \/ r.answer = "signature") =>
           Has(c) /\ r.key = request[c].key /\ r.sig = request[c].sig,
         RouteOf[c] # "root" /\ r.pc \in {"sign", "record"} => Signing(c) /\ r.key = request[c].key
  PROVE  Ledger'
<1>1. /\ request' \in [Calls -> ServedRequest]
      /\ request'[c] = r
      /\ \A d \in Calls : d # c => request'[d] = request[d]
  BY Changed DEF ProviderInv, Handled
<1>2. \A d \in Calls : Has(d)' => /\ Has(d) /\ request'[d].key = request[d].key
                                  /\ request'[d].sig = request[d].sig
  BY <1>1 DEF Has
<1>3. \A d \in Calls : Signing(d)' => Signing(d) /\ request'[d].key = request[d].key
  BY <1>1 DEF Signing
<1> QED BY <1>2, <1>3, LedgerStands DEF ProviderInv

\* The last step of a request.
LEMMA Finishes ==
  ASSUME ProviderTypes, NEW c \in Calls, NEW answer \in Errors \cup {"signature"}, finish(c, answer)
  PROVE  LET r == [request[c] EXCEPT !.pc = "done", !.answer = answer]
         IN Changes(c, r) /\ r.pc = "done" /\ r.answer = answer /\ r.key = request[c].key /\ r.sig = request[c].sig
  BY DEF ProviderTypes, ServedRequest, Stages, finish, Changes

\* A step that only moves a request on keeps its answer, key and signature.
LEMMA Relabels ==
  ASSUME ProviderTypes, NEW c \in Calls, NEW label \in Stages, step(c, label)
  PROVE  LET r == [request[c] EXCEPT !.pc = label]
         IN /\ Changes(c, r) /\ r.pc = label /\ r.answer = request[c].answer
            /\ r.key = request[c].key /\ r.sig = request[c].sig
  BY DEF ProviderTypes, ServedRequest, Stages, step, Changes

\* A refusal ends the request with an error, its line in the log or not.
LEMMA Refuses ==
  ASSUME ProviderInv, NEW c \in Calls, NEW code \in Errors, rejected(c, code),
         second' = second, key' = key, listening' = listening, made' = made,
         entries' = entries, dropped' = dropped, waiting' \in Seq(Calls),
         \A d \in Calls : d # c /\ usesBarretenberg(d) /\ Active(d) => waiting' # <<>> /\ Head(waiting') = d
  PROVE  ProviderInv'
<1>1. PICK error \in Errors : finish(c, error)
  BY DEF rejected, Errors
<1> DEFINE r == [request[c] EXCEPT !.pc = "done", !.answer = error]
<1>2. Changes(c, r) /\ r.pc = "done" /\ r.answer = error
  BY <1>1, Finishes DEF ProviderInv, Handled
<1>3. error # "signature" /\ error # "none"
  BY DEF Errors
<1>4. log \subseteq log'
  BY DEF rejected, writes, writeFails
<1> HIDE DEF r
<1>5. Handled'
  BY <1>2, <1>3, <1>4, RequestMoves DEF ProviderInv, Handled, ProviderTypes
<1>6. Ledger'
  BY <1>2, <1>3, NothingStored
<1> QED BY <1>5, <1>6 DEF ProviderInv

\* The request at the head gives up its place; the others at work are of no queue.
LEMMA GivesUp ==
  ASSUME ProviderTypes, Serial, NEW c \in Calls, running(c), leaves(c)
  PROVE  /\ waiting' \in Seq(Calls)
         /\ \A d \in Calls : d # c /\ usesBarretenberg(d) /\ Active(d) => waiting' # <<>> /\ Head(waiting') = d
  BY DEF ProviderTypes, Serial, running, leaves

\* Who is at work stays at the head of the line when another joins it.
LEMMA StaysInLine ==
  ASSUME ProviderTypes, Serial, NEW c \in Calls, waiting' = waiting \/ waiting' = Append(waiting, c)
  PROVE  /\ waiting' \in Seq(Calls)
         /\ \A d \in Calls : usesBarretenberg(d) /\ Active(d) => waiting' # <<>> /\ Head(waiting') = d
<1>1. CASE waiting' = waiting
  BY <1>1 DEF ProviderTypes, Serial
<1>2. CASE waiting' = Append(waiting, c)
  <2>1. waiting \in Seq(Calls) /\ waiting' \in Seq(Calls) /\ waiting' # <<>>
    BY <1>2 DEF ProviderTypes
  <2>2. waiting # <<>> => Head(waiting') = Head(waiting)
    BY <1>2, <2>1
  <2> QED BY <2>1, <2>2 DEF Serial
<1> QED BY <1>1, <1>2

\* A request arrives and, if it hashes, joins the line.
LEMMA ArriveStep ==
  ASSUME ProviderConstants, ProviderInv, NEW c \in Calls, Arrive(c)
  PROVE  ProviderInv'
<1>0. ProviderTypes /\ Serial
  BY DEF ProviderInv, Handled
<1>1. CASE rejected(c, refusal(c)) /\ refusal(c) # "none" /\ UNCHANGED waiting
  <2>1. refusal(c) \in Errors
    BY <1>1 DEF refusal, Errors
  <2> QED BY <1>0, <1>1, <2>1, StaysInLine, Refuses DEF Arrive
<1>2. CASE /\ refusal(c) = "none" /\ step(c, "queued")
           /\ waiting' = IF usesBarretenberg(c) THEN Append(waiting, c) ELSE waiting
           /\ UNCHANGED <<auditBroken, failures, log>>
  <2> DEFINE r == [request[c] EXCEPT !.pc = "queued"]
  <2>1. Changes(c, r) /\ r.pc = "queued" /\ r.answer = request[c].answer
    BY <1>0, <1>2, Relabels DEF Stages
  <2>2. r.answer = "none"
    BY <2>1 DEF ProviderInv, Handled, Answers, Arrive
  <2>3. key # 0
    BY DEF Arrive, ProviderInv, Handled, Alive
  <2>4. /\ waiting' \in Seq(Calls)
        /\ \A d \in Calls : usesBarretenberg(d) /\ Active(d) => waiting' # <<>> /\ Head(waiting') = d
    BY <1>0, <1>2, StaysInLine
  <2>5. second' = second /\ key' = key /\ listening' = listening /\ made' = made /\ entries' = entries
        /\ dropped' = dropped /\ log' = log
    BY <1>2 DEF Arrive
  <2> HIDE DEF r
  <2>6. Handled'
    BY <1>0, <2>1, <2>2, <2>3, <2>4, <2>5, RequestMoves DEF ProviderInv, ProviderTypes
  <2>7. Ledger'
    BY <2>1, <2>2, <2>5, NothingStored
  <2> QED BY <2>6, <2>7 DEF ProviderInv
<1> QED BY <1>1, <1>2 DEF Arrive

\* A request is held to the policy when its turn comes.
LEMMA EnforceStep ==
  ASSUME ProviderConstants, ProviderInv, NEW c \in Calls, Enforce(c)
  PROVE  ProviderInv'
<1>0. ProviderTypes /\ Serial
  BY DEF ProviderInv, Handled
<1>00. second' = second /\ key' = key /\ listening' = listening /\ made' = made /\ entries' = entries
       /\ dropped' = dropped
  BY DEF Enforce
<1>1. CASE policyRefusal(c) # "none" /\ rejected(c, policyRefusal(c)) /\ leaves(c)
  <2>1. policyRefusal(c) \in Errors
    BY <1>1 DEF policyRefusal, enforceCredentialRootPolicy, enforceSignalPolicy, Errors
  <2>2. running(c)
    BY DEF Enforce
  <2> QED BY <1>0, <1>00, <1>1, <2>1, <2>2, GivesUp, Refuses
<1>2. CASE /\ policyRefusal(c) = "none" /\ UNCHANGED <<waiting, auditBroken, failures, log>>
           /\ request' = [request EXCEPT ![c] = IF RouteOf[c] = "root" THEN [@ EXCEPT !.pc = "sign", !.key = key]
                                               ELSE [@ EXCEPT !.pc = "hash", !.since = second, !.key = key]]
  <2> DEFINE r == IF RouteOf[c] = "root" THEN [request[c] EXCEPT !.pc = "sign", !.key = key]
                  ELSE [request[c] EXCEPT !.pc = "hash", !.since = second, !.key = key]
  <2>1. request[c] \in ServedRequest /\ key \in Nat /\ second \in Nat
    BY <1>0 DEF ProviderTypes
  <2>2. /\ r \in ServedRequest /\ r.answer = request[c].answer
        /\ RouteOf[c] = "root" => r.pc = "sign"
        /\ RouteOf[c] # "root" => r.pc = "hash" /\ r.since = second
    BY <2>1 DEF ServedRequest, Stages
  <2>3. Changes(c, r)
    BY <1>2, <2>2 DEF Changes
  <2>4. r.answer = "none"
    BY <2>2 DEF ProviderInv, Handled, Answers, Enforce
  <2>5. daemon(c) => key # 0
    BY DEF ProviderInv, Handled, NoUseAfterDestroy, inFlight, Enforce
  <2> HIDE DEF r
  <2>6. r.pc = "hash" => /\ second <= r.since + MaxSkew
                         /\ daemon(c) => Timestamp[PayloadOf[c]] >= r.since - MaxAge
    <3>1. RouteOf[c] # "root" =>
            ~(Timestamp[PayloadOf[c]] < second - MaxAge)
      BY <1>2 DEF policyRefusal, enforceSignalPolicy
    <3> QED BY <2>1, <2>2, <3>1 DEF ProviderConstants
  <2>7. usesBarretenberg(c) => waiting # <<>> /\ Head(waiting) = c
    BY DEF Enforce, running
  <2>8. /\ waiting' \in Seq(Calls)
        /\ \A d \in Calls : usesBarretenberg(d) /\ Active(d) => waiting' # <<>> /\ Head(waiting') = d
    BY <1>0, <1>2, StaysInLine
  <2>9. Handled'
    BY <1>0, <1>00, <1>2, <2>2, <2>3, <2>4, <2>5, <2>6, <2>7, <2>8, RequestMoves DEF ProviderInv, ProviderTypes
  <2>10. Ledger'
    BY <1>00, <2>2, <2>3, <2>4, NothingStored
  <2> QED BY <2>9, <2>10 DEF ProviderInv
<1> QED BY <1>1, <1>2 DEF Enforce

\* A program signs on the same ledger, past the daemon.
LEMMA DirectStep ==
  ASSUME ProviderConstants, ProviderInv, NEW c \in Calls, CallDirect(c)
  PROVE  ProviderInv'
<1>0. ProviderTypes /\ Serial
  BY DEF ProviderInv, Handled
<1> DEFINE r == [request[c] EXCEPT !.pc = "hash", !.since = second, !.key = key]
<1>1. request[c] \in ServedRequest /\ key \in Nat /\ second \in Nat
  BY <1>0 DEF ProviderTypes
<1>2. r \in ServedRequest /\ r.answer = request[c].answer /\ r.pc = "hash" /\ r.since = second
  BY <1>1 DEF ServedRequest, Stages
<1>3. request' = [request EXCEPT ![c] = r]
  BY DEF CallDirect
<1>4. r.answer = "none"
  BY <1>2 DEF ProviderInv, Handled, Answers, CallDirect
<1>5. ~daemon(c) /\ ~usesBarretenberg(c)
  BY DEF CallDirect, daemon, usesBarretenberg
<1>6. UNCHANGED <<second, key, entries, waiting, listening, auditBroken, made, failures, log, dropped>>
  BY DEF CallDirect
<1> HIDE DEF r
<1>7. second <= r.since + MaxSkew
  BY <1>1, <1>2 DEF ProviderConstants
<1>8. Handled'
  BY <1>0, <1>2, <1>3, <1>4, <1>5, <1>6, <1>7, RequestMoves DEF ProviderInv, ProviderTypes, Serial, Changes
<1>9. Ledger'
  BY <1>2, <1>3, <1>4, <1>6, NothingStored DEF Changes
<1> QED BY <1>8, <1>9 DEF ProviderInv

\* A payload the daemon still hashes has not expired.
LEMMA StillFresh ==
  ASSUME ProviderConstants, ProviderTypes, InTime, NEW c \in Calls, request[c].pc = "hash", daemon(c)
  PROVE  ~(Timestamp[PayloadOf[c]] < second - retentionSeconds)
<1>1. /\ second \in Nat /\ request[c].since \in Nat /\ Timestamp[PayloadOf[c]] \in Int
      /\ MaxAge \in Nat /\ MaxSkew \in Nat
  BY DEF ProviderConstants, ProviderTypes, ServedRequest
<1>2. second <= request[c].since + MaxSkew /\ Timestamp[PayloadOf[c]] >= request[c].since - MaxAge
  BY DEF InTime
<1> QED BY <1>1, <1>2 DEF retentionSeconds

\* What is evicted has expired.
LEMMA Evicted ==
  ASSUME NEW e \in entries, e \notin retained
  PROVE  expired(e)
  BY DEF retained

\* A record that leaves is noted.
LEMMA Noted ==
  ASSUME NEW es, NEW new, NEW why, NEW e \in es, e \notin new
  PROVE  \E g \in left(es, new, why) : g.payload = e.payload /\ g.why = why
<1> DEFINE g == [payload |-> e.payload, why |-> why]
<1>1. g \in left(es, new, why)
  BY DEF left
<1>2. g.payload = e.payload /\ g.why = why
  OBVIOUS
<1> HIDE DEF g
<1> QED BY <1>1, <1>2

\* What the ledger drops for its age is of a second before its retention.
LEMMA EvictedAged ==
  ASSUME ProviderConstants, ProviderTypes, NEW g \in left(entries, retained, "expired")
  PROVE  g.why = "expired" /\ g.payload \in Payloads /\ Timestamp[g.payload] < second - retentionSeconds
<1>1. PICK e \in entries : e \notin retained /\ g = [payload |-> e.payload, why |-> "expired"]
  BY DEF left
<1> QED BY <1>1, Evicted DEF expired, ProviderTypes

\* The ledger is asked whether the payload was signed before.
LEMMA LookupStep ==
  ASSUME ProviderConstants, ProviderInv, NEW c \in Calls, Lookup(c)
  PROVE  ProviderInv'
<1>0. ProviderTypes /\ Serial /\ InTime /\ OneRow /\ Aged /\ AllStored /\ Missed /\ Agree
  BY DEF ProviderInv, Handled, Ledger
<1>u. /\ UNCHANGED <<second, key, waiting, listening, auditBroken, made, failures, log>>
      /\ entries' = retained /\ dropped' = dropped \cup left(entries, retained, "expired")
      /\ request[c].pc = "hash"
  BY DEF Lookup
<1> DEFINE hit == {e \in lookup(PayloadOf[c]) : e.key = request[c].key}
           found == CHOOSE e \in hit : TRUE
           r == IF hit # {} THEN [request[c] EXCEPT !.pc = "reply", !.replayed = TRUE, !.since = 0, !.sig = found.sig]
                ELSE [request[c] EXCEPT !.pc = "sign", !.since = 0]
<1>1. request' = [request EXCEPT ![c] = r]
  BY DEF Lookup
<1>2. hit # {} => found \in hit
  OBVIOUS
<1>3. \A e \in hit : e \in entries /\ e \in retained /\ e.payload = PayloadOf[c] /\ e.key = request[c].key /\ e.sig \in Nat
  BY <1>0 DEF lookup, rowOf, retained, ProviderTypes
<1>4. \A e \in entries : e.payload = PayloadOf[c] /\ e.key = request[c].key => e \in hit \/ e \notin retained
  BY DEF lookup, rowOf
<1> HIDE DEF hit, found
<1>5. request[c] \in ServedRequest /\ (hit # {} => found.sig \in Nat)
  BY <1>0, <1>2, <1>3 DEF ProviderTypes
<1>6. /\ r \in ServedRequest /\ r.key = request[c].key /\ r.answer = request[c].answer
      /\ hit # {} => r.pc = "reply" /\ r.sig = found.sig
      /\ hit = {} => r.pc = "sign"
  BY <1>5 DEF ServedRequest, Stages
<1> HIDE DEF r
<1>7. r.answer = "none"
  BY <1>6, <1>u DEF ProviderInv, Handled, Answers
<1>8. daemon(c) => key # 0
  BY <1>u DEF ProviderInv, Handled, NoUseAfterDestroy, inFlight
<1>9. usesBarretenberg(c) => waiting # <<>> /\ Head(waiting) = c
  BY <1>0, <1>u DEF Serial, Active
<1>10. /\ waiting' \in Seq(Calls)
       /\ \A d \in Calls : usesBarretenberg(d) /\ Active(d) => waiting' # <<>> /\ Head(waiting') = d
  BY <1>0, <1>u, StaysInLine
<1>11. \A e \in entries' : e \in entries
  BY <1>u DEF retained
<1>12. Handled'
  BY <1>0, <1>1, <1>u, <1>6, <1>7, <1>8, <1>9, <1>10, <1>11, RequestMoves DEF ProviderInv, ProviderTypes, Changes
<1>13. /\ request'[c] = r
       /\ \A d \in Calls : d # c => request'[d] = request[d]
  BY <1>0, <1>1, <1>6, Changed DEF Changes
<1>14. OneRow'
  BY <1>0, <1>11 DEF OneRow
<1>15. Aged'
  BY <1>0, <1>u, EvictedAged DEF Aged
<1>16. \A d \in Calls : Stored(d) => \/ \E e \in entries' : e.payload = PayloadOf[d] /\ e.key = request[d].key
                                                           /\ e.sig = request[d].sig
                                  \/ \E g \in dropped' : g.payload = PayloadOf[d]
  <2> TAKE d \in Calls
  <2>1. ASSUME NEW e \in entries, e \notin retained, e.payload = PayloadOf[d]
        PROVE  \E g \in dropped' : g.payload = PayloadOf[d]
    BY <1>u, <2>1, Noted
  <2> QED BY <1>u, <2>1 DEF Stored
<1>17. AllStored'
  <2> SUFFICES ASSUME NEW d \in Calls, Has(d)' PROVE Stored(d)'
    BY DEF AllStored
  <2>1. CASE d # c
    BY <1>0, <1>13, <1>16, <2>1 DEF AllStored, Has, Stored
  <2>2. CASE d = c
    BY <1>2, <1>3, <1>6, <1>7, <1>13, <1>u, <2>2 DEF Has, Stored
  <2> QED BY <2>1, <2>2
<1>18. \A a, b \in Calls : lost(a, b) => lost(a, b)'
  BY <1>u DEF lost
\* A request of the daemon that finds no row has missed none.
<1>19. ASSUME NEW d \in Calls, Has(d), Same(c, d)
       PROVE  \/ \E e \in hit : e.sig = request[d].sig
              \/ lost(c, d)
              \/ hit = {} /\ ~daemon(c)
              \/ hit = {} /\ ~daemon(d)
  <2>1. Stored(d)
    BY <1>0, <1>19 DEF AllStored
  <2>2. ASSUME NEW g \in dropped, g.payload = PayloadOf[d] PROVE lost(c, d)
    <3>1. g.why = "expired" => ~daemon(c)
      BY <1>0, <1>u, <1>19, <2>2, StillFresh DEF Aged, Same
    <3> QED BY <1>19, <2>2, <3>1 DEF lost, Same
  <2>3. ASSUME NEW e \in entries, e.payload = PayloadOf[d], e.key = request[d].key, e.sig = request[d].sig, hit = {}
        PROVE  ~daemon(c)
    <3>1. expired(e)
      BY <1>4, <1>19, <2>3, Evicted DEF Same
    <3> QED BY <1>0, <1>u, <1>19, <2>3, <3>1, StillFresh DEF expired, Same
  <2>4. ASSUME NEW e \in entries, e.payload = PayloadOf[d], e.key = request[d].key, e.sig = request[d].sig, hit # {}
        PROVE  e \in hit
    <3>1. PICK f \in hit : TRUE
      BY <2>4
    <3>2. f.payload = e.payload /\ f \in entries
      BY <1>3, <1>19, <2>4 DEF Same
    <3>3. f = e
      BY <1>0, <2>4, <3>2 DEF OneRow
    <3> QED BY <3>3
  <2> QED BY <2>1, <2>2, <2>3, <2>4 DEF Stored
<1>20. \A e, f \in hit : e = f
  BY <1>0, <1>3 DEF OneRow
<1>21. Missed'
  <2> SUFFICES ASSUME NEW a \in Calls, NEW b \in Calls, Signing(a)', Has(b)', Same(a, b)', daemon(a), daemon(b)
               PROVE  lost(a, b)'
    BY DEF Missed, daemon
  <2>1. CASE a # c /\ b # c
    BY <1>0, <1>13, <1>18, <2>1 DEF Missed, Signing, Has, Same
  <2>2. CASE a = c /\ b # c
    <3>1. hit = {}
      BY <1>6, <1>13, <2>2 DEF Signing
    <3>2. Has(b) /\ Same(c, b)
      BY <1>6, <1>13, <2>2 DEF Has, Same
    <3> QED BY <1>18, <1>19, <2>2, <3>1, <3>2
  <2>3. CASE a # c /\ b = c
    <3>1. Active(a) /\ Active(c) /\ RouteOf[a] # "root" /\ RouteOf[c] # "root"
      BY <1>13, <1>u, <2>3 DEF Signing, Has, Active
    <3> QED BY <1>0, <2>3, <3>1, OneAtATime
  <2>4. CASE a = c /\ b = c
    BY <1>6, <1>7, <1>13, <2>4 DEF Signing, Has
  <2> QED BY <2>1, <2>2, <2>3, <2>4
<1>22. Agree'
  <2>1. ASSUME NEW d \in Calls, d # c, Has(c)', Has(d)', Same(c, d)'
        PROVE  request'[c].sig = request'[d].sig \/ lost(c, d)'
    <3>1. hit # {} /\ request'[c].sig = found.sig
      BY <1>6, <1>7, <1>13, <2>1 DEF Has
    <3>2. Has(d) /\ Same(c, d)
      BY <1>6, <1>13, <2>1 DEF Has, Same
    <3>3. found \in hit
      BY <1>2, <3>1
    <3>4. (\E e \in hit : e.sig = request[d].sig) \/ lost(c, d)
      BY <1>19, <3>1, <3>2
    <3> QED BY <1>13, <1>18, <1>20, <2>1, <3>1, <3>3, <3>4
  <2>2. ASSUME NEW a \in Calls, NEW b \in Calls, lost(a, b)' PROVE lost(b, a)' \/ PayloadOf[a] # PayloadOf[b]
    BY <2>2 DEF lost
  <2>3. ASSUME NEW a \in Calls, NEW b \in Calls, a # c, b # c, Has(a)', Has(b)', Same(a, b)'
        PROVE  request'[a].sig = request'[b].sig \/ lost(a, b)'
    BY <1>0, <1>13, <1>18, <2>3 DEF Agree, Has, Same
  <2> QED BY <2>1, <2>2, <2>3 DEF Agree, Same
<1> QED BY <1>12, <1>14, <1>15, <1>17, <1>21, <1>22 DEF ProviderInv, Ledger

\* Any two requests that agree on payload and signer: what was lost to one was lost to the other.
LEMMA LostBoth ==
  ASSUME NEW a, NEW b, PayloadOf[a] = PayloadOf[b], lost(a, b)
  PROVE  lost(b, a)
  BY DEF lost

\* The provider signs, or fails to.
LEMMA SignStep ==
  ASSUME ProviderConstants, ProviderInv, NEW c \in Calls, Sign(c)
  PROVE  ProviderInv'
<1>0. ProviderTypes /\ Serial
  BY DEF ProviderInv, Handled
<1>u. UNCHANGED <<second, key, entries, listening, dropped>> /\ request[c].pc = "sign"
  BY DEF Sign
<1>r. running(c)
  BY <1>0, <1>u DEF Serial, Active, running
<1>1. CASE /\ key # 0 /\ made' = made + 1
           /\ request' = [request EXCEPT ![c].pc = IF RouteOf[c] = "root" THEN "reply" ELSE "record",
                                        ![c].sig = made']
           /\ UNCHANGED <<waiting, auditBroken, failures, log>>
  <2> DEFINE r == [request[c] EXCEPT !.pc = IF RouteOf[c] = "root" THEN "reply" ELSE "record", !.sig = made']
  <2>1. request[c] \in ServedRequest /\ made' \in Nat
    BY <1>0, <1>1 DEF ProviderTypes
  <2>2. /\ r \in ServedRequest /\ r.answer = request[c].answer /\ r.key = request[c].key
        /\ r.pc = IF RouteOf[c] = "root" THEN "reply" ELSE "record"
    BY <2>1 DEF ServedRequest, Stages
  <2>3. request' = [request EXCEPT ![c] = r]
    BY <1>1
  <2>4. r.answer = "none"
    BY <1>u, <2>2 DEF ProviderInv, Handled, Answers
  <2>5. usesBarretenberg(c) => waiting # <<>> /\ Head(waiting) = c
    BY <1>r DEF running
  <2>6. /\ waiting' \in Seq(Calls)
        /\ \A d \in Calls : usesBarretenberg(d) /\ Active(d) => waiting' # <<>> /\ Head(waiting') = d
    BY <1>0, <1>1, StaysInLine
  <2>7. key # 0 /\ log' = log /\ waiting' = waiting /\ Changes(c, r)
    BY <1>1, <2>2, <2>3 DEF Changes
  <2> HIDE DEF r
  <2>8. r.pc \in {"record", "reply"}
    BY <2>2
  <2>9. key' = key /\ second' = second /\ listening' = listening /\ entries' = entries
    BY <1>u
  <2>10. Handled'
    BY <1>0, <2>1, <2>4, <2>5, <2>6, <2>7, <2>8, <2>9, RequestMoves DEF ProviderInv, ProviderTypes
  <2>11. RouteOf[c] # "root" => Signing(c) /\ r.key = request[c].key /\ r.pc # "reply"
    BY <1>u, <2>2 DEF Signing
  <2>12. Ledger'
    BY <1>u, <2>4, <2>7, <2>11, NothingStored
  <2> QED BY <2>10, <2>12 DEF ProviderInv
<1>2. CASE daemon(c) /\ rejected(c, "SIGN_FAILED") /\ leaves(c) /\ UNCHANGED made
  BY <1>0, <1>u, <1>r, <1>2, GivesUp, Refuses DEF Errors
<1>3. CASE ~daemon(c) /\ finish(c, "SIGN_FAILED") /\ UNCHANGED <<waiting, auditBroken, failures, log, made>>
  <2> DEFINE r == [request[c] EXCEPT !.pc = "done", !.answer = "SIGN_FAILED"]
  <2>1. Changes(c, r) /\ r.pc = "done" /\ r.answer = "SIGN_FAILED"
    BY <1>0, <1>3, Finishes DEF Errors
  <2>2. /\ waiting' \in Seq(Calls)
        /\ \A d \in Calls : usesBarretenberg(d) /\ Active(d) => waiting' # <<>> /\ Head(waiting') = d
    BY <1>0, <1>3, StaysInLine
  <2> HIDE DEF r
  <2>3. Handled'
    BY <1>0, <1>u, <1>3, <2>1, <2>2, RequestMoves DEF ProviderInv, ProviderTypes
  <2>4. Ledger'
    BY <1>u, <2>1, NothingStored
  <2> QED BY <2>3, <2>4 DEF ProviderInv
<1> QED BY <1>1, <1>2, <1>3 DEF Sign

\* The request is answered, with its line in the log or an error.
LEMMA ReplyStep ==
  ASSUME ProviderConstants, ProviderInv, NEW c \in Calls, Reply(c)
  PROVE  ProviderInv'
<1>0. ProviderTypes /\ Serial
  BY DEF ProviderInv, Handled
<1>u. UNCHANGED <<second, key, entries, listening, made, dropped>> /\ request[c].pc = "reply"
  BY DEF Reply
<1>r. running(c)
  BY <1>0, <1>u DEF Serial, Active, running
<1>1. CASE daemon(c) /\ leaves(c) /\ writeFails /\ finish(c, "AUDIT_FAILED")
  <2>1. rejected(c, "AUDIT_FAILED")
    BY <1>1 DEF rejected
  <2> QED BY <1>0, <1>u, <1>r, <1>1, <2>1, GivesUp, Refuses DEF Errors
<1>2. CASE /\ finish(c, "signature")
           /\ \/ ~daemon(c) /\ UNCHANGED <<waiting, auditBroken, failures, log>>
              \/ daemon(c) /\ leaves(c) /\ writes(c, IF request[c].replayed THEN "replayed" ELSE "signed")
  <2> DEFINE r == [request[c] EXCEPT !.pc = "done", !.answer = "signature"]
  <2>1. Changes(c, r) /\ r.pc = "done" /\ r.answer = "signature" /\ r.key = request[c].key /\ r.sig = request[c].sig
    BY <1>0, <1>2, Finishes
  <2>2. /\ waiting' \in Seq(Calls)
        /\ \A d \in Calls : d # c /\ usesBarretenberg(d) /\ Active(d) => waiting' # <<>> /\ Head(waiting') = d
    BY <1>0, <1>r, <1>2, StaysInLine, GivesUp
  <2>3. /\ log \subseteq log'
        /\ daemon(c) => \E l \in log' : l.call = c /\ l.outcome \in {"signed", "replayed"}
    <3>1. CASE ~daemon(c)
      BY <1>2, <3>1
    <3>2. CASE daemon(c)
      <4> DEFINE said == IF request[c].replayed THEN "replayed" ELSE "signed"
                 line == [call |-> c, outcome |-> said]
      <4>1. log' = log \cup {line}
        BY <1>2, <3>2 DEF writes
      <4>2. line.call = c /\ line.outcome \in {"signed", "replayed"}
        OBVIOUS
      <4> HIDE DEF line
      <4> QED BY <4>1, <4>2
    <3> QED BY <3>1, <3>2
  <2> HIDE DEF r
  <2>4. Handled'
    BY <1>0, <1>u, <2>1, <2>2, <2>3, RequestMoves DEF ProviderInv, ProviderTypes
  <2>5. Ledger'
    BY <1>u, <2>1, NothingStored DEF Has
  <2> QED BY <2>4, <2>5 DEF ProviderInv
<1> QED BY <1>1, <1>2 DEF Reply

\* A request that has its row: whoever else holds this payload's signature holds the same one, or a
\* record of the payload is lost.
LEMMA HasItsRow ==
  ASSUME ProviderConstants, ProviderInv, NEW c \in Calls, request[c].pc = "record", NEW r, Changes(c, r),
         UNCHANGED <<second, key, waiting, listening, made, log>>,
         r.pc = "reply", r.key = request[c].key, r.answer = request[c].answer,
         \A e \in entries' : e.payload \in Payloads /\ e.sig \in Nat,
         OneRow', Aged', dropped \subseteq dropped',
         \A e \in entries : e \in entries' \/ \E g \in dropped' : g.payload = e.payload,
         \/ \E e \in entries' : e.payload = PayloadOf[c] /\ e.key = r.key /\ e.sig = r.sig
         \/ \E g \in dropped' : g.payload = PayloadOf[c],
         \A e \in entries : e.payload = PayloadOf[c] /\ e.key = r.key =>
           e.sig = r.sig \/ \E g \in dropped' : g.payload = PayloadOf[c]
  PROVE  ProviderInv'
<1>0. ProviderTypes /\ Serial /\ OneRow /\ Aged /\ AllStored /\ Missed /\ Agree
  BY DEF ProviderInv, Handled, Ledger
<1>1. r.answer = "none"
  BY DEF ProviderInv, Handled, Answers
<1>2. daemon(c) => key # 0
  BY DEF ProviderInv, Handled, NoUseAfterDestroy, inFlight
<1>3. usesBarretenberg(c) => waiting # <<>> /\ Head(waiting) = c
  BY <1>0 DEF Serial, Active
<1>4. /\ waiting' \in Seq(Calls)
      /\ \A d \in Calls : usesBarretenberg(d) /\ Active(d) => waiting' # <<>> /\ Head(waiting') = d
  BY <1>0, StaysInLine
<1>5. Handled'
  BY <1>0, <1>1, <1>2, <1>3, <1>4, RequestMoves DEF ProviderInv, ProviderTypes
<1>6. /\ request'[c] = r
      /\ \A d \in Calls : d # c => request'[d] = request[d]
  BY <1>0, Changed
<1>7. \A d \in Calls : Stored(d) =>
        \/ \E e \in entries' : e.payload = PayloadOf[d] /\ e.key = request[d].key /\ e.sig = request[d].sig
        \/ \E g \in dropped' : g.payload = PayloadOf[d]
  <2> TAKE d \in Calls
  <2>1. ASSUME NEW e \in entries, e.payload = PayloadOf[d], e \notin entries'
        PROVE  \E g \in dropped' : g.payload = PayloadOf[d]
    BY <2>1
  <2> QED BY <2>1 DEF Stored
<1>8. AllStored'
  BY <1>0, <1>6, <1>7 DEF AllStored, Has, Stored
<1>9. \A a, b \in Calls : lost(a, b) => lost(a, b)'
  BY DEF lost
<1>10. Missed'
  <2> SUFFICES ASSUME NEW a \in Calls, NEW b \in Calls, Signing(a)', Has(b)', Same(a, b)', daemon(a), daemon(b)
               PROVE  lost(a, b)'
    BY DEF Missed, daemon
  <2>1. a # c
    BY <1>6 DEF Signing
  <2>2. CASE b # c
    BY <1>0, <1>6, <1>9, <2>1, <2>2 DEF Missed, Signing, Has, Same
  <2>3. CASE b = c
    <3>1. Active(a) /\ Active(c) /\ RouteOf[a] # "root" /\ RouteOf[c] # "root"
      BY <1>6, <2>1, <2>3 DEF Signing, Has, Active
    <3> QED BY <1>0, <2>1, <2>3, <3>1, OneAtATime
  <2> QED BY <2>2, <2>3
<1>11. ASSUME NEW d \in Calls, d # c, Has(c)', Has(d)', Same(c, d)'
       PROVE  r.sig = request[d].sig \/ (lost(c, d)' /\ lost(d, c)')
  <2>1. Has(d) /\ Same(c, d) /\ Signing(c)
    BY <1>6, <1>11 DEF Has, Same, Signing
  <2>2. CASE daemon(c) /\ daemon(d)
    <3>1. lost(c, d)
      BY <1>0, <2>1, <2>2 DEF Missed
    <3>2. lost(d, c)
      BY <2>1, <3>1, LostBoth DEF Same
    <3> QED BY <1>9, <3>1, <3>2
  <2>3. CASE ~(daemon(c) /\ daemon(d))
    <3>1. Stored(d)
      BY <1>0, <2>1 DEF AllStored
    <3>2. r.sig = request[d].sig \/ \E g \in dropped' : g.payload = PayloadOf[c]
      BY <2>1, <3>1 DEF Stored, Same
    <3> QED BY <2>1, <2>3, <3>2 DEF lost, Same, daemon
  <2> QED BY <2>2, <2>3
<1>12. Agree'
  <2>1. ASSUME NEW a \in Calls, NEW b \in Calls, a # c, b # c, Has(a)', Has(b)', Same(a, b)'
        PROVE  request'[a].sig = request'[b].sig \/ lost(a, b)'
    BY <1>0, <1>6, <1>9, <2>1 DEF Agree, Has, Same
  <2> QED BY <1>6, <1>11, <2>1 DEF Agree, Same
<1> QED BY <1>5, <1>8, <1>10, <1>12 DEF ProviderInv, Ledger

\* The signed payload goes into the ledger, and the old ones out of it.
LEMMA RecordStep ==
  ASSUME ProviderConstants, ProviderInv, NEW c \in Calls, Record(c)
  PROVE  ProviderInv'
<1>0. ProviderTypes /\ OneRow /\ Aged
  BY DEF ProviderInv, Handled, Ledger
<1> DEFINE p == PayloadOf[c]
           k == request[c].key
           new == [payload |-> p, key |-> k, sig |-> request[c].sig, turn |-> nextTurn]
           with == (retained \ lookup(p)) \cup {new}
           capped == IF Cardinality(with) > MaxEntries THEN with \ {oldest(with)} ELSE with
           again == \E e \in lookup(p) : e.key = k
           rec == recordCanonical(p, k, request[c].sig)
           row == CHOOSE e \in rowOf(rec.entries, p) : TRUE
           sig == IF rec.inserted THEN request[c].sig ELSE row.sig
           r == [request[c] EXCEPT !.pc = "reply", !.replayed = ~rec.inserted, !.sig = sig]
<1>1. UNCHANGED <<second, key, waiting, listening, made, log>> /\ request[c].pc = "record"
  BY DEF Record
<1>2. request[c] \in ServedRequest /\ p \in Payloads
  BY <1>0 DEF ProviderTypes, ProviderConstants, Payloads
<1>3. retained \subseteq entries /\ \A e \in lookup(p) : e \in retained /\ e.payload = p
  BY DEF retained, lookup, rowOf
<1>4. \A e \in retained : e.payload = p => e \in lookup(p)
  BY DEF lookup, rowOf
<1>r. /\ request' = [request EXCEPT ![c] = r]
      /\ entries' = rec.entries /\ dropped' = dropped \cup rec.gone
  BY DEF Record
<1>s. rec.inserted \in BOOLEAN /\ sig \in Nat =>
        r \in ServedRequest /\ r.pc = "reply" /\ r.key = k /\ r.answer = request[c].answer /\ r.sig = sig
  <2> HIDE DEF sig, rec
  <2> QED BY <1>2 DEF ServedRequest, Stages
<1>i. again => rec = [entries |-> retained, inserted |-> FALSE, gone |-> left(entries, retained, "expired")]
  BY DEF recordCanonical
<1>n. ~again => rec = [entries |-> capped, inserted |-> TRUE,
                       gone |-> left(entries, retained, "expired") \cup left(retained, with, "replaced")
                                  \cup left(with, capped, "capped")]
  BY DEF recordCanonical
<1> HIDE DEF rec, r
<1>5. CASE again
  <2>1. /\ entries' = retained /\ dropped' = dropped \cup left(entries, retained, "expired")
        /\ rec.entries = retained /\ rec.inserted = FALSE
    BY <1>5, <1>r, <1>i
  <2>2. row \in lookup(p)
    BY <1>5, <2>1 DEF lookup
  <2> HIDE DEF row
  <2>3. PICK e \in lookup(p) : e.key = k
    BY <1>5
  <2>4. row \in entries /\ row = e
    BY <1>0, <1>3, <2>2, <2>3 DEF OneRow
  <2>5. row.sig \in Nat
    BY <1>0, <2>4 DEF ProviderTypes
  <2>6. r \in ServedRequest /\ r.pc = "reply" /\ r.key = k /\ r.answer = request[c].answer /\ r.sig = row.sig
    BY <1>s, <2>1, <2>5
  <2>7. Changes(c, r)
    BY <1>r, <2>6 DEF Changes
  <2>8. (\A f \in entries' : f.payload \in Payloads /\ f.sig \in Nat) /\ OneRow'
    BY <1>0, <1>3, <2>1 DEF ProviderTypes, OneRow
  <2>9. Aged'
    BY <1>0, <1>1, <2>1, EvictedAged DEF Aged
  <2>10. \A f \in entries : f \in entries' \/ \E g \in dropped' : g.payload = f.payload
    BY <2>1, Noted
  <2>11. \E f \in entries' : f.payload = p /\ f.key = r.key /\ f.sig = r.sig
    BY <1>3, <2>1, <2>2, <2>3, <2>4, <2>6
  <2>12. \A f \in entries : f.payload = p /\ f.key = r.key => f.sig = r.sig
    BY <1>0, <1>3, <2>2, <2>4, <2>6 DEF OneRow
  <2> QED BY <1>1, <2>1, <2>6, <2>7, <2>8, <2>9, <2>10, <2>11, <2>12, HasItsRow
<1>6. CASE ~again
  <2>0. capped \subseteq with /\ with = (retained \ lookup(p)) \cup {new}
    OBVIOUS
  <2>5. new.payload = p /\ new.key = k /\ new.sig = request[c].sig /\ new.sig \in Nat
    BY <1>2 DEF ServedRequest
  <2> HIDE DEF new, capped, with
  <2>1. /\ entries' = capped
        /\ dropped' = dropped \cup left(entries, retained, "expired") \cup left(retained, with, "replaced")
                         \cup left(with, capped, "capped")
        /\ rec.inserted = TRUE
    BY <1>6, <1>r, <1>n
  <2>2. r \in ServedRequest /\ r.pc = "reply" /\ r.key = k /\ r.answer = request[c].answer /\ r.sig = request[c].sig
    BY <1>2, <1>s, <2>1 DEF ServedRequest
  <2>4. Changes(c, r)
    BY <1>r, <2>2 DEF Changes
  <2>7. (\A f \in entries' : f.payload \in Payloads /\ f.sig \in Nat) /\ OneRow'
    BY <1>0, <1>2, <1>3, <1>4, <2>1, <2>5, <2>0 DEF ProviderTypes, OneRow
  <2>8. Aged'
    <3>1. \A g \in left(retained, with, "replaced") \cup left(with, capped, "capped") : g.why # "expired"
      BY DEF left
    <3> QED BY <1>0, <1>1, <2>1, <3>1, EvictedAged DEF Aged
  <2>9. \A f \in entries : f \in entries' \/ \E g \in dropped' : g.payload = f.payload
    <3> TAKE f \in entries
    <3>1. CASE f \notin retained
      BY <2>1, <3>1, Noted
    <3>2. CASE f \in retained /\ f \notin with
      BY <2>1, <3>2, Noted
    <3>3. CASE f \in with /\ f \notin capped
      BY <2>1, <3>3, Noted
    <3> QED BY <2>1, <3>1, <3>2, <3>3
  <2>10. \/ \E f \in entries' : f.payload = p /\ f.key = r.key /\ f.sig = r.sig
         \/ \E g \in dropped' : g.payload = p
    <3>1. CASE new \in capped
      BY <2>1, <2>2, <2>5, <3>1
    <3>2. CASE new \notin capped
      BY <2>1, <2>5, <2>0, <3>2, Noted
    <3> QED BY <3>1, <3>2
  <2>11. \A f \in entries : f.payload = p /\ f.key = r.key => \E g \in dropped' : g.payload = p
    <3> SUFFICES ASSUME NEW f \in entries, f.payload = p, f.key = r.key
                 PROVE  \E g \in dropped' : g.payload = p
      OBVIOUS
    <3>1. f \notin retained
      BY <1>4, <1>6, <2>2
    <3> QED BY <2>1, <3>1, Noted
  <2> QED BY <1>1, <2>1, <2>2, <2>4, <2>7, <2>8, <2>9, <2>10, <2>11, HasItsRow
<1> QED BY <1>5, <1>6

\* A step of no request.
LEMMA RequestsStand ==
  ASSUME ProviderInv, request' = request, waiting' = waiting, log' = log, made' = made,
         key' \in Nat, second' \in Nat, InTime', Aged', Alive',
         \A c \in Calls : daemon(c) /\ inFlight(c) => key' # 0,
         entries' \subseteq entries, dropped \subseteq dropped',
         \A e \in entries : e \in entries' \/ \E g \in dropped' : g.payload = e.payload
  PROVE  ProviderInv'
<1>0. ProviderTypes /\ OneRow /\ AllStored /\ Missed /\ Agree
  BY DEF ProviderInv, Handled, Ledger
<1>1. ProviderTypes' /\ OneRow'
  BY <1>0 DEF ProviderTypes, OneRow
<1>2. Answers' /\ Serial' /\ ReleasedIsAudited' /\ NoUseAfterDestroy'
  BY DEF ProviderInv, Handled, Answers, Serial, Active, ReleasedIsAudited, NoUseAfterDestroy, inFlight
<1>3. AllStored'
  <2> SUFFICES ASSUME NEW c \in Calls, Has(c) PROVE Stored(c)'
    BY DEF AllStored, Has
  <2>1. ASSUME NEW e \in entries, e.payload = PayloadOf[c], e \notin entries'
        PROVE  \E g \in dropped' : g.payload = PayloadOf[c]
    BY <2>1
  <2>2. Stored(c)
    BY <1>0 DEF AllStored
  <2> QED BY <2>1, <2>2 DEF Stored
<1>4. \A a, b \in Calls : lost(a, b) => lost(a, b)'
  BY DEF lost
<1>5. Missed'
  BY <1>0, <1>4 DEF Missed, Signing, Has, Same
<1>6. Agree'
  BY <1>0, <1>4 DEF Agree, Has, Same
<1> QED BY <1>1, <1>2, <1>3, <1>5, <1>6 DEF ProviderInv, Handled, Ledger

\* Shutdown stops intake.
LEMMA CloseStep ==
  ASSUME ProviderInv, Close
  PROVE  ProviderInv'
<1>1. InTime' /\ Aged' /\ Alive'
  BY DEF Close, ProviderInv, Handled, Ledger, InTime, Aged, Alive
<1>2. UNCHANGED <<second, key, entries, waiting, request, made, log, dropped>>
  BY DEF Close
<1>3. key \in Nat /\ second \in Nat /\ \A c \in Calls : daemon(c) /\ inFlight(c) => key # 0
  BY DEF ProviderInv, Handled, ProviderTypes, NoUseAfterDestroy
<1> QED BY <1>1, <1>2, <1>3, RequestsStand

\* Shutdown destroys the signer once it has drained.
LEMMA ShutdownStep ==
  ASSUME ProviderInv, Destroy
  PROVE  ProviderInv'
<1>1. InTime' /\ Aged' /\ Alive'
  BY DEF Destroy, ProviderInv, Handled, Ledger, InTime, Aged, Alive
<1>2. UNCHANGED <<second, entries, waiting, request, made, log, dropped>> /\ key' = 0
  BY DEF Destroy
<1>3. second \in Nat /\ \A c \in Calls : ~(daemon(c) /\ inFlight(c))
  BY DEF ProviderInv, Handled, ProviderTypes, Destroy, Drained
<1> QED BY <1>1, <1>2, <1>3, RequestsStand

\* The daemon starts again with the next key and an empty ledger.
LEMMA StartStep ==
  ASSUME ProviderConstants, ProviderInv, Start
  PROVE  ProviderInv'
<1>1. /\ UNCHANGED <<second, waiting, request, made, log>>
      /\ entries' = {} /\ dropped' = dropped \cup left(entries, {}, "restarted")
  BY DEF Start
<1>2. key' \in Nat /\ key' # 0
  BY DEF Start, ProviderConstants
<1>3. InTime' /\ Alive'
  BY <1>1, <1>2 DEF ProviderInv, Handled, InTime, Alive
<1>4. Aged'
  <2>1. \A g \in left(entries, {}, "restarted") : g.why # "expired"
    BY DEF left
  <2> QED BY <1>1, <2>1 DEF ProviderInv, Ledger, Aged
<1>5. \A e \in entries : \E g \in dropped' : g.payload = e.payload
  <2> TAKE e \in entries
  <2> DEFINE none == {}
  <2>0. e \notin none
    OBVIOUS
  <2> HIDE DEF none
  <2>1. \E g \in left(entries, none, "restarted") : g.payload = e.payload
    BY <2>0, Noted
  <2> QED BY <1>1, <2>1 DEF none
<1>6. second \in Nat
  BY DEF ProviderInv, Handled, ProviderTypes
<1> QED BY <1>1, <1>2, <1>3, <1>4, <1>5, <1>6, RequestsStand

\* A second passes.
LEMMA SecondStep ==
  ASSUME ProviderConstants, ProviderInv, Second
  PROVE  ProviderInv'
<1>0. ProviderTypes /\ InTime /\ Aged
  BY DEF ProviderInv, Handled, Ledger
<1>1. UNCHANGED <<key, entries, waiting, listening, request, made, log, dropped>> /\ second' = second + 1
  BY DEF Second
<1>2. second \in Nat /\ second' \in Nat /\ key \in Nat
  BY <1>0, <1>1 DEF ProviderTypes
<1>3. InTime'
  <2> SUFFICES ASSUME NEW c \in Calls, request[c].pc = "hash"
               PROVE  /\ second' <= request[c].since + MaxSkew
                      /\ daemon(c) => Timestamp[PayloadOf[c]] >= request[c].since - MaxAge
    BY <1>1 DEF InTime, daemon
  <2>1. second < request[c].since + MaxSkew
    BY DEF Second, HashInTime
  <2>2. request[c].since \in Nat /\ MaxSkew \in Nat
    BY <1>0 DEF ProviderTypes, ServedRequest, ProviderConstants
  <2>3. second' <= request[c].since + MaxSkew
    BY <1>1, <1>2, <2>1, <2>2
  <2> QED BY <1>0, <2>3 DEF InTime
<1>4. Aged'
  <2> SUFFICES ASSUME NEW g \in dropped, g.why = "expired"
               PROVE  g.payload \in Payloads /\ Timestamp[g.payload] < second' - retentionSeconds
    BY <1>1 DEF Aged, retentionSeconds
  <2>1. g.payload \in Payloads /\ Timestamp[g.payload] < second - retentionSeconds
    BY <1>0 DEF Aged
  <2>2. Timestamp[g.payload] \in Int /\ retentionSeconds \in Nat
    BY <2>1 DEF Payloads, retentionSeconds, ProviderConstants
  <2> HIDE DEF retentionSeconds
  <2> QED BY <1>1, <1>2, <2>1, <2>2
<1>5. Alive' /\ \A c \in Calls : daemon(c) /\ inFlight(c) => key # 0
  BY <1>1 DEF ProviderInv, Handled, Alive, NoUseAfterDestroy
<1> QED BY <1>1, <1>2, <1>3, <1>4, <1>5, RequestsStand

\* Nothing moves.
LEMMA ProviderStands ==
  ASSUME ProviderInv, UNCHANGED providerVars
  PROVE  ProviderInv'
<1>1. InTime' /\ Aged' /\ Alive'
  BY DEF providerVars, ProviderInv, Handled, Ledger, InTime, Aged, Alive
<1>2. UNCHANGED <<second, key, entries, waiting, request, made, log, dropped>>
  BY DEF providerVars
<1>3. key \in Nat /\ second \in Nat /\ \A c \in Calls : daemon(c) /\ inFlight(c) => key # 0
  BY DEF ProviderInv, Handled, ProviderTypes, NoUseAfterDestroy
<1> QED BY <1>1, <1>2, <1>3, RequestsStand

\* Every step of the provider keeps its invariant.
LEMMA ProviderSteps == ProviderInv /\ [ProviderNext]_providerVars => ProviderInv'
<1> SUFFICES ASSUME ProviderInv, [ProviderNext]_providerVars PROVE ProviderInv'
  OBVIOUS
<1> USE ProviderConstants
<1>1. ASSUME NEW c \in Calls, Arrive(c) PROVE ProviderInv'
  BY <1>1, ArriveStep
<1>2. ASSUME NEW c \in Calls, Enforce(c) PROVE ProviderInv'
  BY <1>2, EnforceStep
<1>3. ASSUME NEW c \in Calls, CallDirect(c) PROVE ProviderInv'
  BY <1>3, DirectStep
<1>4. ASSUME NEW c \in Calls, Lookup(c) PROVE ProviderInv'
  BY <1>4, LookupStep
<1>5. ASSUME NEW c \in Calls, Sign(c) PROVE ProviderInv'
  BY <1>5, SignStep
<1>6. ASSUME NEW c \in Calls, Record(c) PROVE ProviderInv'
  BY <1>6, RecordStep
<1>7. ASSUME NEW c \in Calls, Reply(c) PROVE ProviderInv'
  BY <1>7, ReplyStep
<1> QED BY <1>1, <1>2, <1>3, <1>4, <1>5, <1>6, <1>7, CloseStep, ShutdownStep, StartStep, SecondStep, ProviderStands
        DEF ProviderNext

\* However calls of the daemon and of a program on the same ledger interleave, whatever custody or the
\* audit stream refuses, and however often the daemon is stopped and started with another key: a payload
\* asked again gets the same signature while its record stands, no signature leaves without its line, and
\* none is asked of a destroyed signer.  Code: replay-db.ts, signer.ts, daemon/src.
THEOREM ProviderTheorem == ProviderInit /\ [][ProviderNext]_providerVars => []ProviderSound
<1>1. ProviderInv => ProviderSound
  <2> SUFFICES ASSUME ProviderInv PROVE ProviderSound
    OBVIOUS
  <2>1. SameSignature
    BY DEF ProviderInv, Ledger, Agree, SameSignature, Same, Has, answered
  <2> QED BY <2>1 DEF ProviderInv, Handled, ProviderSound
<1> QED BY <1>1, ProviderStarts, ProviderSteps, PTL

-----------------------------------------------------------------------------
(* Executes and their answers. *)

\* What the Worker's row, a request and a caller's result may be.
Rows == [st : {"quoted", "executing", "failed"}, promo : BOOLEAN, claim : Executes \cup {Unsent}, moved : BOOLEAN]

ExecuteAnswers ==
  [st : {Unsent, "sent", "claimed", "answered"}, status : Int,
   body : {"none", "promo_unavailable", "executed", "notAccepted", "notExecuted"},
   reconciling : BOOLEAN, token : BOOLEAN, clear : BOOLEAN]

Outcomes == [st : {"none", "thrown", "returned"}, inDoubt : BOOLEAN, notAccepted : BOOLEAN, clear : BOOLEAN]

\* What the row says of its promo, its claim and its funds.
RowSound(w) ==
  /\ w \in Rows
  /\ w.promo = FALSE => w.claim = Unsent /\ w.moved = FALSE
  /\ w.moved = TRUE => w.st = "executing"

\* A claimed request is the one the row names.
Claimed(a, c, w) == a.st = "claimed" => w.claim = c /\ w.st = "quoted"

\* An answer taken for a refusal was given when nothing was claimed or moved.
Refusal(a) == a.st = "answered" /\ a.status # 200 /\ ~isInDoubtExecuteAnswer(a) => a.clear = TRUE

\* What the row, the requests under way and the answers given keep of one another.
CallsInv ==
  /\ RowSound(worker)
  /\ executes \in [Executes -> ExecuteAnswers]
  /\ outcomes \in [Executes -> Outcomes]
  /\ \A c \in Executes : Claimed(executes[c], c, worker) /\ Refusal(executes[c])
  /\ AnswersSound

\* An answer that says clear, or that is in doubt, may be given.
Guarded(a) ==
  /\ a \in ExecuteAnswers /\ a.st = "answered"
  /\ \/ a.clear = TRUE \/ a.token = TRUE \/ a.reconciling = TRUE
     \/ a.status = 409 /\ a.body # "promo_unavailable"
     \/ a.status # 409 /\ a.body \notin {"notAccepted", "notExecuted"}

\* Such an answer may be given whatever the row has come to.
LEMMA MayAnswer ==
  ASSUME NEW a, Guarded(a), NEW c, NEW w
  PROVE  Claimed(a, c, w) /\ Refusal(a)
<1>1. a.clear = TRUE \/ isInDoubtExecuteAnswer(a)
  BY DEF Guarded, isInDoubtExecuteAnswer, isNotAcceptedExecuteBody
<1> QED BY <1>1 DEF Guarded, Claimed, Refusal

\* A request under way has answered nothing.
LEMMA RequestTyped ==
  ASSUME NEW st \in {Unsent, "sent", "claimed"}
  PROVE  /\ Request(st) \in ExecuteAnswers /\ Request(st).st = st /\ Refusal(Request(st))
<1> DEFINE a == Answer(0, "none", FALSE, FALSE, FALSE)
<1>1. a \in ExecuteAnswers BY DEF Answer, ExecuteAnswers
<1> HIDE DEF a
<1>2. Request(st) = [a EXCEPT !.st = st] BY DEF Request, a
<1>3. Request(st) \in ExecuteAnswers /\ Request(st).st = st BY <1>1, <1>2 DEF ExecuteAnswers
<1>4. st # "answered" BY DEF Unsent
<1> QED BY <1>3, <1>4 DEF Refusal

\* Nothing is asked at the start.
LEMMA CallsStart == CallsInit => CallsInv
<1> SUFFICES ASSUME CallsInit PROVE CallsInv
  OBVIOUS
<1>1. RowSound(worker) BY DEF CallsInit, Rows, RowSound
<1>2. executes \in [Executes -> ExecuteAnswers] BY RequestTyped DEF CallsInit
<1>3. outcomes \in [Executes -> Outcomes] BY DEF CallsInit, Outcomes, NoOutcome
<1>4. \A c \in Executes : executes[c].st = Unsent /\ Refusal(executes[c]) BY RequestTyped DEF CallsInit
<1>5. AnswersSound
  BY DEF CallsInit, AnswersSound, NotInDoubtIsClear, TokenStaysHome, NoOutcome, Elsewhere
<1> QED BY <1>1, <1>2, <1>3, <1>4, <1>5 DEF CallsInv, Claimed, Unsent

\* A step of the Worker that leaves the caller alone, and answers one request.
LEMMA WorkerStep ==
  ASSUME CallsInv, UNCHANGED <<outcomes, readToken, fetchKind, poll, polls, sentToken, tookFrom>>,
         NEW c \in Executes, NEW a \in ExecuteAnswers, executes' = [executes EXCEPT ![c] = a],
         RowSound(worker'), Claimed(a, c, worker'), Refusal(a),
         \A d \in Executes \ {c} : Claimed(executes[d], d, worker')
  PROVE  CallsInv'
<1>1. executes' \in [Executes -> ExecuteAnswers] BY DEF CallsInv
<1>2. \A d \in Executes : executes'[d] = IF d = c THEN a ELSE executes[d] BY DEF CallsInv
<1>3. AnswersSound' BY DEF CallsInv, AnswersSound, NotInDoubtIsClear, TokenStaysHome
<1>4. outcomes' \in [Executes -> Outcomes] BY DEF CallsInv
<1>5. \A d \in Executes : Claimed(executes'[d], d, worker') /\ Refusal(executes'[d]) BY <1>2 DEF CallsInv
<1>6. RowSound(worker)' /\ \A d \in Executes : Claimed(executes[d], d, worker)' /\ Refusal(executes[d])'
  BY <1>5 DEF RowSound, Claimed, Refusal, isInDoubtExecuteAnswer, isNotAcceptedExecuteBody
<1> QED BY <1>1, <1>3, <1>4, <1>6 DEF CallsInv

\* Each step of the Worker answers so, or leaves the row's claim to the request it names.
LEMMA WorkerSteps ==
  ASSUME CallsInv, UNCHANGED <<outcomes, readToken, fetchKind, poll, polls, sentToken, tookFrom>>,
         NEW c \in Executes, WorkerRefuses(c) \/ WorkerRedeems(c) \/ WorkerClaims(c) \/ WorkerFinishes(c)
  PROVE  CallsInv'
<1>0. /\ RowSound(worker) /\ clearNow \in BOOLEAN
      /\ \A d \in Executes : executes[d] \in ExecuteAnswers /\ Refusal(executes[d])
                            /\ Claimed(executes[d], d, worker)
  BY DEF CallsInv, clearNow
<1>1. CASE WorkerRefuses(c)
  <2>1. \E a : Guarded(a) /\ executes' = [executes EXCEPT ![c] = a]
    <3>1. PICK code \in {400, 401, 429, 500} :
            executes' = [executes EXCEPT ![c] = Answer(code, "none", FALSE, FALSE, clearNow)]
      BY <1>1 DEF WorkerRefuses
    <3>2. Guarded(Answer(code, "none", FALSE, FALSE, clearNow))
      BY <1>0 DEF Guarded, Answer, ExecuteAnswers
    <3> QED BY <3>1, <3>2
  <2>3. PICK a : Guarded(a) /\ executes' = [executes EXCEPT ![c] = a] BY <2>1
  <2>4. UNCHANGED worker BY <1>1 DEF WorkerRefuses
  <2>5. a \in ExecuteAnswers /\ Claimed(a, c, worker') /\ Refusal(a) BY <2>3, MayAnswer DEF Guarded
  <2> QED BY <1>0, <2>3, <2>4, <2>5, WorkerStep
<1>2. CASE WorkerRedeems(c)
  <2>1. worker.promo = FALSE /\ executes[c].st = "sent" BY <1>0, <1>2 DEF WorkerRedeems, RowSound, Rows
  <2>2. CASE worker' = [worker EXCEPT !.promo = TRUE] /\ UNCHANGED executes
    <3>1. executes' = [executes EXCEPT ![c] = executes[c]] BY <2>2 DEF CallsInv
    <3>2. worker'.claim = worker.claim /\ worker'.st = worker.st /\ RowSound(worker')
      BY <1>0, <2>2 DEF Rows, RowSound
    <3>3. \A d \in Executes : Claimed(executes[d], d, worker') BY <1>0, <3>2 DEF Claimed
    <3> QED BY <1>0, <3>1, <3>2, <3>3, WorkerStep
  <2>3. CASE executes' = [executes EXCEPT ![c] = Answer(409, "promo_unavailable", FALSE, FALSE, clearNow)]
             /\ UNCHANGED worker
    <3> DEFINE a == Answer(409, "promo_unavailable", FALSE, FALSE, clearNow)
    <3>1. clearNow = TRUE BY <1>0, <2>1 DEF clearNow, RowSound
    <3>2. Guarded(a)
      BY <1>0, <3>1 DEF Guarded, Answer, ExecuteAnswers
    <3>3. executes' = [executes EXCEPT ![c] = a] BY <2>3
    <3> HIDE DEF a
    <3>4. a \in ExecuteAnswers /\ Claimed(a, c, worker') /\ Refusal(a) BY <3>2, MayAnswer DEF Guarded
    <3> QED BY <1>0, <2>3, <3>3, <3>4, WorkerStep
  <2> QED BY <1>2, <2>2, <2>3 DEF WorkerRedeems
<1>3. CASE WorkerClaims(c)
  <2>1. worker.promo = TRUE BY <1>0, <1>3 DEF WorkerClaims, RowSound, Rows
  <2>2. CASE worker.st = "quoted" /\ worker.claim = Unsent
    <3>1. worker' = [worker EXCEPT !.claim = c] /\ executes' = [executes EXCEPT ![c] = Request("claimed")]
      BY <1>3, <2>2 DEF WorkerClaims
    <3>2. worker'.claim = c /\ worker'.st = "quoted" /\ RowSound(worker')
      BY <1>0, <2>1, <2>2, <3>1 DEF Rows, RowSound
    <3>3. \A d \in Executes : executes[d].st # "claimed" BY <1>0, <2>2, IntentCallsAssumption DEF Claimed
    <3>4. \A d \in Executes : Claimed(executes[d], d, worker') BY <3>3 DEF Claimed
    <3>5. /\ Request("claimed") \in ExecuteAnswers /\ Claimed(Request("claimed"), c, worker')
          /\ Refusal(Request("claimed"))
      BY <3>2, RequestTyped DEF Claimed
    <3> QED BY <1>0, <3>1, <3>2, <3>4, <3>5, WorkerStep
  <2>3. CASE ~(worker.st = "quoted" /\ worker.claim = Unsent)
    <3> DEFINE a == Answer(409, "none", FALSE, FALSE, clearNow)
    <3>1. executes' = [executes EXCEPT ![c] = a] /\ UNCHANGED worker BY <1>3, <2>3 DEF WorkerClaims
    <3>2. Guarded(a)
      BY <1>0 DEF Guarded, Answer, ExecuteAnswers
    <3> HIDE DEF a
    <3>3. a \in ExecuteAnswers /\ Claimed(a, c, worker') /\ Refusal(a) BY <3>2, MayAnswer DEF Guarded
    <3> QED BY <1>0, <3>1, <3>3, WorkerStep
  <2> QED BY <2>2, <2>3
<1>4. CASE WorkerFinishes(c)
  <2>1. worker.claim = c /\ worker.st = "quoted" /\ worker.moved = FALSE
    BY <1>0, <1>4 DEF WorkerFinishes, Claimed, RowSound, Rows
  <2>2. worker.promo = TRUE BY <1>0, <2>1, IntentCallsAssumption DEF RowSound, Rows
  <2>3. \A d \in Executes \ {c} : executes[d].st # "claimed" BY <1>0, <2>1 DEF Claimed
  <2>7. \A d \in Executes \ {c} : Claimed(executes[d], d, worker') BY <2>3 DEF Claimed
  <2>4. CASE /\ worker' = [worker EXCEPT !.st = "executing", !.moved = TRUE]
             /\ \E a \in {Answer(200, "executed", FALSE, TRUE, FALSE), Answer(502, "none", FALSE, TRUE, FALSE),
                           Answer(503, "notAccepted", TRUE, FALSE, FALSE)} :
                  executes' = [executes EXCEPT ![c] = a]
    <3>1. PICK a \in {Answer(200, "executed", FALSE, TRUE, FALSE), Answer(502, "none", FALSE, TRUE, FALSE),
                      Answer(503, "notAccepted", TRUE, FALSE, FALSE)} :
            executes' = [executes EXCEPT ![c] = a]
      BY <2>4
    <3>2. Guarded(a)
      <4>1. CASE a = Answer(200, "executed", FALSE, TRUE, FALSE) BY <4>1 DEF Guarded, Answer, ExecuteAnswers
      <4>2. CASE a = Answer(502, "none", FALSE, TRUE, FALSE) BY <4>2 DEF Guarded, Answer, ExecuteAnswers
      <4>3. CASE a = Answer(503, "notAccepted", TRUE, FALSE, FALSE)
        BY <4>3 DEF Guarded, Answer, ExecuteAnswers
      <4> QED BY <4>1, <4>2, <4>3
    <3>3. RowSound(worker') BY <1>0, <2>2, <2>4 DEF Rows, RowSound
    <3>4. a \in ExecuteAnswers /\ Claimed(a, c, worker') /\ Refusal(a) BY <3>2, MayAnswer DEF Guarded
    <3> QED BY <2>7, <3>1, <3>3, <3>4, WorkerStep
  <2>5. CASE /\ worker' = [worker EXCEPT !.claim = Unsent]
             /\ executes' = [executes EXCEPT ![c] = Answer(503, "notAccepted", FALSE, FALSE, clearNow')]
    <3> DEFINE a == Answer(503, "notAccepted", FALSE, FALSE, clearNow')
    <3>1. RowSound(worker') /\ worker'.moved = FALSE /\ worker'.claim = Unsent
      BY <1>0, <2>1, <2>2, <2>5 DEF Rows, RowSound
    <3>2. clearNow' = TRUE BY <3>1 DEF clearNow
    <3>3. Guarded(a)
      BY <3>2 DEF Guarded, Answer, ExecuteAnswers
    <3>4. executes' = [executes EXCEPT ![c] = a] BY <2>5
    <3> HIDE DEF a
    <3>5. a \in ExecuteAnswers /\ Claimed(a, c, worker') /\ Refusal(a) BY <3>3, MayAnswer DEF Guarded
    <3> QED BY <2>7, <3>1, <3>4, <3>5, WorkerStep
  <2>6. CASE /\ worker' = [worker EXCEPT !.st = "failed", !.claim = Unsent]
             /\ executes' = [executes EXCEPT ![c] = Answer(502, "notExecuted", FALSE, FALSE, clearNow')]
    <3> DEFINE a == Answer(502, "notExecuted", FALSE, FALSE, clearNow')
    <3>1. RowSound(worker') /\ worker'.moved = FALSE /\ worker'.claim = Unsent
      BY <1>0, <2>1, <2>2, <2>6 DEF Rows, RowSound
    <3>2. clearNow' = TRUE BY <3>1 DEF clearNow
    <3>3. Guarded(a)
      BY <3>2 DEF Guarded, Answer, ExecuteAnswers
    <3>4. executes' = [executes EXCEPT ![c] = a] BY <2>6
    <3> HIDE DEF a
    <3>5. a \in ExecuteAnswers /\ Claimed(a, c, worker') /\ Refusal(a) BY <3>3, MayAnswer DEF Guarded
    <3> QED BY <2>7, <3>1, <3>4, <3>5, WorkerStep
  <2> QED BY <1>4, <2>4, <2>5, <2>6 DEF WorkerFinishes
<1> QED BY <1>1, <1>2, <1>3, <1>4

\* A step that leaves the Worker's row alone, and gives a request a new answer or none.
LEMMA CallerStep ==
  ASSUME CallsInv, UNCHANGED worker, executes' \in [Executes -> ExecuteAnswers],
         \A c \in Executes : executes'[c] = executes[c] \/ executes'[c] = Request("sent"),
         outcomes' \in [Executes -> Outcomes], AnswersSound'
  PROVE  CallsInv'
<1>1. \A c \in Executes : Claimed(executes'[c], c, worker') /\ Refusal(executes'[c])
  BY RequestTyped DEF CallsInv, Claimed
<1>2. RowSound(worker)' /\ \A c \in Executes : Claimed(executes[c], c, worker)' /\ Refusal(executes[c])'
  BY <1>1 DEF CallsInv, RowSound, Claimed, Refusal, isInDoubtExecuteAnswer, isNotAcceptedExecuteBody
<1> QED BY <1>2 DEF CallsInv

\* A caller reports what it was answered, and doubt where it was not.
LEMMA ExecuteSteps ==
  ASSUME CallsInv, NEW c \in Executes, Execute(c) \/ ExecuteAnswered(c) \/ ExecuteLost(c)
  PROVE  CallsInv'
<1>1. executes \in [Executes -> ExecuteAnswers] /\ outcomes \in [Executes -> Outcomes] /\ AnswersSound
  BY DEF CallsInv
<1> DEFINE unanswered == [st |-> "thrown", inDoubt |-> TRUE, notAccepted |-> FALSE, clear |-> FALSE]
<1>2. CASE outcomes' = [outcomes EXCEPT ![c] = unanswered]
           /\ UNCHANGED <<worker, executes, fetchKind, sentToken, tookFrom>>
  <2>1. unanswered \in Outcomes BY DEF Outcomes
  <2>2. outcomes' \in [Executes -> Outcomes] BY <1>1, <1>2, <2>1
  <2>3. \A d \in Executes : outcomes'[d] = IF d = c THEN unanswered ELSE outcomes[d] BY <1>1, <1>2
  <2>4. AnswersSound' BY <1>1, <1>2, <2>3 DEF AnswersSound, NotInDoubtIsClear, TokenStaysHome
  <2> QED BY <1>1, <1>2, <2>2, <2>4, CallerStep
<1>3. CASE Execute(c)
  <2>1. executes' \in [Executes -> ExecuteAnswers] BY <1>1, <1>3, RequestTyped DEF Execute
  <2>2. \A d \in Executes : executes'[d] = executes[d] \/ executes'[d] = Request("sent")
    BY <1>1, <1>3 DEF Execute
  <2>3. AnswersSound' /\ UNCHANGED <<worker, outcomes>>
    BY <1>1, <1>3 DEF Execute, AnswersSound, NotInDoubtIsClear, TokenStaysHome
  <2> QED BY <1>1, <2>1, <2>2, <2>3, CallerStep
<1>4. CASE ExecuteAnswered(c) /\ fetchKind # "rebuilding"
  <2> DEFINE a == executes[c]
             inDoubt == a.status # 200 /\ isInDoubtExecuteAnswer(a)
             o == [st |-> IF a.status = 200 THEN "returned" ELSE "thrown", inDoubt |-> inDoubt,
                   notAccepted |-> ~inDoubt /\ isNotAcceptedExecuteBody(a), clear |-> a.clear]
  <2>1. /\ outcomes' = [outcomes EXCEPT ![c] = o] /\ a.st = "answered"
        /\ tookFrom' = tookFrom \cup {Origin} /\ UNCHANGED <<worker, executes, fetchKind, sentToken>>
    BY <1>4 DEF ExecuteAnswered
  <2>2. a \in ExecuteAnswers /\ Refusal(a) BY <1>1 DEF CallsInv
  <2>3. o \in Outcomes
    <3>1. a.clear \in BOOLEAN /\ inDoubt \in BOOLEAN /\ isNotAcceptedExecuteBody(a) \in BOOLEAN
      BY <2>2 DEF ExecuteAnswers, isNotAcceptedExecuteBody
    <3> QED BY <3>1 DEF Outcomes
  <2>4. o.st = "thrown" /\ ~o.inDoubt => o.clear
    <3> SUFFICES ASSUME a.status # 200, ~isInDoubtExecuteAnswer(a) PROVE a.clear
      OBVIOUS
    <3> QED BY <2>1, <2>2 DEF Refusal
  <2> HIDE DEF o
  <2>5. \A d \in Executes : outcomes'[d] = IF d = c THEN o ELSE outcomes[d] BY <1>1, <2>1
  <2>6. NotInDoubtIsClear' BY <1>1, <2>4, <2>5 DEF AnswersSound, NotInDoubtIsClear
  <2>7. TokenStaysHome' BY <1>1, <2>1 DEF AnswersSound, TokenStaysHome, Origin, Elsewhere
  <2>8. outcomes' \in [Executes -> Outcomes] BY <1>1, <2>1, <2>3
  <2> QED BY <1>1, <2>1, <2>6, <2>7, <2>8, CallerStep DEF AnswersSound
<1>5. CASE ExecuteAnswered(c) /\ fetchKind = "rebuilding"
  BY <1>2, <1>5 DEF ExecuteAnswered
<1>6. CASE ExecuteLost(c) BY <1>2, <1>6 DEF ExecuteLost
<1> QED BY <1>3, <1>4, <1>5, <1>6

\* A token goes nowhere but to the origin, and an answer is taken from nowhere else.
LEMMA PollSteps ==
  ASSUME CallsInv,
         \/ \E target \in {Origin, Elsewhere} : TokenPollRedirected(target) \/ PollRedirected(target)
         \/ GetIntentStatus \/ PollAnswered \/ PollWithoutToken \/ PollLost
  PROVE  CallsInv'
<1>1. AnswersSound /\ Origin # Elsewhere BY DEF CallsInv, Origin, Elsewhere
<1>2. UNCHANGED <<worker, executes, outcomes, fetchKind>>
  BY DEF TokenPollRedirected, PollRedirected, GetIntentStatus, PollAnswered, PollWithoutToken, PollLost
<1>3. TokenStaysHome'
  <2>1. CASE \E target \in {Origin, Elsewhere} : TokenPollRedirected(target)
    BY <1>1, <2>1 DEF TokenPollRedirected, sameOriginRedirectTarget, AnswersSound, TokenStaysHome
  <2>2. CASE \E target \in {Origin, Elsewhere} : PollRedirected(target)
    BY <1>1, <2>2 DEF PollRedirected, staysOnOrigin, AnswersSound, TokenStaysHome
  <2>3. CASE GetIntentStatus \/ PollAnswered \/ PollWithoutToken \/ PollLost
    BY <1>1, <2>3 DEF GetIntentStatus, PollAnswered, PollWithoutToken, PollLost, AnswersSound, TokenStaysHome
  <2> QED BY <2>1, <2>2, <2>3
<1>4. NotInDoubtIsClear' BY <1>1, <1>2 DEF AnswersSound, NotInDoubtIsClear
<1> QED BY <1>2, <1>3, <1>4, CallerStep DEF AnswersSound, CallsInv

\* Every step keeps it.
LEMMA CallsSteps == CallsInv /\ [CallsNext]_callVars => CallsInv'
<1> SUFFICES ASSUME CallsInv, [CallsNext]_callVars PROVE CallsInv'
  OBVIOUS
<1>1. CASE UNCHANGED callVars
  <2>1. AnswersSound' /\ UNCHANGED <<worker, executes, outcomes>>
    BY <1>1 DEF CallsInv, callVars, AnswersSound, NotInDoubtIsClear, TokenStaysHome
  <2> QED BY <2>1, CallerStep DEF CallsInv
<1>2. CASE CallsNext BY <1>2, WorkerSteps, ExecuteSteps, PollSteps DEF CallsNext
<1> QED BY <1>1, <1>2

\* However many callers execute one order, however their requests are lost, answered late or claimed by
\* one another: none is told of a refusal unless nothing was claimed or moved, and no token is sent to
\* another origin.  Code: ApiClient.executeIntent, getIntentStatus, isInDoubtExecuteAnswer.
THEOREM CallsTheorem == CallsInit /\ [][CallsNext]_callVars => []AnswersSound
<1>1. CallsInv => AnswersSound BY DEF CallsInv
<1> QED BY <1>1, CallsStart, CallsSteps, PTL

-----------------------------------------------------------------------------
(* Quotes. *)

\* What a call, its fetch and a cached quote may be.
Quoted == [st : {"none", "waiting", "served", "failed"}, from : QuoteCalls \cup {NoCall}, cached : BOOLEAN]
Fetched == [open : BOOLEAN, attempt : Int, pull : BOOLEAN]
CachedQuotes == [quote : QuoteCalls \cup {NoCall}, timestamp : Int]

\* A forced refresh of its request was made after f.
Overtaken(s, f) ==
  \E i, j \in DOMAIN s :
    /\ s[i] = f /\ s[j] \in ForcedCalls /\ i < j
    /\ hashQuoteRequest(s[j]) = hashQuoteRequest(f)

\* One was made after f and no later than c.
Renewed(s, f, c) ==
  \E i, j, l \in DOMAIN s :
    /\ s[i] = f /\ s[j] \in ForcedCalls /\ s[l] = c
    /\ i < j /\ j <= l
    /\ hashQuoteRequest(s[j]) = hashQuoteRequest(f)

\* A quote that may be served again: its fetch has ended, and carried no pull.
Kept(fs, gs, f) == f \in QuoteCalls /\ fs[f].open = FALSE /\ fs[f].pull = FALSE /\ gs[f].st # "none"

\* The calls begun, each once, in their order.
QuoteShape ==
  /\ begun \in Seq(QuoteCalls)
  /\ getQuotes \in [QuoteCalls -> Quoted]
  /\ fetches \in [QuoteCalls -> Fetched]
  /\ pendingQuotes \in [Hashes -> QuoteCalls \cup {NoCall}]
  /\ quoteCache \in [Hashes -> CachedQuotes]
  /\ quoteClock \in Int
  /\ \A i \in DOMAIN begun : getQuotes[begun[i]].st # "none"
  /\ \A c \in QuoteCalls : getQuotes[c].st # "none" => \E i \in DOMAIN begun : begun[i] = c

\* The pending fetch of a request is under way and nothing was forced since.
PendingSound ==
  \A k \in Hashes : pendingQuotes[k] # NoCall =>
    fetches[pendingQuotes[k]].open = TRUE /\ hashQuoteRequest(pendingQuotes[k]) = k
    /\ ~Overtaken(begun, pendingQuotes[k])

\* A fetch under way that is not the pending one was overtaken by a forced refresh.
FetchesSound ==
  \A f \in QuoteCalls : fetches[f].open = TRUE =>
    getQuotes[f].st # "none" /\ (pendingQuotes[hashQuoteRequest(f)] # f => Overtaken(begun, f))

\* No caller waits for a quote that was refreshed before it asked.
WaitersSound == \A c \in QuoteCalls : getQuotes[c].st = "waiting" => ~Renewed(begun, getQuotes[c].from, c)

\* What was, or may be, served from the cache is of a fetch that ended and carried no pull.
CacheSound ==
  /\ \A c \in QuoteCalls : getQuotes[c].cached = TRUE => Kept(fetches, getQuotes, getQuotes[c].from)
  /\ \A k \in Hashes : quoteCache[k].quote # NoCall => Kept(fetches, getQuotes, quoteCache[k].quote)

\* The four, and the types.
QuoteInv == QuoteShape /\ PendingSound /\ FetchesSound /\ WaitersSound /\ CacheSound

\* A request's hash is one of the hashes.
LEMMA HashKnown == \A c \in QuoteCalls : hashQuoteRequest(c) \in Hashes
BY DEF Hashes

\* Nothing is under way or cached at the start.
LEMMA QuoteStarts == QuoteInit => QuoteInv
<1> SUFFICES ASSUME QuoteInit PROVE QuoteInv
  OBVIOUS
<1>1. QuoteShape
  BY DEF QuoteInit, QuoteShape, Quoted, Fetched, CachedQuotes, QuoteCall, NotFetched, NoCached
<1>2. PendingSound /\ FetchesSound /\ WaitersSound /\ CacheSound
  BY DEF QuoteInit, PendingSound, FetchesSound, WaitersSound, CacheSound, QuoteCall, NotFetched, NoCached
<1> QED BY <1>1, <1>2 DEF QuoteInv

\* The property is of the fetches, the waiters and the cache.
LEMMA QuoteIsSound == QuoteInv => QuotesSound
<1> SUFFICES ASSUME QuoteInv PROVE QuotesSound
  OBVIOUS
<1>1. ASSUME NEW f \in QuoteCalls, fetches[f].open, pendingQuotes[hashQuoteRequest(f)] # f
      PROVE  Refreshed(f, Last(begun))
  <2>1. fetches[f].open = TRUE BY <1>1 DEF QuoteInv, QuoteShape, Fetched
  <2>2. Overtaken(begun, f) BY <1>1, <2>1 DEF QuoteInv, FetchesSound
  <2>3. PICK i, j \in DOMAIN begun :
          /\ begun[i] = f /\ begun[j] \in ForcedCalls /\ i < j
          /\ hashQuoteRequest(begun[j]) = hashQuoteRequest(f)
    BY <2>2 DEF Overtaken
  <2>4. DOMAIN begun = 1..Len(begun) /\ Len(begun) \in Nat BY DEF QuoteInv, QuoteShape
  <2>5. Len(begun) \in DOMAIN begun /\ j <= Len(begun) BY <2>3, <2>4
  <2> QED BY <2>3, <2>5 DEF Refreshed, Last
<1>2. ASSUME NEW c \in QuoteCalls, getQuotes[c].cached PROVE ~fetches[getQuotes[c].from].pull
  <2>1. getQuotes[c].cached = TRUE BY <1>2 DEF QuoteInv, QuoteShape, Quoted
  <2> QED BY <2>1 DEF QuoteInv, CacheSound, Kept
<1>3. \A f, c : Refreshed(f, c) <=> Renewed(begun, f, c) BY DEF Refreshed, Renewed
<1> QED BY <1>1, <1>2, <1>3 DEF QuotesSound, SharedUntilRefreshed, PullNeverCached, QuoteInv, WaitersSound

\* What a new call adds to the order.
LEMMA Begins ==
  ASSUME QuoteInv, NEW c \in QuoteCalls, getQuotes[c].st = "none", begun' = Append(begun, c)
  PROVE  /\ begun' \in Seq(QuoteCalls)
         /\ DOMAIN begun' = DOMAIN begun \cup {Len(begun) + 1}
         /\ begun'[Len(begun) + 1] = c
         /\ \A i \in DOMAIN begun : begun'[i] = begun[i] /\ begun[i] # c /\ i <= Len(begun) /\ i \in Int
         /\ Len(begun) + 1 \notin DOMAIN begun /\ Len(begun) \in Int
<1>1. begun \in Seq(QuoteCalls) /\ DOMAIN begun = 1..Len(begun) /\ Len(begun) \in Nat
  BY DEF QuoteInv, QuoteShape
<1>2. /\ begun' \in Seq(QuoteCalls) /\ Len(begun') = Len(begun) + 1 /\ DOMAIN begun' = 1..(Len(begun) + 1)
      /\ begun'[Len(begun) + 1] = c
      /\ \A i \in 1..Len(begun) : begun'[i] = begun[i]
  BY <1>1
<1>3. \A i \in DOMAIN begun : begun[i] # c BY DEF QuoteInv, QuoteShape
<1> QED BY <1>1, <1>2, <1>3

\* Whom a new call overtakes, and that it is overtaken by none.
LEMMA Overtakes ==
  ASSUME QuoteInv, NEW c \in QuoteCalls, getQuotes[c].st = "none", begun' = Append(begun, c)
  PROVE  /\ \A f : Overtaken(begun, f) => Overtaken(begun', f)
         /\ ~Overtaken(begun', c)
         /\ \A f : Overtaken(begun', f) =>
              Overtaken(begun, f) \/ (c \in ForcedCalls /\ hashQuoteRequest(c) = hashQuoteRequest(f))
         /\ \A f \in QuoteCalls : getQuotes[f].st # "none" /\ c \in ForcedCalls
                                 /\ hashQuoteRequest(c) = hashQuoteRequest(f) => Overtaken(begun', f)
         /\ \A f, d : d # c /\ Renewed(begun', f, d) => Renewed(begun, f, d)
         /\ \A f : Renewed(begun', f, c) => Overtaken(begun', f)
<1> DEFINE n == Len(begun) + 1
<1>1. /\ DOMAIN begun' = DOMAIN begun \cup {n} /\ begun'[n] = c
      /\ \A i \in DOMAIN begun : begun'[i] = begun[i] /\ begun[i] # c /\ i < n /\ i \in Int
      /\ n \notin DOMAIN begun /\ n \in Int
  BY Begins
<1> HIDE DEF n
<1>2. ASSUME NEW f, Overtaken(begun, f) PROVE Overtaken(begun', f) BY <1>1, <1>2 DEF Overtaken
<1>3. ~Overtaken(begun', c) BY <1>1 DEF Overtaken
<1>4. ASSUME NEW f, Overtaken(begun', f), ~(c \in ForcedCalls /\ hashQuoteRequest(c) = hashQuoteRequest(f))
      PROVE  Overtaken(begun, f)
  <2>1. PICK i, j \in DOMAIN begun' :
          /\ begun'[i] = f /\ begun'[j] \in ForcedCalls /\ i < j
          /\ hashQuoteRequest(begun'[j]) = hashQuoteRequest(f)
    BY <1>4 DEF Overtaken
  <2>2. j # n BY <1>1, <1>4, <2>1
  <2>3. j \in DOMAIN begun BY <1>1, <2>1, <2>2
  <2>4. i # n BY <1>1, <2>1, <2>3
  <2> QED BY <1>1, <2>1, <2>3, <2>4 DEF Overtaken
<1>5. ASSUME NEW f \in QuoteCalls, getQuotes[f].st # "none", c \in ForcedCalls,
             hashQuoteRequest(c) = hashQuoteRequest(f)
      PROVE  Overtaken(begun', f)
  <2>1. PICK i \in DOMAIN begun : begun[i] = f BY <1>5 DEF QuoteInv, QuoteShape
  <2> QED BY <1>1, <1>5, <2>1 DEF Overtaken
<1>6. ASSUME NEW f, NEW d, d # c, Renewed(begun', f, d) PROVE Renewed(begun, f, d)
  <2>1. PICK i, j, l \in DOMAIN begun' :
          /\ begun'[i] = f /\ begun'[j] \in ForcedCalls /\ begun'[l] = d
          /\ i < j /\ j <= l /\ hashQuoteRequest(begun'[j]) = hashQuoteRequest(f)
    BY <1>6 DEF Renewed
  <2>2. l \in DOMAIN begun BY <1>1, <1>6, <2>1
  <2>3. j \in DOMAIN begun BY <1>1, <2>1, <2>2
  <2>4. i \in DOMAIN begun BY <1>1, <2>1, <2>3
  <2> QED BY <1>1, <2>1, <2>2, <2>3, <2>4 DEF Renewed
<1>7. \A f : Renewed(begun', f, c) => Overtaken(begun', f) BY DEF Renewed, Overtaken
<1> QED BY <1>2, <1>3, <1>4, <1>5, <1>6, <1>7

\* The order of the calls stays that of the calls made.
LEMMA BegunStays ==
  ASSUME QuoteInv, NEW c \in QuoteCalls, getQuotes[c].st = "none", begun' = Append(begun, c),
         getQuotes' \in [QuoteCalls -> Quoted], getQuotes'[c].st # "none",
         \A d \in QuoteCalls \ {c} : getQuotes'[d] = getQuotes[d]
  PROVE  /\ begun' \in Seq(QuoteCalls)
         /\ \A i \in DOMAIN begun' : getQuotes'[begun'[i]].st # "none"
         /\ \A d \in QuoteCalls : getQuotes'[d].st # "none" => \E i \in DOMAIN begun' : begun'[i] = d
<1> DEFINE n == Len(begun) + 1
<1>1. /\ DOMAIN begun' = DOMAIN begun \cup {n} /\ begun'[n] = c /\ begun' \in Seq(QuoteCalls)
      /\ \A i \in DOMAIN begun : begun'[i] = begun[i] /\ begun[i] # c
  BY Begins
<1> HIDE DEF n
<1>2. \A i \in DOMAIN begun : begun[i] \in QuoteCalls /\ getQuotes[begun[i]].st # "none"
  BY DEF QuoteInv, QuoteShape
<1>3. \A i \in DOMAIN begun' : getQuotes'[begun'[i]].st # "none" BY <1>1, <1>2
<1>4. ASSUME NEW d \in QuoteCalls, getQuotes'[d].st # "none" PROVE \E i \in DOMAIN begun' : begun'[i] = d
  <2>1. CASE d = c BY <1>1, <2>1
  <2>2. CASE d # c
    <3>1. PICK i \in DOMAIN begun : begun[i] = d BY <1>4, <2>2 DEF QuoteInv, QuoteShape
    <3> QED BY <1>1, <3>1
  <2> QED BY <2>1, <2>2
<1> QED BY <1>1, <1>3, <1>4

\* A call that starts a fetch: nobody had one to share, or a refresh drops it.
LEMMA NewFetch ==
  ASSUME QuoteInv, NEW c \in QuoteCalls, getQuotes[c].st = "none", begun' = Append(begun, c),
         UNCHANGED quoteClock,
         c \in ForcedCalls \/ pendingQuotes[hashQuoteRequest(c)] = NoCall,
         pendingQuotes' = [pendingQuotes EXCEPT ![hashQuoteRequest(c)] = c],
         quoteCache' \in {quoteCache, [quoteCache EXCEPT ![hashQuoteRequest(c)] = NoCached]},
         getQuotes' = [getQuotes EXCEPT ![c] = QuoteCall("waiting", c, FALSE)],
         fetches' = [fetches EXCEPT ![c] = [open |-> TRUE, attempt |-> 1, pull |-> FALSE]]
  PROVE  QuoteInv'
<1> DEFINE k == hashQuoteRequest(c)
<1>1. /\ begun \in Seq(QuoteCalls) /\ getQuotes \in [QuoteCalls -> Quoted] /\ fetches \in [QuoteCalls -> Fetched]
      /\ pendingQuotes \in [Hashes -> QuoteCalls \cup {NoCall}] /\ quoteCache \in [Hashes -> CachedQuotes]
      /\ k \in Hashes
  BY HashKnown DEF QuoteInv, QuoteShape
<1>2. /\ \A d \in QuoteCalls : getQuotes'[d] = IF d = c THEN QuoteCall("waiting", c, FALSE) ELSE getQuotes[d]
      /\ \A d \in QuoteCalls : fetches'[d] = IF d = c THEN [open |-> TRUE, attempt |-> 1, pull |-> FALSE]
                                            ELSE fetches[d]
      /\ \A h \in Hashes : pendingQuotes'[h] = IF h = k THEN c ELSE pendingQuotes[h]
      /\ \A h \in Hashes : quoteCache'[h] \in {quoteCache[h], NoCached}
  BY <1>1
<1>3. QuoteCall("waiting", c, FALSE) \in Quoted /\ QuoteCall("waiting", c, FALSE).st = "waiting"
      /\ QuoteCall("waiting", c, FALSE).from = c /\ QuoteCall("waiting", c, FALSE).cached = FALSE
  BY DEF QuoteCall, Quoted
<1>4. QuoteShape'
  <2>1. NoCached \in CachedQuotes /\ [open |-> TRUE, attempt |-> 1, pull |-> FALSE] \in Fetched
    BY DEF NoCached, CachedQuotes, Fetched
  <2>2. /\ getQuotes' \in [QuoteCalls -> Quoted] /\ fetches' \in [QuoteCalls -> Fetched]
        /\ pendingQuotes' \in [Hashes' -> QuoteCalls \cup {NoCall}] /\ quoteCache' \in [Hashes' -> CachedQuotes]
    <3>1. Hashes' = Hashes BY DEF Hashes
    <3> QED BY <1>1, <1>3, <2>1, <3>1
  <2>3. /\ begun' \in Seq(QuoteCalls)
        /\ \A i \in DOMAIN begun' : getQuotes'[begun'[i]].st # "none"
        /\ \A d \in QuoteCalls : getQuotes'[d].st # "none" => \E i \in DOMAIN begun' : begun'[i] = d
    BY <1>2, <1>3, <2>2, BegunStays
  <2>4. quoteClock' \in Int BY DEF QuoteInv, QuoteShape
  <2> QED BY <2>2, <2>3, <2>4 DEF QuoteShape
<1>5. /\ \A f : Overtaken(begun, f) => Overtaken(begun', f)
      /\ ~Overtaken(begun', c)
      /\ \A f : Overtaken(begun', f) =>
              Overtaken(begun, f) \/ (c \in ForcedCalls /\ hashQuoteRequest(c) = hashQuoteRequest(f))
      /\ \A f \in QuoteCalls : getQuotes[f].st # "none" /\ c \in ForcedCalls
                                /\ hashQuoteRequest(c) = hashQuoteRequest(f) => Overtaken(begun', f)
      /\ \A f, d : d # c /\ Renewed(begun', f, d) => Renewed(begun, f, d)
      /\ \A f : Renewed(begun', f, c) => Overtaken(begun', f)
  BY Overtakes
<1>6. /\ \A f \in QuoteCalls : fetches[f].open = TRUE => f # c /\ getQuotes[f].st # "none"
      /\ \A f \in QuoteCalls : fetches[f].open = TRUE /\ pendingQuotes[hashQuoteRequest(f)] # f => Overtaken(begun, f)
  BY DEF QuoteInv, FetchesSound
<1>7. ASSUME NEW h \in Hashes, pendingQuotes'[h] # NoCall
      PROVE  /\ fetches'[pendingQuotes'[h]].open = TRUE /\ hashQuoteRequest(pendingQuotes'[h]) = h
             /\ ~Overtaken(begun', pendingQuotes'[h])
  <2>1. CASE h = k BY <1>2, <1>5, <2>1
  <2>2. CASE h # k
    <3>1. pendingQuotes'[h] = pendingQuotes[h] /\ pendingQuotes[h] \in QuoteCalls BY <1>1, <1>2, <1>7, <2>2
    <3>2. /\ fetches[pendingQuotes[h]].open = TRUE /\ hashQuoteRequest(pendingQuotes[h]) = h
          /\ ~Overtaken(begun, pendingQuotes[h])
      BY <1>7, <3>1 DEF QuoteInv, PendingSound
    <3>3. ~Overtaken(begun', pendingQuotes[h]) BY <1>5, <2>2, <3>2
    <3> QED BY <1>2, <1>6, <3>1, <3>2, <3>3
  <2> QED BY <2>1, <2>2
<1>8. ASSUME NEW f \in QuoteCalls, fetches'[f].open = TRUE
      PROVE  getQuotes'[f].st # "none" /\ (pendingQuotes'[hashQuoteRequest(f)] # f => Overtaken(begun', f))
  <2>1. CASE f = c BY <1>1, <1>2, <1>3, <2>1
  <2>2. CASE f # c
    <3>1. fetches[f].open = TRUE /\ getQuotes'[f] = getQuotes[f] BY <1>2, <1>8, <2>2
    <3>2. hashQuoteRequest(f) \in Hashes BY HashKnown
    <3>3. CASE hashQuoteRequest(f) # k BY <1>2, <1>5, <1>6, <3>1, <3>2, <3>3
    <3>4. CASE hashQuoteRequest(f) = k
      <4>1. CASE pendingQuotes[k] # f BY <1>5, <1>6, <3>1, <3>4, <4>1
      <4>2. CASE pendingQuotes[k] = f
        <5>1. c \in ForcedCalls BY <4>2, QuoteCacheAssumption
        <5> QED BY <1>5, <1>6, <3>1, <3>4, <5>1
      <4> QED BY <4>1, <4>2
    <3> QED BY <3>3, <3>4
  <2> QED BY <2>1, <2>2
<1>9. ASSUME NEW d \in QuoteCalls, getQuotes'[d].st = "waiting" PROVE ~Renewed(begun', getQuotes'[d].from, d)
  <2>1. CASE d = c
    <3>1. getQuotes'[d].from = c BY <1>2, <1>3, <2>1
    <3> QED BY <1>5, <2>1, <3>1
  <2>2. CASE d # c
    <3>1. getQuotes'[d] = getQuotes[d] BY <1>2, <2>2
    <3>2. ~Renewed(begun, getQuotes[d].from, d) BY <1>9, <3>1 DEF QuoteInv, WaitersSound
    <3> QED BY <1>5, <2>2, <3>1, <3>2
  <2> QED BY <2>1, <2>2
<1>10. ASSUME NEW f, Kept(fetches, getQuotes, f) PROVE Kept(fetches', getQuotes', f) BY <1>2, <1>10 DEF Kept
<1>11. CacheSound'
  <2>1. ASSUME NEW d \in QuoteCalls, getQuotes'[d].cached = TRUE 
         PROVE  Kept(fetches', getQuotes', getQuotes'[d].from)
    <3>1. d # c BY <1>2, <1>3, <2>1
    <3>2. getQuotes'[d] = getQuotes[d] /\ Kept(fetches, getQuotes, getQuotes[d].from)
      BY <1>2, <2>1, <3>1 DEF QuoteInv, CacheSound
    <3> QED BY <1>10, <3>2
  <2>2. ASSUME NEW h \in Hashes, quoteCache'[h].quote # NoCall 
         PROVE  Kept(fetches', getQuotes', quoteCache'[h].quote)
    <3>1. quoteCache'[h] = quoteCache[h] BY <1>2, <2>2 DEF NoCached
    <3>2. Kept(fetches, getQuotes, quoteCache[h].quote) BY <2>2, <3>1 DEF QuoteInv, CacheSound
    <3> QED BY <1>10, <3>1, <3>2
  <2>3. Hashes' = Hashes BY DEF Hashes
  <2> QED BY <2>1, <2>2, <2>3 DEF CacheSound
<1>12. PendingSound' BY <1>7 DEF PendingSound, Hashes
<1>13. FetchesSound' BY <1>8 DEF FetchesSound
<1>14. WaitersSound' BY <1>9 DEF WaitersSound
<1> QED BY <1>4, <1>11, <1>12, <1>13, <1>14 DEF QuoteInv

\* A call that starts no fetch: it is served off the cache, or shares the fetch in flight.
LEMMA NoFetch ==
  ASSUME QuoteInv, NEW c \in QuoteCalls, getQuotes[c].st = "none", begun' = Append(begun, c),
         UNCHANGED <<quoteClock, quoteCache, pendingQuotes, fetches>>, c \notin ForcedCalls,
         NEW q \in Quoted, getQuotes' = [getQuotes EXCEPT ![c] = q],
         \/ q.st = "served" /\ (q.cached = TRUE => Kept(fetches, getQuotes, q.from))
         \/ q.st = "waiting" /\ q.cached = FALSE /\ ~Overtaken(begun, q.from)
  PROVE  QuoteInv'
<1>1. /\ begun \in Seq(QuoteCalls) /\ getQuotes \in [QuoteCalls -> Quoted] /\ fetches \in [QuoteCalls -> Fetched]
      /\ pendingQuotes \in [Hashes -> QuoteCalls \cup {NoCall}] /\ quoteCache \in [Hashes -> CachedQuotes]
      /\ Hashes' = Hashes
  BY DEF QuoteInv, QuoteShape, Hashes, hashQuoteRequest
<1>2. \A d \in QuoteCalls : getQuotes'[d] = IF d = c THEN q ELSE getQuotes[d] BY <1>1
<1>3. getQuotes' \in [QuoteCalls -> Quoted] BY <1>1
<1>4. QuoteShape'
  <2>1. getQuotes'[c].st # "none" BY <1>2
  <2>2. /\ begun' \in Seq(QuoteCalls)
        /\ \A i \in DOMAIN begun' : getQuotes'[begun'[i]].st # "none"
        /\ \A d \in QuoteCalls : getQuotes'[d].st # "none" => \E i \in DOMAIN begun' : begun'[i] = d
    BY <1>2, <1>3, <2>1, BegunStays
  <2>3. quoteClock' \in Int BY DEF QuoteInv, QuoteShape
  <2> QED BY <1>1, <1>3, <2>2, <2>3 DEF QuoteShape
<1>5. /\ \A f : Overtaken(begun, f) <=> Overtaken(begun', f)
      /\ \A f, d : d # c /\ Renewed(begun', f, d) => Renewed(begun, f, d)
      /\ \A f : Renewed(begun', f, c) => Overtaken(begun', f)
  BY Overtakes
<1>6. PendingSound' BY <1>1, <1>5 DEF QuoteInv, PendingSound, hashQuoteRequest
<1>7. FetchesSound'
  <2>1. ASSUME NEW f \in QuoteCalls, fetches[f].open = TRUE
        PROVE  getQuotes'[f].st # "none" /\ (pendingQuotes[hashQuoteRequest(f)] # f => Overtaken(begun', f))
    BY <1>2, <1>5, <2>1 DEF QuoteInv, FetchesSound
  <2> QED BY <2>1 DEF FetchesSound, hashQuoteRequest
<1>8. WaitersSound'
  <2>1. ASSUME NEW d \in QuoteCalls, getQuotes'[d].st = "waiting" PROVE ~Renewed(begun', getQuotes'[d].from, d)
    <3>1. CASE d = c BY <1>2, <1>5, <2>1, <3>1
    <3>2. CASE d # c BY <1>2, <1>5, <2>1, <3>2 DEF QuoteInv, WaitersSound
    <3> QED BY <3>1, <3>2
  <2> QED BY <2>1 DEF WaitersSound
<1>9. \A f : Kept(fetches, getQuotes, f) => Kept(fetches', getQuotes', f) BY <1>2 DEF Kept
<1>10. CacheSound'
  <2>1. ASSUME NEW d \in QuoteCalls, getQuotes'[d].cached = TRUE PROVE Kept(fetches', getQuotes', getQuotes'[d].from)
    <3>1. CASE d = c BY <1>2, <1>9, <2>1, <3>1
    <3>2. CASE d # c BY <1>2, <1>9, <2>1, <3>2 DEF QuoteInv, CacheSound
    <3> QED BY <3>1, <3>2
  <2>2. \A h \in Hashes : quoteCache'[h].quote # NoCall => Kept(fetches', getQuotes', quoteCache'[h].quote)
    BY <1>9 DEF QuoteInv, CacheSound
  <2> QED BY <1>1, <2>1, <2>2 DEF CacheSound
<1> QED BY <1>4, <1>6, <1>7, <1>8, <1>10 DEF QuoteInv

\* A call is served from the cache, joins the pending fetch, or begins one of its own.
LEMMA GetQuoteStep == ASSUME QuoteInv, NEW c \in QuoteCalls, GetQuote(c) PROVE QuoteInv'
<1> DEFINE k == hashQuoteRequest(c)
           cached == cachedQuote(k)
<1>1. /\ getQuotes[c].st = "none" /\ begun' = Append(begun, c) /\ UNCHANGED quoteClock /\ k \in Hashes
      /\ getQuotes \in [QuoteCalls -> Quoted] /\ pendingQuotes \in [Hashes -> QuoteCalls \cup {NoCall}]
      /\ quoteCache \in [Hashes -> CachedQuotes]
  BY HashKnown DEF GetQuote, QuoteInv, QuoteShape
<1>2. CASE c \notin ForcedCalls /\ cached # NoCall
  <2>1. /\ getQuotes' = [getQuotes EXCEPT ![c] = QuoteCall("served", cached, TRUE)]
        /\ UNCHANGED <<quoteCache, pendingQuotes, fetches>>
    BY <1>2 DEF GetQuote
  <2>2. cached = quoteCache[k].quote BY <1>2 DEF cachedQuote
  <2>3. Kept(fetches, getQuotes, cached) BY <1>1, <1>2, <2>2 DEF QuoteInv, CacheSound
  <2>4. cached \in QuoteCalls BY <2>3 DEF Kept
  <2> HIDE DEF cached
  <2> DEFINE q == QuoteCall("served", cached, TRUE)
  <2>5. q \in Quoted /\ q.st = "served" /\ q.from = cached BY <2>4 DEF QuoteCall, Quoted
  <2>6. getQuotes' = [getQuotes EXCEPT ![c] = q] BY <2>1
  <2> HIDE DEF q
  <2> QED BY <1>1, <1>2, <2>1, <2>3, <2>5, <2>6, NoFetch
<1>3. CASE ~(c \notin ForcedCalls /\ cached # NoCall)
  <2>1. /\ refreshed(c, k)
        /\ LET f == pendingQuotes'[k]
           IN /\ getQuotes' = [getQuotes EXCEPT ![c] = QuoteCall("waiting", f, FALSE)]
              /\ fetches' = IF f = c
                            THEN [fetches EXCEPT ![c] = [open |-> TRUE, attempt |-> 1, pull |-> FALSE]]
                            ELSE fetches
    BY <1>3 DEF GetQuote
  <2>2. CASE c \in ForcedCalls \/ pendingQuotes[k] = NoCall
    <3>1. pendingQuotes' = [pendingQuotes EXCEPT ![k] = c] BY <2>1, <2>2 DEF refreshed
    <3>2. pendingQuotes'[k] = c BY <1>1, <3>1
    <3>3. quoteCache' \in {quoteCache, [quoteCache EXCEPT ![k] = NoCached]} BY <2>1 DEF refreshed
    <3>4. /\ getQuotes' = [getQuotes EXCEPT ![c] = QuoteCall("waiting", c, FALSE)]
          /\ fetches' = [fetches EXCEPT ![c] = [open |-> TRUE, attempt |-> 1, pull |-> FALSE]]
      BY <2>1, <3>2
    <3> QED BY <1>1, <2>2, <3>1, <3>3, <3>4, NewFetch
  <2>3. CASE c \notin ForcedCalls /\ pendingQuotes[k] # NoCall
    <3> DEFINE f == pendingQuotes[k]
    <3>1. UNCHANGED <<pendingQuotes, quoteCache>> BY <2>1, <2>3 DEF refreshed
    <3>2. f \in QuoteCalls /\ fetches[f].open = TRUE /\ ~Overtaken(begun, f)
      BY <1>1, <2>3 DEF QuoteInv, PendingSound
    <3>3. f # c BY <1>1, <3>2 DEF QuoteInv, FetchesSound
    <3>4. getQuotes' = [getQuotes EXCEPT ![c] = QuoteCall("waiting", f, FALSE)] /\ UNCHANGED fetches
      BY <2>1, <3>1, <3>3
    <3> HIDE DEF f
    <3> DEFINE q == QuoteCall("waiting", f, FALSE)
    <3>5. q \in Quoted /\ q.st = "waiting" /\ q.from = f /\ q.cached = FALSE BY <3>2 DEF QuoteCall, Quoted
    <3>6. getQuotes' = [getQuotes EXCEPT ![c] = q] BY <3>4
    <3> HIDE DEF q
    <3> QED BY <1>1, <2>3, <3>1, <3>2, <3>4, <3>5, <3>6, NoFetch
  <2> QED BY <2>2, <2>3
<1> QED BY <1>2, <1>3

\* A fetch ends: its waiters are served or fail, and it is forgotten unless replaced.
LEMMA SettleFetchStep ==
  ASSUME QuoteInv, NEW f \in QuoteCalls, fetches[f].open = TRUE, UNCHANGED <<begun, quoteClock>>,
         fetches' \in [QuoteCalls -> Fetched], fetches'[f].open = FALSE,
         \A g \in QuoteCalls \ {f} : fetches'[g] = fetches[g],
         pendingQuotes' = unpended(f, hashQuoteRequest(f)),
         NEW st \in {"served", "failed"}, settle(f, st),
         quoteCache' \in [Hashes -> CachedQuotes],
         \A h \in Hashes : quoteCache'[h] = quoteCache[h] \/ (quoteCache'[h].quote = f /\ fetches'[f].pull = FALSE)
  PROVE  QuoteInv'
<1> DEFINE k == hashQuoteRequest(f)
<1>1. /\ begun \in Seq(QuoteCalls) /\ getQuotes \in [QuoteCalls -> Quoted]
      /\ pendingQuotes \in [Hashes -> QuoteCalls \cup {NoCall}] /\ k \in Hashes /\ Hashes' = Hashes
  BY HashKnown DEF QuoteInv, QuoteShape, Hashes, hashQuoteRequest
<1>2. /\ QuoteCall(st, f, FALSE) \in Quoted /\ QuoteCall(st, f, FALSE).st \notin {"none", "waiting"}
      /\ QuoteCall(st, f, FALSE).cached = FALSE
  BY DEF QuoteCall, Quoted
<1>3. /\ getQuotes' \in [QuoteCalls -> Quoted]
      /\ \A c \in QuoteCalls : \/ getQuotes'[c] = getQuotes[c]
                              \/ /\ getQuotes'[c].st \notin {"none", "waiting"} /\ getQuotes'[c].cached = FALSE
                                 /\ getQuotes[c].st = "waiting"
  BY <1>1, <1>2 DEF settle
<1>4. /\ pendingQuotes' \in [Hashes -> QuoteCalls \cup {NoCall}]
      /\ \A h \in Hashes : pendingQuotes'[h] = IF h = k /\ pendingQuotes[h] = f THEN NoCall ELSE pendingQuotes[h]
  BY <1>1 DEF unpended
<1>5. QuoteShape' BY <1>1, <1>3, <1>4 DEF QuoteInv, QuoteShape
<1>6. PendingSound'
  <2>1. ASSUME NEW h \in Hashes, pendingQuotes'[h] # NoCall
        PROVE  /\ fetches'[pendingQuotes'[h]].open = TRUE /\ hashQuoteRequest(pendingQuotes'[h]) = h
               /\ ~Overtaken(begun', pendingQuotes'[h])
    <3>1. pendingQuotes'[h] = pendingQuotes[h] /\ pendingQuotes[h] \in QuoteCalls BY <1>1, <1>4, <2>1
    <3>2. /\ fetches[pendingQuotes[h]].open = TRUE /\ hashQuoteRequest(pendingQuotes[h]) = h
          /\ ~Overtaken(begun, pendingQuotes[h])
      BY <2>1, <3>1 DEF QuoteInv, PendingSound
    <3>3. pendingQuotes[h] # f BY <1>4, <2>1, <3>2, QuoteCacheAssumption
    <3> QED BY <3>1, <3>2, <3>3
  <2> QED BY <1>1, <2>1 DEF PendingSound, hashQuoteRequest
<1>7. FetchesSound'
  <2>1. ASSUME NEW g \in QuoteCalls, fetches'[g].open = TRUE
        PROVE  getQuotes'[g].st # "none" /\ (pendingQuotes'[hashQuoteRequest(g)] # g => Overtaken(begun', g))
    <3>1. g # f /\ fetches[g].open = TRUE /\ hashQuoteRequest(g) \in Hashes BY <2>1, HashKnown
    <3>2. getQuotes[g].st # "none" /\ (pendingQuotes[hashQuoteRequest(g)] # g => Overtaken(begun, g))
      BY <3>1 DEF QuoteInv, FetchesSound
    <3> QED BY <1>3, <1>4, <3>1, <3>2
  <2> QED BY <2>1 DEF FetchesSound, hashQuoteRequest
<1>8. WaitersSound' BY <1>3 DEF QuoteInv, WaitersSound
<1>9. ASSUME NEW g, Kept(fetches, getQuotes, g) PROVE Kept(fetches', getQuotes', g)
  BY <1>3, <1>9 DEF Kept
<1>10. CacheSound'
  <2>1. ASSUME NEW c \in QuoteCalls, getQuotes'[c].cached = TRUE PROVE Kept(fetches', getQuotes', getQuotes'[c].from)
    BY <1>3, <1>9, <2>1 DEF QuoteInv, CacheSound
  <2>2. ASSUME NEW h \in Hashes, quoteCache'[h].quote # NoCall PROVE Kept(fetches', getQuotes', quoteCache'[h].quote)
    <3>1. CASE quoteCache'[h] = quoteCache[h] BY <1>9, <2>2, <3>1 DEF QuoteInv, CacheSound
    <3>2. CASE quoteCache'[h].quote = f /\ fetches'[f].pull = FALSE
      <4>1. getQuotes[f].st # "none" BY DEF QuoteInv, FetchesSound
      <4>2. getQuotes'[f].st # "none" BY <1>3, <4>1
      <4> QED BY <3>2, <4>2 DEF Kept
    <3> QED BY <3>1, <3>2
  <2> QED BY <1>1, <2>1, <2>2 DEF CacheSound
<1> QED BY <1>5, <1>6, <1>7, <1>8, <1>10 DEF QuoteInv

\* A step that ends no fetch and may drop what is cached.
LEMMA DropStep ==
  ASSUME QuoteInv, UNCHANGED <<begun, getQuotes, pendingQuotes>>, quoteClock' \in Int,
         fetches' \in [QuoteCalls -> Fetched],
         \A f \in QuoteCalls : fetches'[f].open = fetches[f].open /\ fetches'[f].pull = fetches[f].pull,
         quoteCache' \in [Hashes -> CachedQuotes], \A h \in Hashes : quoteCache'[h] \in {quoteCache[h], NoCached}
  PROVE  QuoteInv'
<1>1. Hashes' = Hashes /\ NoCached.quote = NoCall /\ pendingQuotes \in [Hashes -> QuoteCalls \cup {NoCall}]
  BY DEF Hashes, hashQuoteRequest, NoCached, QuoteInv, QuoteShape
<1>2. QuoteShape' BY <1>1 DEF QuoteInv, QuoteShape
<1>3. PendingSound' BY <1>1 DEF QuoteInv, PendingSound, hashQuoteRequest
<1>4. FetchesSound' BY DEF QuoteInv, FetchesSound, hashQuoteRequest
<1>5. WaitersSound' BY DEF QuoteInv, WaitersSound
<1>6. \A f : Kept(fetches, getQuotes, f) => Kept(fetches', getQuotes', f) BY DEF Kept
<1>7. CacheSound' BY <1>1, <1>6 DEF QuoteInv, CacheSound
<1> QED BY <1>2, <1>3, <1>4, <1>5, <1>7 DEF QuoteInv

\* Every step keeps it.
LEMMA QuoteSteps == QuoteInv /\ [QuoteNext]_quoteVars => QuoteInv'
<1> SUFFICES ASSUME QuoteInv, [QuoteNext]_quoteVars PROVE QuoteInv'
  OBVIOUS
<1>1. /\ fetches \in [QuoteCalls -> Fetched] /\ quoteCache \in [Hashes -> CachedQuotes] /\ quoteClock \in Int
      /\ NoCached \in CachedQuotes
  BY DEF QuoteInv, QuoteShape, NoCached, CachedQuotes
<1>2. ASSUME NEW c \in QuoteCalls, GetQuote(c) PROVE QuoteInv' BY <1>2, GetQuoteStep
<1>3. ASSUME NEW f \in QuoteCalls, QuoteAnswered(f) PROVE QuoteInv'
  <2>1. PICK answer \in {"quote", "pull", "declined"} :
          /\ fetches[f].open
          /\ fetches' = [fetches EXCEPT ![f].open = FALSE, ![f].pull = (answer = "pull")]
          /\ quoteCache' = IF keeps(answer)
                           THEN [quoteCache EXCEPT ![hashQuoteRequest(f)] = [quote |-> f, timestamp |-> quoteClock]]
                           ELSE quoteCache
          /\ pendingQuotes' = unpended(f, hashQuoteRequest(f)) /\ settle(f, "served")
          /\ UNCHANGED <<quoteClock, begun>>
    BY <1>3 DEF QuoteAnswered
  <2>2. fetches[f].open = TRUE BY <1>1, <2>1 DEF Fetched
  <2>3. /\ fetches' \in [QuoteCalls -> Fetched] /\ fetches'[f].open = FALSE
        /\ fetches'[f].pull = (answer = "pull")
        /\ \A g \in QuoteCalls \ {f} : fetches'[g] = fetches[g]
    BY <1>1, <2>1 DEF Fetched
  <2>4. /\ quoteCache' \in [Hashes -> CachedQuotes]
        /\ \A h \in Hashes : quoteCache'[h] = quoteCache[h] \/ (quoteCache'[h].quote = f /\ fetches'[f].pull = FALSE)
    <3>1. CASE answer = "quote"
      <4>1. [quote |-> f, timestamp |-> quoteClock] \in CachedQuotes BY <1>1 DEF CachedQuotes
      <4>2. quoteCache' = [quoteCache EXCEPT ![hashQuoteRequest(f)] = [quote |-> f, timestamp |-> quoteClock]]
        BY <2>1, <3>1 DEF keeps
      <4>3. fetches'[f].pull = FALSE BY <2>3, <3>1
      <4> QED BY <1>1, <4>1, <4>2, <4>3, HashKnown
    <3>2. CASE answer # "quote" BY <1>1, <2>1, <3>2 DEF keeps
    <3> QED BY <3>1, <3>2
  <2> QED BY <2>1, <2>2, <2>3, <2>4, SettleFetchStep
<1>4. ASSUME NEW f \in QuoteCalls, QuoteRetried(f) PROVE QuoteInv'
  <2>1. /\ fetches' = [fetches EXCEPT ![f].attempt = @ + 1]
        /\ UNCHANGED <<quoteClock, quoteCache, pendingQuotes, getQuotes, begun>>
    BY <1>4 DEF QuoteRetried
  <2>2. /\ fetches' \in [QuoteCalls -> Fetched]
        /\ \A g \in QuoteCalls : fetches'[g].open = fetches[g].open /\ fetches'[g].pull = fetches[g].pull
    BY <1>1, <2>1 DEF Fetched
  <2> QED BY <1>1, <2>1, <2>2, DropStep
<1>5. ASSUME NEW f \in QuoteCalls, QuoteFailed(f) PROVE QuoteInv'
  <2>1. /\ fetches[f].open /\ fetches' = [fetches EXCEPT ![f].open = FALSE]
        /\ pendingQuotes' = unpended(f, hashQuoteRequest(f)) /\ settle(f, "failed")
        /\ UNCHANGED <<quoteClock, quoteCache, begun>>
    BY <1>5 DEF QuoteFailed
  <2>2. /\ fetches[f].open = TRUE /\ fetches' \in [QuoteCalls -> Fetched] /\ fetches'[f].open = FALSE
        /\ \A g \in QuoteCalls \ {f} : fetches'[g] = fetches[g]
    BY <1>1, <2>1 DEF Fetched
  <2> QED BY <1>1, <2>1, <2>2, SettleFetchStep
<1>6. CASE (\E k \in Hashes : InvalidateQuote(k)) \/ ClearQuoteCache
  <2>1. /\ quoteCache' \in [Hashes -> CachedQuotes] /\ \A h \in Hashes : quoteCache'[h] \in {quoteCache[h], NoCached}
        /\ UNCHANGED <<quoteClock, pendingQuotes, fetches, getQuotes, begun>>
    BY <1>1, <1>6 DEF InvalidateQuote, ClearQuoteCache
  <2> QED BY <1>1, <2>1, DropStep
<1>7. CASE QuoteTick
  <2>1. quoteClock' \in Int /\ UNCHANGED <<quoteCache, pendingQuotes, fetches, getQuotes, begun>>
    BY <1>1, <1>7 DEF QuoteTick
  <2> QED BY <1>1, <2>1, DropStep
<1>8. CASE UNCHANGED quoteVars
  <2>1. UNCHANGED <<quoteClock, quoteCache, pendingQuotes, fetches, getQuotes, begun>> BY <1>8 DEF quoteVars
  <2> QED BY <1>1, <2>1, DropStep
<1> QED BY <1>2, <1>3, <1>4, <1>5, <1>6, <1>7, <1>8 DEF QuoteNext

\* However calls for one request overlap, retry, expire and are forced: no caller waits for a
\* fetch that a refresh forced before it asked has overtaken, and no quote that carries a pull is
\* served from the cache.
\* Code: ApiClient.getQuote, its pendingQuotes and quoteCache.
THEOREM QuotesTheorem == QuoteInit /\ [][QuoteNext]_quoteVars => []QuotesSound
BY QuoteStarts, QuoteSteps, QuoteIsSound, PTL

\* The two sides of the client together, which share no state.  Code: ApiClient.
THEOREM TransportTheorem ==
  (QuoteInit /\ [][QuoteNext]_quoteVars) /\ (CallsInit /\ [][CallsNext]_callVars) => []TransportSound
<1>1. QuotesSound /\ AnswersSound => TransportSound BY DEF TransportSound
<1> QED BY <1>1, QuotesTheorem, CallsTheorem, PTL

-----------------------------------------------------------------------------
(* The bidding solver: its float. *)

\* What the float, the holds, the auctions and the bids may be.
AuctionTypes ==
  /\ now \in Nat /\ inventory \in Int /\ settled \in Int
  /\ tracked \in [Intents -> Nat] /\ owing \in [Intents -> Int]
  /\ DOMAIN book = Intents /\ auction \in [Intents -> {"new", "open", "closed"}]
  /\ client.at = "submit" => client.intent \in Intents
\* A bid of our own is at our price, on a size we fill.
OwnBids ==
  \A i \in Intents : \A b \in book[i] : b.mine => filter(Terms[i]) /\ b.output = ourOutput(Terms[i])
\* A closed auction has no bids, and only a closed one owes an award.
ClosedIsOver ==
  \A i \in Intents :
    /\ auction[i] = "closed" => book[i] = {} /\ now >= Terms[i].closesAt
    /\ owing[i] > 0 => auction[i] = "closed"
\* A bid is submitted under its hold.
SubmitsHeld ==
  client.at = "submit" =>
    LET i == client.intent
    IN filter(Terms[i]) /\ client.output = ourOutput(Terms[i]) /\ tracked[i] = client.output
\* An award is an amount, of a closed auction.
AwardsFit ==
  /\ feed \in Seq([type : {"announcement", "award"}, intent : Intents, output : Int])
  /\ \A n \in 1..Len(feed) : feed[n].type = "award" => auction[feed[n].intent] = "closed"
AuctionInv ==
  /\ AuctionTypes /\ OwnBids /\ ClosedIsOver /\ SubmitsHeld /\ AwardsFit
  /\ FloatConserved /\ StandingBidHeld

\* What is held is a sum of the holds.
LEMMA HeldIs == \A S : held(S) = Sum(tracked, S)
BY DEF held, Sum

\* After a step too.
LEMMA HeldNext == held(Intents)' = Sum(tracked', Intents)
BY DEF held, Sum, MapThenSumSet, MapThenFoldSet

\* It is an amount.
LEMMA HeldInt == ASSUME AuctionTypes, NEW S \in SUBSET Intents PROVE held(S) \in Int
<1>1. IsFiniteSet(S) BY FS_Subset, AuctionAssumption
<1>2. \A x \in S : tracked[x] \in Int BY DEF AuctionTypes
<1> QED BY <1>1, <1>2, SumInt, HeldIs

\* Nothing is held or bid at the start.
LEMMA AuctionStarts == ASSUME AuctionInit PROVE AuctionInv
<1> USE DEF AuctionInit
<1>1. AuctionTypes BY AuctionAssumption DEF AuctionTypes, idle
<1>2. OwnBids /\ ClosedIsOver /\ SubmitsHeld /\ StandingBidHeld
  BY DEF OwnBids, ClosedIsOver, SubmitsHeld, StandingBidHeld, idle
<1>3. AwardsFit
  <2>1. \A S : <<>> \in Seq(S) OBVIOUS
  <2>2. feed = <<>> /\ Len(feed) = 0 OBVIOUS
  <2> QED BY <2>1, <2>2 DEF AwardsFit
<1>4. FloatConserved
  <2>1. Sum(tracked, Intents) = 0 BY SumZero, AuctionAssumption
  <2> QED BY <2>1, HeldIs, AuctionAssumption DEF FloatConserved
<1> QED BY <1>1, <1>2, <1>3, <1>4 DEF AuctionInv

\* The float is whole where no hold changes.
LEMMA FloatStays ==
  ASSUME FloatConserved, UNCHANGED <<inventory, settled, tracked>>
  PROVE  FloatConserved'
<1>1. held(Intents)' = held(Intents) BY HeldIs, HeldNext
<1> QED BY <1>1 DEF FloatConserved

\* The head is taken off the feed.
LEMMA FeedRest ==
  ASSUME AwardsFit, feed # <<>>, feed' = Tail(feed), UNCHANGED auction
  PROVE  AwardsFit'
<1>1. /\ Tail(feed) \in Seq([type : {"announcement", "award"}, intent : Intents, output : Int])
      /\ Len(Tail(feed)) = Len(feed) - 1 /\ Len(feed) \in Nat
      /\ \A k \in 1..(Len(feed) - 1) : Tail(feed)[k] = feed[k + 1]
  BY DEF AwardsFit
<1>2. \A k \in 1..(Len(feed) - 1) : k + 1 \in 1..Len(feed) BY <1>1
<1> QED BY <1>1, <1>2 DEF AwardsFit

\* An entry is added to it.
LEMMA FeedMore ==
  ASSUME AwardsFit, NEW e \in [type : {"announcement", "award"}, intent : Intents, output : Int],
         feed' = Append(feed, e), \A i \in Intents : auction[i] = "closed" => auction'[i] = "closed",
         e.type = "award" => auction'[e.intent] = "closed"
  PROVE  AwardsFit'
<1> DEFINE E == [type : {"announcement", "award"}, intent : Intents, output : Int]
<1>1. feed \in Seq(E) /\ e \in E BY DEF AwardsFit
<1>2. /\ Append(feed, e) \in Seq(E) /\ Len(Append(feed, e)) = Len(feed) + 1 /\ Len(feed) \in Nat
      /\ \A k \in 1..Len(feed) : Append(feed, e)[k] = feed[k] /\ feed[k] \in E
      /\ Append(feed, e)[Len(feed) + 1] = e
  <2> HIDE DEF E
  <2> QED BY <1>1
<1>3. ASSUME NEW k \in 1..(Len(feed) + 1), feed'[k].type = "award" PROVE auction'[feed'[k].intent] = "closed"
  <2>1. CASE k = Len(feed) + 1 BY <1>2, <1>3, <2>1
  <2>2. CASE k # Len(feed) + 1
    <3>1. k \in 1..Len(feed) BY <1>2, <2>2
    <3>2. feed'[k] = feed[k] /\ feed[k].intent \in Intents BY <1>2, <3>1
    <3> QED BY <1>3, <3>1, <3>2 DEF AwardsFit
  <2> QED BY <2>1, <2>2
<1> QED BY <1>2, <1>3 DEF AwardsFit

\* What covers a bid or an award before a step covers it after, where its hold has not shrunk or was given
\* up on purpose, or its fill deadline has passed.
LEMMA StaysHeld ==
  ASSUME AuctionInv, now' \in Nat, now' >= now, released \subseteq released',
         UNCHANGED <<book, owing>>, NEW i \in Intents, i \notin released',
         \/ tracked'[i] = tracked[i]
         \/ now > fillDeadline(i)
         \/ owing[i] <= 0 /\ filter(Terms[i]) /\ tracked'[i] = ourOutput(Terms[i])
  PROVE  /\ \A b \in book'[i] : b.mine /\ now' <= fillDeadline(i) => tracked'[i] >= b.output
         /\ owing'[i] > 0 /\ now' < fillDeadline(i) => tracked'[i] >= owing'[i]
<1>1. fillDeadline(i) \in Int /\ now \in Nat BY AuctionAssumption DEF fillDeadline, AuctionInv, AuctionTypes
<1>2. CASE tracked'[i] = tracked[i]
  <2>1. \A b \in book[i] : b.mine /\ now <= fillDeadline(i) => tracked[i] >= b.output BY DEF AuctionInv, StandingBidHeld
  <2>2. owing[i] > 0 /\ now < fillDeadline(i) => tracked[i] >= owing[i] BY DEF AuctionInv, StandingBidHeld
  <2>3. now' <= fillDeadline(i) => now <= fillDeadline(i) BY <1>1
  <2>4. now' < fillDeadline(i) => now < fillDeadline(i) BY <1>1
  <2> QED BY <1>2, <2>1, <2>2, <2>3, <2>4
<1>3. CASE now > fillDeadline(i)
  <2>1. ~(now' <= fillDeadline(i)) /\ ~(now' < fillDeadline(i)) BY <1>1, <1>3
  <2> QED BY <2>1
<1>4. CASE owing[i] <= 0 /\ filter(Terms[i]) /\ tracked'[i] = ourOutput(Terms[i])
  <2>1. \A b \in book[i] : b.mine => b.output = ourOutput(Terms[i]) BY DEF AuctionInv, OwnBids
  <2>2. ourOutput(Terms[i]) \in Nat BY <1>4, AuctionAssumption
  <2>3. owing[i] \in Int BY DEF AuctionInv, AuctionTypes
  <2> QED BY <1>4, <2>1, <2>2, <2>3
<1> QED BY <1>2, <1>3, <1>4

\* What quote leaves behind is the float, shared otherwise.
LEMMA QuoteConserves ==
  ASSUME AuctionInv, NEW i \in Intents, NEW E \in evictions
  PROVE  LET q == quote(i, E)
         IN /\ q.tracked \in [Intents -> Nat] /\ q.inventory \in Int /\ q.draft \in Nat
            /\ q.inventory + Sum(q.tracked, Intents) = inventory + Sum(tracked, Intents)
            /\ \A j \in Intents : j # i => q.tracked[j] = tracked[j] \/ j \in E \/ now > fillDeadline(j)
            /\ \/ q.tracked[i] = tracked[i] \/ q.tracked[i] = 0
               \/ filter(Terms[i]) /\ q.tracked[i] = ourOutput(Terms[i])
            /\ q.draft > 0 => filter(Terms[i]) /\ q.draft = ourOutput(Terms[i]) /\ q.tracked[i] = q.draft
<1> DEFINE q == quote(i, E)
           gone == elapsed \cup E
           output == ourOutput(Terms[i])
           without(S) == [j \in Intents |-> IF j \in S THEN 0 ELSE tracked[j]]
<1>1. gone \in SUBSET Intents /\ IsFiniteSet(Intents) /\ gone \cup {i} \in SUBSET Intents
  BY AuctionAssumption DEF evictions, elapsed, holding
<1>2. tracked \in [Intents -> Nat] /\ inventory \in Int BY DEF AuctionInv, AuctionTypes
<1>3. \A S : without(S) \in [Intents -> Nat] BY <1>2
<1>4. \A S \in SUBSET Intents : Sum(without(S), Intents) = Sum(tracked, Intents) - Sum(tracked, S)
  BY <1>1, <1>2, SumDrop
<1>5. \A S \in SUBSET Intents : Sum(tracked, S) \in Int BY HeldInt, HeldIs DEF AuctionInv
<1>6. freed(i, gone) = Sum(tracked, gone \cup {i})
  <2>1. freed(i, gone) = Sum(tracked, gone \cup ({i} \cap holding)) BY HeldIs DEF freed
  <2>2. CASE i \in holding \/ i \in gone
    <3>1. gone \cup ({i} \cap holding) = gone \cup {i} BY <2>2
    <3> QED BY <2>1, <3>1
  <2>3. CASE i \notin holding /\ i \notin gone
    <3>1. tracked[i] = 0 BY <1>2, <2>3 DEF holding
    <3>2. gone \cup ({i} \cap holding) = gone /\ (gone \cup {i}) \ {i} = gone BY <2>3
    <3>3. IsFiniteSet(gone \cup {i}) /\ \A x \in gone \cup {i} : tracked[x] \in Int BY <1>1, <1>2, FS_Subset
    <3>4. Sum(tracked, gone \cup {i}) = tracked[i] + Sum(tracked, (gone \cup {i}) \ {i}) BY <3>3, SumPick
    <3>5. Sum(tracked, gone \cup ({i} \cap holding)) = Sum(tracked, gone) BY <3>2
    <3>6. Sum(tracked, gone \cup {i}) = tracked[i] + Sum(tracked, gone) BY <3>2, <3>4
    <3>7. Sum(tracked, gone) \in Int BY <1>1, <1>5
    <3> HIDE DEF gone
    <3> QED BY <2>1, <3>1, <3>5, <3>6, <3>7
  <2> QED BY <2>2, <2>3
<1>7. \A j \in Intents : j # i => without(gone)[j] = tracked[j] \/ j \in E \/ now > fillDeadline(j)
  BY DEF elapsed
<1>8. CASE ~worthPricing(i) \/ ~isAdmissible(output, Terms[i].minOutput)
  <2>1. q.tracked = without(gone) /\ q.inventory = inventory + Sum(tracked, gone) /\ q.draft = 0
    BY <1>8, HeldIs DEF quote
  <2>2. Sum(q.tracked, Intents) = Sum(tracked, Intents) - Sum(tracked, gone) BY <1>1, <1>4, <2>1
  <2>3. q.inventory \in Int /\ q.inventory + Sum(q.tracked, Intents) = inventory + Sum(tracked, Intents)
    BY <1>1, <1>2, <1>5, <2>1, <2>2
  <2>4. q.tracked[i] = tracked[i] \/ q.tracked[i] = 0 BY <2>1
  <2> HIDE DEF q, without, gone
  <2> QED BY <1>3, <1>7, <2>1, <2>3, <2>4 DEF q
<1>9. CASE ~(~worthPricing(i) \/ ~isAdmissible(output, Terms[i].minOutput)) /\ inventory + freed(i, gone) < output
  <2>1. q.tracked = without(gone \cup {i}) /\ q.inventory = inventory + Sum(tracked, gone \cup {i}) /\ q.draft = 0
    BY <1>6, <1>9 DEF quote
  <2>2. Sum(q.tracked, Intents) = Sum(tracked, Intents) - Sum(tracked, gone \cup {i}) BY <1>1, <1>4, <2>1
  <2>3. q.inventory \in Int /\ q.inventory + Sum(q.tracked, Intents) = inventory + Sum(tracked, Intents)
    BY <1>1, <1>2, <1>5, <2>1, <2>2
  <2>4. q.tracked[i] = 0 BY <2>1
  <2>5. \A j \in Intents : j # i => q.tracked[j] = tracked[j] \/ j \in E \/ now > fillDeadline(j) BY <1>7, <2>1
  <2> HIDE DEF q, without, gone
  <2> QED BY <1>3, <2>1, <2>3, <2>4, <2>5 DEF q
<1>10. CASE ~(~worthPricing(i) \/ ~isAdmissible(output, Terms[i].minOutput)) /\ ~(inventory + freed(i, gone) < output)
  <2> DEFINE w == without(gone \cup {i})
             v == q.tracked
  <2>0. filter(Terms[i]) /\ output \in Nat BY <1>10, AuctionAssumption DEF worthPricing
  <2>1. v = [without(gone) EXCEPT ![i] = output] BY <1>10 DEF quote
  <2>2. v \in [Intents -> Nat] /\ v[i] = output /\ w[i] = 0 /\ \A x \in Intents \ {i} : v[x] = w[x]
    BY <1>3, <2>0, <2>1
  <2>3. q.inventory = inventory + Sum(tracked, gone \cup {i}) - output /\ q.draft = output
    <3>0. freed(i, gone) \in Int
      <4> HIDE DEF gone
      <4> QED BY <1>1, <1>5, <1>6
    <3>1. q.draft = output BY <1>10 DEF quote
    <3>2. q.inventory = inventory + freed(i, gone) - output BY <1>2, <1>10, <2>0, <3>0 DEF quote
    <3> HIDE DEF q, gone, output
    <3> QED BY <1>6, <3>1, <3>2
  <2>4. w \in [Intents -> Nat] /\ Sum(w, Intents) = Sum(tracked, Intents) - Sum(tracked, gone \cup {i})
    BY <1>1, <1>3, <1>4
  <2>5. Sum(v, Intents) = Sum(w, Intents) - w[i] + v[i]
    <3> HIDE DEF v, w
    <3>1. \A x \in Intents : w[x] \in Int /\ v[x] \in Int BY <2>2, <2>4
    <3> QED BY <1>1, <2>2, <3>1, SumPut
  <2>6. \A j \in Intents : j # i => v[j] = tracked[j] \/ j \in E \/ now > fillDeadline(j)
    <3>1. \A j \in Intents : j # i => v[j] = without(gone)[j] BY <2>2
    <3> HIDE DEF v, without, gone
    <3> QED BY <1>7, <3>1
  <2>7. Sum(tracked, Intents) \in Int /\ Sum(tracked, gone \cup {i}) \in Int BY <1>1, <1>5
  <2> HIDE DEF q, w, without, gone, output
  <2>8. q.inventory \in Int /\ q.inventory + Sum(q.tracked, Intents) = inventory + Sum(tracked, Intents)
    BY <1>2, <2>0, <2>2, <2>3, <2>4, <2>5, <2>7
  <2> QED BY <2>0, <2>2, <2>3, <2>6, <2>8 DEF q, output
<1> QED BY <1>8, <1>9, <1>10

\* One hold changed changes the sum by as much.
LEMMA HeldPut ==
  ASSUME NEW i \in Intents, \A j \in Intents : tracked[j] \in Int /\ tracked'[j] \in Int,
         \A j \in Intents \ {i} : tracked'[j] = tracked[j]
  PROVE  Sum(tracked', Intents) = Sum(tracked, Intents) - tracked[i] + tracked'[i]
<1>1. IsFiniteSet(Intents) BY AuctionAssumption
<1> QED BY <1>1, SumPut

\* A hold given back, or spent, leaves the float whole.
LEMMA ReleaseConserves ==
  ASSUME AuctionTypes, NEW i \in Intents, tracked' = [tracked EXCEPT ![i] = 0]
  PROVE  /\ tracked' \in [Intents -> Nat] /\ tracked'[i] = 0
         /\ \A j \in Intents \ {i} : tracked'[j] = tracked[j]
         /\ held(Intents)' = held(Intents) - tracked[i] /\ held(Intents) \in Int
<1>1. /\ tracked' \in [Intents -> Nat] /\ tracked'[i] = 0 /\ tracked[i] \in Nat
      /\ \A j \in Intents \ {i} : tracked'[j] = tracked[j]
  BY DEF AuctionTypes
<1>2. \A j \in Intents : tracked[j] \in Int /\ tracked'[j] \in Int BY <1>1 DEF AuctionTypes
<1>3. Sum(tracked', Intents) = Sum(tracked, Intents) - tracked[i] + tracked'[i] BY <1>1, <1>2, HeldPut
<1>4. held(Intents)' = Sum(tracked', Intents) BY HeldNext
<1>5. held(Intents) \in Int BY HeldInt
<1> QED BY <1>1, <1>3, <1>4, <1>5, HeldIs

\* An announcement is skipped, passed on, or bid on under a hold of its own.
LEMMA HandleStep ==
  ASSUME AuctionInv, NEW i \in Intents, HandleAnnouncement(i)
  PROVE  AuctionInv'
<1>0. AuctionTypes /\ client.at = "next" BY DEF AuctionInv, HandleAnnouncement
<1>1. UNCHANGED <<settled, book, auction, owing>> /\ feed # <<>> /\ feed' = Tail(feed) BY DEF HandleAnnouncement
<1>2. AwardsFit' BY <1>1, FeedRest DEF AuctionInv
<1>3. OwnBids' BY <1>1 DEF AuctionInv, OwnBids
<1>4. CASE UNCHANGED <<now, inventory, tracked, client, released>>
  <2>1. AuctionTypes' /\ ClosedIsOver' /\ SubmitsHeld' BY <1>0, <1>1, <1>4 DEF AuctionInv, AuctionTypes, ClosedIsOver, SubmitsHeld
  <2>2. FloatConserved' BY <1>1, <1>4, FloatStays DEF AuctionInv
  <2>3. StandingBidHeld' BY <1>1, <1>4 DEF AuctionInv, StandingBidHeld, fillDeadline
  <2> QED BY <1>2, <1>3, <2>1, <2>2, <2>3 DEF AuctionInv
<1>5. CASE ~UNCHANGED <<now, inventory, tracked, client, released>>
  <2>1. PICK E \in evictions :
          /\ tracked' = quote(i, E).tracked /\ inventory' = quote(i, E).inventory
          /\ released' = released \cup E \cup (IF tracked[i] > 0 /\ quote(i, E).tracked[i] = 0 THEN {i} ELSE {})
          /\ client' = IF quote(i, E).draft > 0 THEN [at |-> "submit", intent |-> i, output |-> quote(i, E).draft] ELSE idle
    BY <1>5 DEF HandleAnnouncement
  <2>2. now < Terms[i].closesAt /\ now' \in Nat /\ now' >= now
    BY <1>0, <1>5, AuctionAssumption DEF HandleAnnouncement, AuctionTypes
  <2> DEFINE q == quote(i, E)
  <2>3. /\ q.tracked \in [Intents -> Nat] /\ q.inventory \in Int /\ q.draft \in Nat
        /\ q.inventory + Sum(q.tracked, Intents) = inventory + Sum(tracked, Intents)
        /\ \A j \in Intents : j # i => q.tracked[j] = tracked[j] \/ j \in E \/ now > fillDeadline(j)
        /\ \/ q.tracked[i] = tracked[i] \/ q.tracked[i] = 0
           \/ filter(Terms[i]) /\ q.tracked[i] = ourOutput(Terms[i])
        /\ q.draft > 0 => filter(Terms[i]) /\ q.draft = ourOutput(Terms[i]) /\ q.tracked[i] = q.draft
    BY QuoteConserves
  <2>4. tracked' = q.tracked /\ inventory' = q.inventory /\ E \subseteq released' /\ released \subseteq released'
        /\ (tracked[i] > 0 /\ q.tracked[i] = 0 => i \in released')
        /\ client' = IF q.draft > 0 THEN [at |-> "submit", intent |-> i, output |-> q.draft] ELSE idle
    BY <2>1
  <2> HIDE DEF q
  <2>5. client'.at = "submit" => client'.intent = i /\ client'.output = q.draft /\ q.draft > 0
    BY <2>4 DEF idle
  <2>6. AuctionTypes' BY <1>0, <1>1, <2>2, <2>3, <2>4, <2>5 DEF AuctionTypes
  <2>7. SubmitsHeld' BY <2>3, <2>4, <2>5 DEF SubmitsHeld
  <2>8. ClosedIsOver'
    <3>1. \A j \in Intents : Terms[j].closesAt \in Nat BY AuctionAssumption
    <3>2. \A j \in Intents : now >= Terms[j].closesAt => now' >= Terms[j].closesAt BY <1>0, <2>2, <3>1 DEF AuctionTypes
    <3> QED BY <1>1, <3>2 DEF AuctionInv, ClosedIsOver
  <2>9. FloatConserved'
    <3>1. held(Intents)' = Sum(q.tracked, Intents) BY <2>4, HeldNext
    <3>2. held(Intents) = Sum(tracked, Intents) /\ held(Intents) \in Int BY <1>0, HeldIs, HeldInt
    <3>3. Sum(q.tracked, Intents) \in Int
      <4>1. \A j \in Intents : q.tracked[j] \in Int BY <2>3
      <4> QED BY <4>1, SumInt, AuctionAssumption
    <3>4. inventory + held(Intents) + settled = Float BY DEF AuctionInv, FloatConserved
    <3>5. inventory' + held(Intents)' + settled' = Float
      BY <1>0, <1>1, <2>3, <2>4, <3>1, <3>2, <3>3, <3>4 DEF AuctionTypes
    <3> QED BY <3>5 DEF FloatConserved
  <2>10. StandingBidHeld'
    <3>1. ASSUME NEW j \in Intents \ released'
          PROVE  /\ \A b \in book'[j] : b.mine /\ now' <= fillDeadline(j) => tracked'[j] >= b.output
                 /\ owing'[j] > 0 /\ now' < fillDeadline(j) => tracked'[j] >= owing'[j]
      <4>1. j \in Intents /\ j \notin released' BY <3>1
      <4>2. CASE j # i
        <5>1. tracked'[j] = tracked[j] \/ now > fillDeadline(j) BY <2>3, <2>4, <4>1, <4>2
        <5> QED BY <1>1, <2>2, <2>4, <4>1, <5>1, StaysHeld
      <4>3. CASE j = i
        <5>1. tracked'[i] = tracked[i] \/ (filter(Terms[i]) /\ tracked'[i] = ourOutput(Terms[i]))
          BY <1>0, <2>3, <2>4, <4>1, <4>3 DEF AuctionTypes
        <5>2. owing[i] <= 0
          <6>1. auction[i] # "closed" BY <1>0, <2>2, AuctionAssumption DEF AuctionInv, ClosedIsOver, AuctionTypes
          <6> QED BY <1>0, <6>1 DEF AuctionInv, ClosedIsOver, AuctionTypes
        <5> QED BY <1>1, <2>2, <2>4, <4>1, <4>3, <5>1, <5>2, StaysHeld
      <4> QED BY <4>2, <4>3
    <3> QED BY <3>1 DEF StandingBidHeld, fillDeadline
  <2> QED BY <1>2, <1>3, <2>6, <2>7, <2>8, <2>9, <2>10 DEF AuctionInv
<1> QED BY <1>4, <1>5

\* A hold given back with its bid.
LEMMA GivenBack ==
  ASSUME AuctionInv, NEW i \in Intents, releaseBid(i), now' \in Nat, now' >= now, UNCHANGED <<settled, owing>>,
         \A j \in Intents \ {i} : book'[j] = book[j]
  PROVE  /\ tracked' \in [Intents -> Nat] /\ inventory' \in Int
         /\ FloatConserved' /\ StandingBidHeld'
<1>0. AuctionTypes /\ FloatConserved BY DEF AuctionInv
<1>1. tracked' = [tracked EXCEPT ![i] = 0] /\ inventory' = inventory + tracked[i] /\ released' = released \cup {i}
  BY DEF releaseBid
<1>2. /\ tracked' \in [Intents -> Nat] /\ tracked'[i] = 0
      /\ \A j \in Intents \ {i} : tracked'[j] = tracked[j]
      /\ held(Intents)' = held(Intents) - tracked[i] /\ held(Intents) \in Int
  BY <1>0, <1>1, ReleaseConserves
<1>3. tracked[i] \in Nat /\ inventory \in Int /\ settled \in Int BY <1>0 DEF AuctionTypes
<1>4. FloatConserved'
  <2>1. inventory + held(Intents) + settled = Float BY <1>0 DEF FloatConserved
  <2>2. inventory' + held(Intents)' + settled' = Float BY <1>1, <1>2, <1>3, <2>1
  <2> QED BY <2>2 DEF FloatConserved
<1>5. StandingBidHeld'
  <2>1. ASSUME NEW j \in Intents \ released'
        PROVE  /\ \A b \in book'[j] : b.mine /\ now' <= fillDeadline(j) => tracked'[j] >= b.output
               /\ owing'[j] > 0 /\ now' < fillDeadline(j) => tracked'[j] >= owing'[j]
    <3>1. j \in Intents /\ j # i /\ j \notin released /\ tracked'[j] = tracked[j] /\ book'[j] = book[j]
      BY <1>1, <1>2, <2>1
    <3>2. fillDeadline(j) \in Int /\ now \in Nat BY <1>0, <3>1, AuctionAssumption DEF fillDeadline, AuctionTypes
    <3>3. (now' <= fillDeadline(j) => now <= fillDeadline(j)) /\ (now' < fillDeadline(j) => now < fillDeadline(j))
      BY <3>2
    <3>4. /\ \A b \in book[j] : b.mine /\ now <= fillDeadline(j) => tracked[j] >= b.output
          /\ owing[j] > 0 /\ now < fillDeadline(j) => tracked[j] >= owing[j]
      BY <3>1 DEF AuctionInv, StandingBidHeld
    <3> QED BY <3>1, <3>3, <3>4
  <2> QED BY <2>1 DEF StandingBidHeld, fillDeadline
<1> QED BY <1>1, <1>2, <1>3, <1>4, <1>5

\* Time moves on only.
LEMMA ClosedLater ==
  ASSUME AuctionInv, now' \in Nat, now' >= now, UNCHANGED <<auction, owing>>,
         \A j \in Intents : auction[j] = "closed" => book'[j] = {}
  PROVE  ClosedIsOver'
<1>1. \A j \in Intents : Terms[j].closesAt \in Nat BY AuctionAssumption
<1>2. \A j \in Intents : now >= Terms[j].closesAt => now' >= Terms[j].closesAt
  BY <1>1 DEF AuctionInv, AuctionTypes
<1> QED BY <1>2 DEF AuctionInv, ClosedIsOver

\* A bid is submitted under its hold, or refused and its hold given back.
LEMMA SubmitStep ==
  ASSUME AuctionInv, Submit
  PROVE  AuctionInv'
<1> DEFINE i == client.intent
<1>0. AuctionTypes BY DEF AuctionInv
<1>1. /\ client.at = "submit" /\ client' = idle /\ i \in Intents /\ now' = now + LatencyMs
      /\ UNCHANGED <<settled, auction, feed, owing>>
  BY <1>0 DEF Submit, AuctionTypes
<1>2. now' \in Nat /\ now' >= now BY <1>0, <1>1, AuctionAssumption DEF AuctionTypes
<1>3. filter(Terms[i]) /\ client.output = ourOutput(Terms[i]) /\ tracked[i] = client.output
  BY <1>1 DEF AuctionInv, SubmitsHeld
<1>4. AwardsFit' /\ SubmitsHeld' BY <1>1 DEF AuctionInv, AwardsFit, SubmitsHeld, idle
<1>5. \/ auction[i] = "open" /\ book' = replaced(i, bidOf(i, client.output))
      \/ book' = book
  BY DEF Submit, acceptable
<1>6. /\ DOMAIN book' = Intents
      /\ \A j \in Intents \ {i} : book'[j] = book[j]
      /\ \A b \in book'[i] : b \in book[i] \/ (book' # book /\ auction[i] = "open" /\ b = bidOf(i, client.output))
      /\ auction[i] # "open" => book'[i] = book[i]
  BY <1>0, <1>1, <1>5 DEF AuctionTypes, replaced
<1>7. OwnBids'
  <2>1. \A j \in Intents : \A b \in book'[j] : b.mine => filter(Terms[j]) /\ b.output = ourOutput(Terms[j])
    <3>1. bidOf(i, client.output).output = client.output BY DEF bidOf
    <3>2. \A b \in book'[i] : b.mine => filter(Terms[i]) /\ b.output = ourOutput(Terms[i])
      BY <1>1, <1>3, <1>6, <3>1 DEF AuctionInv, OwnBids
    <3>3. \A j \in Intents \ {i} : \A b \in book'[j] : b.mine => filter(Terms[j]) /\ b.output = ourOutput(Terms[j])
      BY <1>6 DEF AuctionInv, OwnBids
    <3> HIDE DEF i
    <3> QED BY <3>2, <3>3
  <2> QED BY <2>1 DEF OwnBids, filter, ourOutput
<1>8. ClosedIsOver'
  <2>1. \A j \in Intents : auction[j] = "closed" => book'[j] = {}
    BY <1>6 DEF AuctionInv, ClosedIsOver
  <2> QED BY <1>1, <1>2, <2>1, ClosedLater
<1>9. CASE releaseBid(i)
  <2>1. tracked' \in [Intents -> Nat] /\ inventory' \in Int /\ FloatConserved' /\ StandingBidHeld'
    BY <1>1, <1>2, <1>6, <1>9, GivenBack
  <2>2. AuctionTypes' BY <1>0, <1>1, <1>2, <1>6, <2>1 DEF AuctionTypes, idle
  <2> QED BY <1>4, <1>7, <1>8, <2>1, <2>2 DEF AuctionInv
<1>10. CASE UNCHANGED <<tracked, inventory, released>>
  <2>1. AuctionTypes' BY <1>0, <1>1, <1>2, <1>6, <1>10 DEF AuctionTypes, idle
  <2>2. FloatConserved' BY <1>1, <1>10, FloatStays DEF AuctionInv
  <2>3. StandingBidHeld'
    <3>1. ASSUME NEW j \in Intents \ released'
          PROVE  /\ \A b \in book'[j] : b.mine /\ now' <= fillDeadline(j) => tracked'[j] >= b.output
                 /\ owing'[j] > 0 /\ now' < fillDeadline(j) => tracked'[j] >= owing'[j]
      <4>1. j \in Intents /\ j \notin released /\ tracked'[j] = tracked[j] BY <1>10, <3>1
      <4>2. fillDeadline(j) \in Int /\ now \in Nat /\ tracked[j] \in Nat
        BY <1>0, <4>1, AuctionAssumption DEF fillDeadline, AuctionTypes
      <4>3. (now' <= fillDeadline(j) => now <= fillDeadline(j)) /\ (now' < fillDeadline(j) => now < fillDeadline(j))
        BY <1>2, <4>2
      <4>4. /\ \A b \in book[j] : b.mine /\ now <= fillDeadline(j) => tracked[j] >= b.output
            /\ owing[j] > 0 /\ now < fillDeadline(j) => tracked[j] >= owing[j]
        BY <4>1 DEF AuctionInv, StandingBidHeld
      <4>5. \A b \in book'[j] : b \in book[j] \/ (j = i /\ b.output = client.output) BY <1>6, <4>1 DEF bidOf
      <4>6. j = i => tracked[j] >= client.output BY <1>3, <4>2
      <4> HIDE DEF i
      <4> QED BY <1>1, <4>1, <4>3, <4>4, <4>5, <4>6
    <3> QED BY <3>1 DEF StandingBidHeld, fillDeadline
  <2> QED BY <1>4, <1>7, <1>8, <2>1, <2>2, <2>3 DEF AuctionInv
<1> QED BY <1>9, <1>10 DEF Submit

\* A fill spends the hold of the award it is for.
LEMMA FillStep ==
  ASSUME AuctionInv, NEW i \in Intents, Fill(i)
  PROVE  AuctionInv'
<1> DEFINE awarded == Head(feed).output
<1>0. AuctionTypes /\ FloatConserved /\ AwardsFit BY DEF AuctionInv
<1>1. /\ feed # <<>> /\ Head(feed).type = "award" /\ Head(feed).intent = i /\ feed' = Tail(feed)
      /\ UNCHANGED <<now, book, auction, client, released>> /\ client.at = "next"
  BY DEF Fill
<1>2. AwardsFit' BY <1>0, <1>1, FeedRest
<1>3. OwnBids' /\ SubmitsHeld' BY <1>1 DEF AuctionInv, OwnBids, SubmitsHeld
<1>4. auction[i] = "closed" /\ awarded \in Int
  <2>1. 1 \in 1..Len(feed) /\ Head(feed) = feed[1]
        /\ feed[1] \in [type : {"announcement", "award"}, intent : Intents, output : Int]
    <3> DEFINE E == [type : {"announcement", "award"}, intent : Intents, output : Int]
    <3>1. feed \in Seq(E) /\ feed # <<>> BY <1>0, <1>1 DEF AwardsFit
    <3> HIDE DEF E
    <3>2. 1 \in 1..Len(feed) /\ Head(feed) = feed[1] /\ feed[1] \in E BY <3>1
    <3> QED BY <3>2 DEF E
  <2> QED BY <1>0, <1>1, <2>1 DEF AwardsFit
<1>5. CASE UNCHANGED <<tracked, settled, inventory, owing>>
  <2>1. AuctionTypes' /\ ClosedIsOver' BY <1>0, <1>1, <1>5 DEF AuctionInv, AuctionTypes, ClosedIsOver
  <2>2. FloatConserved' BY <1>0, <1>5, FloatStays
  <2>3. StandingBidHeld' BY <1>1, <1>5 DEF AuctionInv, StandingBidHeld, fillDeadline
  <2> QED BY <1>2, <1>3, <2>1, <2>2, <2>3 DEF AuctionInv
<1>6. CASE ~UNCHANGED <<tracked, settled, inventory, owing>>
  <2>1. /\ tracked' = [tracked EXCEPT ![i] = 0] /\ settled' = settled + awarded
        /\ inventory' = inventory + unspent(i, awarded) /\ owing' = [owing EXCEPT ![i] = 0]
    BY <1>6 DEF Fill
  <2>2. /\ tracked' \in [Intents -> Nat] /\ tracked'[i] = 0
        /\ \A j \in Intents \ {i} : tracked'[j] = tracked[j]
        /\ held(Intents)' = held(Intents) - tracked[i] /\ held(Intents) \in Int
    BY <1>0, <2>1, ReleaseConserves
  <2>3. tracked[i] \in Nat /\ inventory \in Int /\ settled \in Int /\ owing \in [Intents -> Int] BY <1>0 DEF AuctionTypes
  <2>4. inventory' = inventory + (tracked[i] - awarded) BY <2>1 DEF unspent
  <2>5. owing' \in [Intents -> Int] /\ owing'[i] = 0 /\ \A j \in Intents \ {i} : owing'[j] = owing[j] BY <2>1, <2>3
  <2> HIDE DEF awarded
  <2>6. inventory' \in Int /\ settled' \in Int BY <1>4, <2>1, <2>3, <2>4
  <2>7. AuctionTypes' BY <1>0, <1>1, <2>2, <2>5, <2>6 DEF AuctionTypes
  <2>8. ClosedIsOver' BY <1>1, <2>5 DEF AuctionInv, ClosedIsOver
  <2>9. FloatConserved'
    <3>1. inventory + held(Intents) + settled = Float BY <1>0 DEF FloatConserved
    <3>2. inventory' + held(Intents)' + settled' = Float BY <1>4, <2>1, <2>2, <2>3, <2>4, <3>1
    <3> QED BY <3>2 DEF FloatConserved
  <2>10. StandingBidHeld'
    <3>1. book[i] = {} BY <1>4 DEF AuctionInv, ClosedIsOver
    <3>2. ASSUME NEW j \in Intents \ released'
          PROVE  /\ \A b \in book'[j] : b.mine /\ now' <= fillDeadline(j) => tracked'[j] >= b.output
                 /\ owing'[j] > 0 /\ now' < fillDeadline(j) => tracked'[j] >= owing'[j]
      <4>1. CASE j = i BY <1>1, <2>5, <3>1, <4>1
      <4>2. CASE j # i
        <5>1. j \in Intents \ released /\ tracked'[j] = tracked[j] /\ owing'[j] = owing[j] BY <1>1, <2>2, <2>5, <3>2, <4>2
        <5>2. /\ \A b \in book[j] : b.mine /\ now <= fillDeadline(j) => tracked[j] >= b.output
              /\ owing[j] > 0 /\ now < fillDeadline(j) => tracked[j] >= owing[j]
          BY <5>1 DEF AuctionInv, StandingBidHeld
        <5> QED BY <1>1, <5>1, <5>2
      <4> QED BY <4>1, <4>2
    <3> QED BY <3>2 DEF StandingBidHeld, fillDeadline
  <2> QED BY <1>2, <1>3, <2>7, <2>8, <2>9, <2>10 DEF AuctionInv
<1> QED BY <1>5, <1>6

\* The bidding solver is not a party to what the venue does; its holds stand as they are.
LEMMA VenueHolds ==
  ASSUME AuctionInv, now' \in Nat, now' >= now, UNCHANGED <<inventory, settled, tracked, client, released>>,
         NEW i \in Intents, \A j \in Intents \ {i} : book'[j] = book[j] /\ owing'[j] = owing[j],
         \A b \in book'[i] : b.mine => b \in book[i],
         owing'[i] = owing[i] \/ (\E b \in book[i] : b.mine /\ owing'[i] <= b.output), owing'[i] \in Int
  PROVE  OwnBids' /\ SubmitsHeld' /\ FloatConserved' /\ StandingBidHeld'
<1>0. AuctionTypes BY DEF AuctionInv
<1>1. OwnBids' BY DEF AuctionInv, OwnBids
<1>2. SubmitsHeld' BY DEF AuctionInv, SubmitsHeld
<1>3. FloatConserved' BY FloatStays DEF AuctionInv
<1>4. ASSUME NEW j \in Intents \ released'
      PROVE  /\ \A b \in book'[j] : b.mine /\ now' <= fillDeadline(j) => tracked'[j] >= b.output
             /\ owing'[j] > 0 /\ now' < fillDeadline(j) => tracked'[j] >= owing'[j]
  <2>1. j \in Intents /\ j \notin released /\ tracked'[j] = tracked[j] BY <1>4
  <2>2. fillDeadline(j) \in Int /\ now \in Nat /\ tracked[j] \in Nat
    BY <1>0, <2>1, AuctionAssumption DEF fillDeadline, AuctionTypes
  <2>3. /\ now' <= fillDeadline(j) => now <= fillDeadline(j)
        /\ now' < fillDeadline(j) => now < fillDeadline(j) /\ now <= fillDeadline(j)
    BY <2>2
  <2>4. /\ \A b \in book[j] : b.mine /\ now <= fillDeadline(j) => tracked[j] >= b.output
        /\ owing[j] > 0 /\ now < fillDeadline(j) => tracked[j] >= owing[j]
    BY <2>1 DEF AuctionInv, StandingBidHeld
  <2>5. \A b \in book'[j] : b.mine => b \in book[j] BY <2>1
  <2>6. CASE owing'[j] = owing[j] BY <2>1, <2>3, <2>4, <2>5, <2>6
  <2>7. CASE owing'[j] # owing[j]
    <3>1. PICK b \in book[j] : b.mine /\ owing'[j] <= b.output BY <2>1, <2>7
    <3>2. b.output \in Int /\ owing'[j] \in Int
      <4>1. filter(Terms[j]) /\ b.output = ourOutput(Terms[j]) BY <2>1, <3>1 DEF AuctionInv, OwnBids
      <4> QED BY <2>1, <2>7, <4>1, AuctionAssumption
    <3>3. now' < fillDeadline(j) => tracked[j] >= owing'[j] BY <2>2, <2>3, <2>4, <3>1, <3>2
    <3> QED BY <2>1, <2>3, <2>4, <2>5, <3>3
  <2> QED BY <2>6, <2>7
<1>5. StandingBidHeld' BY <1>4 DEF StandingBidHeld, fillDeadline
<1> QED BY <1>1, <1>2, <1>3, <1>5

\* An auction opens with the bids of rivals only, or is announced again.
LEMMA AnnounceStep ==
  ASSUME AuctionInv, NEW i \in Intents, Announce(i)
  PROVE  AuctionInv'
<1>0. AuctionTypes BY DEF AuctionInv
<1>1. /\ auction[i] # "closed" /\ auction' = [auction EXCEPT ![i] = "open"]
      /\ book' = IF auction[i] = "new" THEN [book EXCEPT ![i] = rivalBids(i)] ELSE book
      /\ feed' = Append(feed, [type |-> "announcement", intent |-> i, output |-> 0])
      /\ UNCHANGED <<now, inventory, settled, tracked, client, owing, released>>
  BY DEF Announce
<1>2. /\ DOMAIN book' = Intents /\ auction' \in [Intents -> {"new", "open", "closed"}]
      /\ auction'[i] = "open" /\ \A j \in Intents \ {i} : auction'[j] = auction[j] /\ book'[j] = book[j]
      /\ book'[i] = book[i] \/ book'[i] = rivalBids(i)
  BY <1>0, <1>1 DEF AuctionTypes
<1>3. \A b \in rivalBids(i) : ~b.mine BY DEF rivalBids
<1>4. now' \in Nat /\ now' >= now /\ owing'[i] \in Int BY <1>0, <1>1 DEF AuctionTypes
<1>5. OwnBids' /\ SubmitsHeld' /\ FloatConserved' /\ StandingBidHeld'
  <2>1. \A b \in book'[i] : b.mine => b \in book[i] BY <1>2, <1>3
  <2> QED BY <1>1, <1>2, <1>4, <2>1, VenueHolds
<1>6. AwardsFit'
  <2> DEFINE e == [type |-> "announcement", intent |-> i, output |-> 0]
  <2>1. e \in [type : {"announcement", "award"}, intent : Intents, output : Int] /\ e.type # "award" OBVIOUS
  <2>2. \A j \in Intents : auction[j] = "closed" => auction'[j] = "closed" BY <1>1, <1>2
  <2>3. AwardsFit /\ feed' = Append(feed, e) BY <1>1 DEF AuctionInv
  <2> HIDE DEF e
  <2> QED BY <2>1, <2>2, <2>3, FeedMore
<1>7. AuctionTypes' BY <1>0, <1>1, <1>2 DEF AuctionTypes
<1>8. ClosedIsOver' BY <1>0, <1>1, <1>2 DEF AuctionInv, ClosedIsOver, AuctionTypes
<1> QED BY <1>5, <1>6, <1>7, <1>8 DEF AuctionInv

\* A closed auction has no bids left, and what it awards is at most the bid that stood.
LEMMA AuctionCloseStep ==
  ASSUME AuctionInv, NEW i \in Intents, CloseAuction(i)
  PROVE  AuctionInv'
<1>0. AuctionTypes BY DEF AuctionInv
<1>1. /\ auction[i] = "open" /\ now >= Terms[i].closesAt
      /\ auction' = [auction EXCEPT ![i] = "closed"] /\ book' = [book EXCEPT ![i] = {}]
      /\ UNCHANGED <<now, inventory, settled, tracked, client, released>>
  BY DEF CloseAuction
<1>2. /\ DOMAIN book' = Intents /\ auction' \in [Intents -> {"new", "open", "closed"}]
      /\ auction'[i] = "closed" /\ \A j \in Intents \ {i} : auction'[j] = auction[j] /\ book'[j] = book[j]
      /\ book'[i] = {}
  BY <1>0, <1>1 DEF AuctionTypes
<1>3. now' \in Nat /\ now' >= now /\ \A j \in Intents : auction[j] = "closed" => auction'[j] = "closed"
  BY <1>0, <1>1, <1>2 DEF AuctionTypes
<1>4. \/ UNCHANGED <<feed, owing>>
      \/ \E b \in book[i], d \in 0..Discount :
           /\ b.mine /\ feed' = Append(feed, [type |-> "award", intent |-> i, output |-> b.output - d])
           /\ owing' = [owing EXCEPT ![i] = b.output - d]
  BY DEF CloseAuction, best, eligible
<1>5. CASE UNCHANGED <<feed, owing>>
  <2>1. owing'[i] \in Int BY <1>0, <1>5 DEF AuctionTypes
  <2>2. OwnBids' /\ SubmitsHeld' /\ FloatConserved' /\ StandingBidHeld' BY <1>1, <1>2, <1>3, <1>5, <2>1, VenueHolds
  <2>3. AwardsFit'
    <3>1. \A n \in 1..Len(feed) : feed[n].intent \in Intents
      <4> DEFINE E == [type : {"announcement", "award"}, intent : Intents, output : Int]
      <4>1. feed \in Seq(E) BY DEF AuctionInv, AwardsFit
      <4> HIDE DEF E
      <4>2. \A n \in 1..Len(feed) : feed[n] \in E BY <4>1
      <4> QED BY <4>2 DEF E
    <3> QED BY <1>3, <1>5, <3>1 DEF AuctionInv, AwardsFit
  <2>4. AuctionTypes' BY <1>0, <1>1, <1>2, <1>5 DEF AuctionTypes
  <2>5. ClosedIsOver' BY <1>1, <1>2, <1>3, <1>5 DEF AuctionInv, ClosedIsOver
  <2> QED BY <2>2, <2>3, <2>4, <2>5 DEF AuctionInv
<1>6. CASE \E b \in book[i], d \in 0..Discount :
             /\ b.mine /\ feed' = Append(feed, [type |-> "award", intent |-> i, output |-> b.output - d])
             /\ owing' = [owing EXCEPT ![i] = b.output - d]
  <2>1. PICK b \in book[i] : b.mine /\ \E a \in Int :
          /\ a <= b.output /\ feed' = Append(feed, [type |-> "award", intent |-> i, output |-> a])
          /\ owing' = [owing EXCEPT ![i] = a]
    <3>1. PICK b \in book[i], d \in 0..Discount :
             /\ b.mine /\ feed' = Append(feed, [type |-> "award", intent |-> i, output |-> b.output - d])
             /\ owing' = [owing EXCEPT ![i] = b.output - d]
      BY <1>6
    <3>2. b.output \in Int
      <4>1. filter(Terms[i]) /\ b.output = ourOutput(Terms[i]) BY <3>1 DEF AuctionInv, OwnBids
      <4> QED BY <4>1, AuctionAssumption
    <3>3. b.output - d \in Int /\ b.output - d <= b.output BY <3>2, AuctionAssumption
    <3> QED BY <3>1, <3>3
  <2>2. PICK a \in Int :
          /\ a <= b.output /\ feed' = Append(feed, [type |-> "award", intent |-> i, output |-> a])
          /\ owing' = [owing EXCEPT ![i] = a]
    BY <2>1
  <2>3. owing' \in [Intents -> Int] /\ owing'[i] = a /\ \A j \in Intents \ {i} : owing'[j] = owing[j]
    BY <1>0, <2>2 DEF AuctionTypes
  <2>4. OwnBids' /\ SubmitsHeld' /\ FloatConserved' /\ StandingBidHeld'
    BY <1>1, <1>2, <1>3, <2>1, <2>2, <2>3, VenueHolds
  <2>5. AwardsFit'
    <3> DEFINE e == [type |-> "award", intent |-> i, output |-> a]
    <3>1. e \in [type : {"announcement", "award"}, intent : Intents, output : Int] /\ e.intent = i OBVIOUS
    <3>2. AwardsFit /\ feed' = Append(feed, e) BY <2>2 DEF AuctionInv
    <3> HIDE DEF e
    <3> QED BY <1>2, <1>3, <3>1, <3>2, FeedMore
  <2>6. AuctionTypes' BY <1>0, <1>1, <1>2, <2>3 DEF AuctionTypes
  <2>7. ClosedIsOver' BY <1>1, <1>2, <1>3, <2>3 DEF AuctionInv, ClosedIsOver
  <2> QED BY <2>4, <2>5, <2>6, <2>7 DEF AuctionInv
<1> QED BY <1>4, <1>5, <1>6

\* Every step keeps it.
LEMMA AuctionSteps ==
  ASSUME AuctionInv, AuctionNext
  PROVE  AuctionInv'
<1>1. ASSUME NEW i \in Intents, HandleAnnouncement(i) \/ Fill(i) \/ Announce(i) \/ CloseAuction(i)
      PROVE  AuctionInv'
  BY <1>1, HandleStep, FillStep, AnnounceStep, AuctionCloseStep
<1>2. CASE AuctionClock
  <2>0. AuctionTypes /\ AwardsFit BY DEF AuctionInv
  <2>1. now' = now + 1 /\ UNCHANGED <<inventory, settled, tracked, book, auction, feed, client, owing, released>>
    BY <1>2 DEF AuctionClock
  <2>2. now' \in Nat /\ now' >= now BY <2>0, <2>1 DEF AuctionTypes
  <2>3. OwnBids' /\ SubmitsHeld' /\ AwardsFit' BY <2>1 DEF AuctionInv, OwnBids, SubmitsHeld, AwardsFit
  <2>4. FloatConserved' BY <2>1, FloatStays DEF AuctionInv
  <2>5. AuctionTypes' BY <2>0, <2>1, <2>2 DEF AuctionTypes
  <2>6. ClosedIsOver'
    <3>1. \A j \in Intents : auction[j] = "closed" => book'[j] = {} BY <2>1 DEF AuctionInv, ClosedIsOver
    <3> QED BY <2>1, <2>2, <3>1, ClosedLater
  <2>7. StandingBidHeld'
    <3>1. ASSUME NEW j \in Intents \ released'
          PROVE  /\ \A b \in book'[j] : b.mine /\ now' <= fillDeadline(j) => tracked'[j] >= b.output
                 /\ owing'[j] > 0 /\ now' < fillDeadline(j) => tracked'[j] >= owing'[j]
      BY <2>1, <2>2, <3>1, StaysHeld
    <3> QED BY <3>1 DEF StandingBidHeld, fillDeadline
  <2> QED BY <2>3, <2>4, <2>5, <2>6, <2>7 DEF AuctionInv
<1> QED BY <1>1, <1>2, SubmitStep DEF AuctionNext

\* However auctions are announced, bid on, closed, awarded and filled, in whatever order events and answers
\* come: the float is what is free, held and owed together, and a bid that may still have to be filled is held.
\* Code: examples/offline-solver.ts, quote, track, release, prune and fill.
THEOREM AuctionTheorem == AuctionInit /\ [][AuctionNext]_auctionVars => []InventorySound
<1>1. ASSUME AuctionInv, UNCHANGED auctionVars PROVE AuctionInv'
  <2>1. UNCHANGED <<now, inventory, settled, tracked, book, auction, feed, client, owing, released>>
    BY <1>1 DEF auctionVars
  <2>2. AuctionTypes' /\ OwnBids' /\ ClosedIsOver' /\ SubmitsHeld' /\ AwardsFit'
    BY <1>1, <2>1 DEF AuctionInv, AuctionTypes, OwnBids, ClosedIsOver, SubmitsHeld, AwardsFit
  <2>3. FloatConserved' BY <1>1, <2>1, FloatStays DEF AuctionInv
  <2>4. StandingBidHeld' BY <1>1, <2>1 DEF AuctionInv, StandingBidHeld, fillDeadline
  <2> QED BY <2>2, <2>3, <2>4 DEF AuctionInv
<1>2. AuctionInv /\ [AuctionNext]_auctionVars => AuctionInv' BY <1>1, AuctionSteps
<1>3. AuctionInv => InventorySound BY DEF AuctionInv, InventorySound
<1> QED BY <1>2, <1>3, AuctionStarts, PTL

-----------------------------------------------------------------------------
(* Its feed. *)

\* An entry of a batch: its place in the log of its boot, and its kind.
Entries == [at : Int, kind : {"announcement", "own", "other", "unknown", "malformed"}]
\* What the log, the cursor and the batch may be.
FeedTypes ==
  /\ boot.number \in Nat \ {0} /\ cursor.boot \in Nat /\ cursor.at \in Nat /\ ring \in Nat
  /\ feedLog \in Seq({"announcement", "own", "other", "unknown", "malformed"})
  /\ ring <= Len(feedLog)
  /\ cursor.boot <= boot.number /\ batch.boot \in Nat /\ batch.boot <= boot.number
  /\ (cursor.boot = boot.number => cursor.at <= Len(feedLog))
  /\ batch.left \in Seq(Entries) /\ batch.at \in Nat
  /\ (batch.boot = boot.number => batch.at <= Len(feedLog))
  /\ recheck \in BOOLEAN /\ observed \in BOOLEAN /\ goal \in {"poll", "act"}
\* What lies behind the batch's cursor is accounted for or still to come.
BatchCovers ==
  \A p \in 1..batch.at :
    \/ entry(batch.boot, p) \in accounted
    \/ \E n \in 1..Len(batch.left) : batch.left[n].at = p
\* The entry acted on is the next of the batch.
ActsOnNext == loop = "act" \/ (loop = "gate" /\ goal = "act") => batch.left # <<>>
\* Past the gate, a sign of a changed venue is answered before anything is acted on.
Answered ==
  /\ loop \in {"poll", "batch"} /\ observed => recheck
  /\ loop = "act" => ~observed
\* The types, what the batch covers, and the properties.
FeedInv == FeedTypes /\ NoSilentGap /\ BatchCovers /\ ActsOnNext /\ Answered /\ SignedUnderGate

\* Nothing is logged or read at the start.
LEMMA FeedStarts == ASSUME FeedInit PROVE FeedInv
<1>1. FeedTypes
  <2>1. batch.boot = 0 /\ batch.left = <<>> /\ batch.at = 0 BY DEF FeedInit, noBatch
  <2>2. boot.number = 1 /\ cursor.boot = 0 /\ cursor.at = 0 /\ Len(feedLog) = 0 BY DEF FeedInit
  <2>3. \A S : <<>> \in Seq(S) OBVIOUS
  <2>4. feedLog = <<>> /\ ring = 0 /\ recheck = FALSE /\ observed = FALSE /\ goal = "poll" BY DEF FeedInit
  <2>5. batch.left \in Seq(Entries) BY <2>1, <2>3
  <2>6. feedLog \in Seq({"announcement", "own", "other", "unknown", "malformed"}) BY <2>4, <2>3
  <2>7. boot.number \in Nat \ {0} /\ cursor.boot \in Nat /\ cursor.at \in Nat /\ ring \in Nat /\ ring <= Len(feedLog)
    BY <2>2, <2>4
  <2>8. /\ cursor.boot <= boot.number /\ batch.boot \in Nat /\ batch.boot <= boot.number /\ batch.at \in Nat
        /\ cursor.at <= Len(feedLog) /\ batch.at <= Len(feedLog)
    BY <2>1, <2>2
  <2>9. recheck \in BOOLEAN /\ observed \in BOOLEAN /\ goal \in {"poll", "act"} BY <2>4
  <2> QED BY <2>5, <2>6, <2>7, <2>8, <2>9 DEF FeedTypes
<1>2. NoSilentGap /\ BatchCovers BY DEF FeedInit, NoSilentGap, BatchCovers, noBatch
<1>3. ActsOnNext /\ Answered /\ SignedUnderGate BY DEF FeedInit, ActsOnNext, Answered, SignedUnderGate
<1> QED BY <1>1, <1>2, <1>3 DEF FeedInv

\* The venue's log and boot are its own.
LEMMA VenueSteps ==
  ASSUME FeedInv, Publish \/ FallOff \/ Redeploy
  PROVE  FeedInv'
<1>1. UNCHANGED <<loop, goal, cursor, batch, recheck, accounted, observed, signings>>
  BY DEF Publish, FallOff, Redeploy
<1>2. FeedTypes'
  <2>1. CASE Publish
    <3>1. feedLog' \in Seq({"announcement", "own", "other", "unknown", "malformed"}) /\ Len(feedLog') = Len(feedLog) + 1
      BY <2>1 DEF Publish, FeedInv, FeedTypes
    <3>2. UNCHANGED <<boot, ring>> /\ Len(feedLog) \in Nat BY <2>1 DEF Publish, FeedInv, FeedTypes
    <3> QED BY <1>1, <3>1, <3>2 DEF FeedInv, FeedTypes
  <2>2. CASE FallOff
    <3>1. UNCHANGED <<boot, feedLog>> /\ ring < Len(feedLog) /\ ring' = ring + 1 /\ Len(feedLog) \in Nat
      BY <2>2 DEF FallOff, FeedInv, FeedTypes
    <3> QED BY <1>1, <3>1 DEF FeedInv, FeedTypes
  <2>3. CASE Redeploy
    <3>1. boot'.number = boot.number + 1 /\ feedLog' = <<>> /\ ring' = 0 BY <2>3 DEF Redeploy
    <3>2. cursor.boot # boot.number + 1 /\ batch.boot # boot.number + 1 BY DEF FeedInv, FeedTypes
    <3> QED BY <1>1, <3>1, <3>2 DEF FeedInv, FeedTypes
  <2> QED BY <2>1, <2>2, <2>3
<1>3. NoSilentGap' /\ BatchCovers' BY <1>1 DEF FeedInv, NoSilentGap, BatchCovers, entry
<1>4. ActsOnNext' /\ Answered' /\ SignedUnderGate' BY <1>1 DEF FeedInv, ActsOnNext, Answered, SignedUnderGate
<1> QED BY <1>2, <1>3, <1>4 DEF FeedInv

\* What a step of the loop owes when it leaves the venue and the cursor alone.
LEMMA LoopKeeps ==
  ASSUME FeedInv, UNCHANGED <<boot, feedLog, ring, cursor>>,
         accounted \subseteq accounted', batch' = batch \/ batch' = noBatch,
         recheck' \in BOOLEAN, observed' \in BOOLEAN, goal' \in {"poll", "act"}
  PROVE  FeedTypes' /\ NoSilentGap' /\ BatchCovers'
<1>1. FeedTypes'
  <2>1. CASE batch' = batch BY <2>1 DEF FeedInv, FeedTypes
  <2>2. CASE batch' = noBatch
    <3>1. batch'.left \in Seq(Entries) /\ batch'.at = 0 /\ batch'.boot = 0 BY <2>2 DEF noBatch
    <3>2. Len(feedLog) \in Nat BY DEF FeedInv, FeedTypes
    <3> QED BY <3>1, <3>2 DEF FeedInv, FeedTypes
  <2> QED BY <2>1, <2>2
<1>2. NoSilentGap' BY DEF FeedInv, NoSilentGap, entry
<1>3. BatchCovers'
  <2>1. CASE batch' = batch BY <2>1 DEF FeedInv, BatchCovers, entry
  <2>2. CASE batch' = noBatch BY <2>2 DEF BatchCovers, noBatch
  <2> QED BY <2>1, <2>2
<1> QED BY <1>1, <1>2, <1>3

\* A run begins, passes its gate or ends; what was accounted for stands.
LEMMA GateSteps ==
  ASSUME FeedInv, Run \/ AssertVenueRfcVersion \/ Abort
  PROVE  FeedInv'
<1>0. FeedTypes BY DEF FeedInv
<1>1. UNCHANGED <<boot, feedLog, ring, cursor, accounted, signings>>
  BY DEF Run, AssertVenueRfcVersion, Abort
<1>2. batch' = batch \/ batch' = noBatch BY DEF Run, AssertVenueRfcVersion, Abort, ends
<1>3. recheck' \in BOOLEAN /\ observed' \in BOOLEAN /\ goal' \in {"poll", "act"}
  BY <1>0 DEF Run, AssertVenueRfcVersion, Abort, FeedTypes
<1>4. FeedTypes' /\ NoSilentGap' /\ BatchCovers' BY <1>1, <1>2, <1>3, LoopKeeps
<1>5. ActsOnNext' BY <1>0 DEF Run, AssertVenueRfcVersion, Abort, ends, FeedInv, ActsOnNext, FeedTypes
<1>6. Answered' BY <1>0 DEF Run, AssertVenueRfcVersion, Abort, ends, FeedInv, Answered, FeedTypes
<1>7. SignedUnderGate' BY <1>1 DEF FeedInv, SignedUnderGate
<1> QED BY <1>4, <1>5, <1>6, <1>7 DEF FeedInv

\* A batch holds what the log has past the gap, and the gap is reported.
LEMMA PollStep ==
  ASSUME FeedInv, Poll
  PROVE  FeedInv'
<1>0. FeedTypes BY DEF FeedInv
<1>1. UNCHANGED <<boot, feedLog, ring, goal, signings>> /\ loop = "poll" BY DEF Poll
<1>2. SignedUnderGate' BY <1>1 DEF FeedInv, SignedUnderGate
<1>3. CASE ends
  <2>1. UNCHANGED <<cursor, recheck, observed, accounted>> BY <1>3 DEF Poll, ends
  <2>2. batch' = noBatch /\ loop' = "off" BY <1>3 DEF ends
  <2>3. FeedTypes' /\ NoSilentGap' /\ BatchCovers' BY <1>0, <1>1, <2>1, <2>2, LoopKeeps DEF FeedTypes
  <2>4. ActsOnNext' /\ Answered' BY <2>2 DEF ActsOnNext, Answered
  <2> QED BY <1>2, <2>3, <2>4 DEF FeedInv
<1>4. CASE ~ends
  <2> DEFINE n == Len(feedLog)
             rest == [p \in 1..(n - start) |-> [at |-> start + p, kind |-> feedLog[start + p]]]
  <2>1. /\ loop' = "batch" /\ cursor' = cursor
        /\ batch' = [boot |-> boot.number, at |-> n, left |-> rest]
        /\ recheck' = (recheck \/ isReset) /\ observed' = (observed \/ isReset)
        /\ accounted' = accounted \cup {entry(boot.number, p) : p \in (from + 1)..start}
    BY <1>4 DEF Poll, cursorAtPoll
  <2>2. n \in Nat /\ start \in Nat /\ from \in Nat /\ start <= n /\ from <= start
    BY <1>0 DEF FeedTypes, start, from
  <2>3. rest \in Seq(Entries) /\ Len(rest) = n - start
    <3>1. \A p \in 1..(n - start) : start + p \in 1..n BY <2>2
    <3>2. \A k \in 1..n : feedLog[k] \in {"announcement", "own", "other", "unknown", "malformed"} BY <1>0 DEF FeedTypes
    <3>3. \A p \in 1..(n - start) : rest[p] \in Entries BY <2>2, <3>1, <3>2 DEF Entries
    <3>4. n - start \in Nat BY <2>2
    <3>5. rest = [p \in 1..(n - start) |-> rest[p]] OBVIOUS
    <3> HIDE DEF rest, n
    <3> QED BY <3>3, <3>4, <3>5
  <2>4. \A p \in (start + 1)..n : p - start \in 1..(n - start) /\ rest[p - start].at = p BY <2>2
  <2> HIDE DEF rest
  <2>5. FeedTypes' BY <1>0, <1>1, <2>1, <2>2, <2>3 DEF FeedTypes
  <2>6. NoSilentGap' BY <2>1 DEF FeedInv, NoSilentGap, entry
  <2>7. BatchCovers'
    <3> SUFFICES ASSUME NEW p \in 1..n
                 PROVE  entry(boot.number, p) \in accounted' \/ \E k \in 1..Len(rest) : rest[k].at = p
      BY <2>1 DEF BatchCovers, entry
    <3>1. CASE p > start BY <2>2, <2>3, <2>4, <3>1
    <3>2. CASE p > from /\ p <= start BY <2>1, <2>2, <3>2
    <3>3. CASE p <= from
      <4>1. from = cursor.at /\ cursor.boot = boot.number BY <2>2, <3>3 DEF from
      <4> QED BY <2>1, <2>2, <3>3, <4>1 DEF FeedInv, NoSilentGap
    <3> QED BY <2>2, <3>1, <3>2, <3>3
  <2>8. ActsOnNext' /\ Answered' BY <1>0, <1>1, <2>1 DEF ActsOnNext, Answered, FeedInv, FeedTypes
  <2> QED BY <1>2, <2>5, <2>6, <2>7, <2>8 DEF FeedInv
<1> QED BY <1>3, <1>4

\* The next entry is accounted for and taken off.
LEMMA EntryDone ==
  ASSUME FeedInv, batch.left # <<>>, UNCHANGED <<boot, feedLog, ring, cursor>>,
         batch' = [batch EXCEPT !.left = Tail(@)], accounted' = accounted \cup {here},
         recheck' \in BOOLEAN, observed' \in BOOLEAN, goal' \in {"poll", "act"}
  PROVE  FeedTypes' /\ NoSilentGap' /\ BatchCovers'
<1>0. FeedTypes BY DEF FeedInv
<1> DEFINE todo == batch.left
<1>1. todo \in Seq(Entries) /\ todo # <<>> BY <1>0 DEF FeedTypes
<1>2. Tail(todo) \in Seq(Entries) /\ Len(Tail(todo)) = Len(todo) - 1 /\ Len(todo) \in Nat \ {0}
      /\ \A k \in 1..(Len(todo) - 1) : Tail(todo)[k] = todo[k + 1]
  BY <1>1
<1>3. batch'.boot = batch.boot /\ batch'.at = batch.at /\ batch'.left = Tail(todo)
  <2>1. PICK b, a : b = batch.boot /\ a = batch.at OBVIOUS
  <2> QED OBVIOUS
<1>4. FeedTypes' BY <1>0, <1>2, <1>3 DEF FeedTypes
<1>5. NoSilentGap' BY DEF FeedInv, NoSilentGap, entry
<1>6. BatchCovers'
  <2> SUFFICES ASSUME NEW p \in 1..batch.at
               PROVE  entry(batch.boot, p) \in accounted' \/ \E k \in 1..Len(Tail(todo)) : Tail(todo)[k].at = p
    BY <1>3 DEF BatchCovers, entry
  <2>1. CASE entry(batch.boot, p) \in accounted BY <2>1
  <2>2. CASE \E k \in 1..Len(todo) : todo[k].at = p
    <3>1. PICK k \in 1..Len(todo) : todo[k].at = p BY <2>2
    <3>2. CASE k = 1
      <4>1. here = entry(batch.boot, p) BY <1>1, <3>1, <3>2 DEF here
      <4> QED BY <4>1
    <3>3. CASE k # 1
      <4>1. k - 1 \in 1..Len(Tail(todo)) /\ k - 1 \in 1..(Len(todo) - 1) /\ (k - 1) + 1 = k BY <1>2, <3>1, <3>3
      <4>2. Tail(todo)[k - 1].at = p BY <1>2, <3>1, <4>1
      <4> QED BY <4>1, <4>2
    <3> QED BY <3>2, <3>3
  <2> QED BY <2>1, <2>2 DEF FeedInv, BatchCovers
<1> QED BY <1>4, <1>5, <1>6

\* The feed takes the next event of its batch: accounted for, acted on, or first through the gate.
LEMMA YieldStep ==
  ASSUME FeedInv, Yield
  PROVE  FeedInv'
<1>0. FeedTypes /\ Answered BY DEF FeedInv
<1>1. UNCHANGED <<boot, feedLog, ring, cursor, signings>> /\ loop = "batch" /\ batch.left # <<>> BY DEF Yield
<1>2. SignedUnderGate' BY <1>1 DEF FeedInv, SignedUnderGate
<1>3. CASE batch' = [batch EXCEPT !.left = Tail(@)] /\ accounted' = accounted \cup {here}
          /\ recheck' = (recheck \/ rearms(kindHere)) /\ observed' = (observed \/ kindHere = "unknown")
          /\ UNCHANGED <<loop, goal>>
  <2>1. FeedTypes' /\ NoSilentGap' /\ BatchCovers' BY <1>0, <1>1, <1>3, EntryDone DEF FeedTypes, rearms
  <2>2. ActsOnNext' /\ Answered' BY <1>0, <1>1, <1>3 DEF ActsOnNext, Answered, rearms, FeedTypes
  <2> QED BY <1>2, <2>1, <2>2 DEF FeedInv
<1>4. CASE ends /\ UNCHANGED <<goal, accounted, recheck, observed>>
  <2>1. FeedTypes' /\ NoSilentGap' /\ BatchCovers' BY <1>0, <1>1, <1>4, LoopKeeps DEF FeedTypes, ends
  <2>2. ActsOnNext' /\ Answered' BY <1>4 DEF ActsOnNext, Answered, ends
  <2> QED BY <1>2, <2>1, <2>2 DEF FeedInv
<1>5. CASE /\ observed' = (observed \/ kindHere = "own")
           /\ IF recheck \/ kindHere = "own" THEN loop' = "gate" /\ goal' = "act"
                                             ELSE loop' = "act" /\ UNCHANGED goal
           /\ UNCHANGED <<batch, accounted, recheck>>
  <2>1. FeedTypes' /\ NoSilentGap' /\ BatchCovers' BY <1>0, <1>1, <1>5, LoopKeeps DEF FeedTypes
  <2>2. ActsOnNext' /\ Answered' BY <1>0, <1>1, <1>5 DEF ActsOnNext, Answered, FeedTypes
  <2> QED BY <1>2, <2>1, <2>2 DEF FeedInv
<1> QED BY <1>3, <1>4, <1>5 DEF Yield

\* The batch is done, and its cursor is taken.
LEMMA CursorStep ==
  ASSUME FeedInv, TakeCursor
  PROVE  FeedInv'
<1>0. FeedTypes BY DEF FeedInv
<1>1. /\ loop = "batch" /\ loop' = "poll" /\ batch.left = <<>> /\ batch' = noBatch
      /\ cursor' = [boot |-> batch.boot, at |-> batch.at]
      /\ UNCHANGED <<boot, feedLog, ring, goal, recheck, accounted, observed, signings>>
  BY DEF TakeCursor
<1>2. FeedTypes'
  <2>1. batch'.left \in Seq(Entries) /\ batch'.at = 0 /\ batch'.boot = 0 BY <1>1 DEF noBatch
  <2>2. cursor'.boot = batch.boot /\ cursor'.at = batch.at BY <1>1
  <2> QED BY <1>0, <1>1, <2>1, <2>2 DEF FeedTypes
<1>3. NoSilentGap'
  <2>1. Len(batch.left) = 0 BY <1>1
  <2>2. \A p \in 1..batch.at : entry(batch.boot, p) \in accounted BY <2>1 DEF FeedInv, BatchCovers
  <2> QED BY <1>1, <2>2 DEF NoSilentGap, entry
<1>4. BatchCovers' BY <1>1 DEF BatchCovers, noBatch
<1>5. ActsOnNext' /\ Answered' /\ SignedUnderGate'
  BY <1>0, <1>1 DEF FeedInv, ActsOnNext, Answered, SignedUnderGate, FeedTypes
<1> QED BY <1>2, <1>3, <1>4, <1>5 DEF FeedInv

\* The solver bids or fills, and the event is accounted for.
LEMMA ActStep ==
  ASSUME FeedInv, Act
  PROVE  FeedInv'
<1>0. FeedTypes /\ Answered BY DEF FeedInv
<1>1. UNCHANGED <<boot, feedLog, ring, cursor, recheck, observed>> /\ loop = "act" /\ goal' = "poll" BY DEF Act
<1>2. batch.left # <<>> /\ observed = FALSE BY <1>0, <1>1 DEF FeedInv, ActsOnNext, Answered, FeedTypes
<1>3. SignedUnderGate'
  <2>1. signings' \subseteq signings \cup {[kind |-> kindHere, unanswered |-> FALSE]} BY <1>2 DEF Act
  <2> QED BY <2>1 DEF FeedInv, SignedUnderGate
<1>4. CASE loop' = "batch" /\ batch' = [batch EXCEPT !.left = Tail(@)] /\ accounted' = accounted \cup {here}
  <2>1. FeedTypes' /\ NoSilentGap' /\ BatchCovers' BY <1>0, <1>1, <1>2, <1>4, EntryDone DEF FeedTypes
  <2>2. ActsOnNext' /\ Answered' BY <1>1, <1>2, <1>4 DEF ActsOnNext, Answered
  <2> QED BY <1>3, <2>1, <2>2 DEF FeedInv
<1>5. CASE ends /\ UNCHANGED accounted
  <2>1. FeedTypes' /\ NoSilentGap' /\ BatchCovers' BY <1>0, <1>1, <1>5, LoopKeeps DEF FeedTypes, ends
  <2>2. ActsOnNext' /\ Answered' BY <1>5 DEF ActsOnNext, Answered, ends
  <2> QED BY <1>3, <2>1, <2>2 DEF FeedInv
<1> QED BY <1>4, <1>5 DEF Act

\* Every step keeps it.
LEMMA FeedSteps == ASSUME FeedInv, FeedNext PROVE FeedInv'
BY VenueSteps, GateSteps, PollStep, YieldStep, CursorStep, ActStep DEF FeedNext

\* However the venue restarts and drops entries while the loop polls, handlers fail and requirements change: no
\* entry is passed over in silence, and nothing is signed while a changed venue was not asked again.
\* Code: SolverClient.run, HttpSolverTransport.events.
THEOREM FeedTheorem == FeedInit /\ [][FeedNext]_feedVars => []FeedSound
<1>1. ASSUME FeedInv, UNCHANGED feedVars PROVE FeedInv'
  BY <1>1 DEF feedVars, FeedInv, FeedTypes, NoSilentGap, BatchCovers, ActsOnNext, Answered, SignedUnderGate, entry
<1>2. FeedInv /\ [FeedNext]_feedVars => FeedInv' BY <1>1, FeedSteps
<1>3. FeedInv => FeedSound BY DEF FeedInv, FeedSound
<1> QED BY <1>2, <1>3, FeedStarts, PTL

-----------------------------------------------------------------------------
(* Its session. *)

\* What a token the venue honours may be.
SessionTypes ==
  /\ hour \in Nat /\ minted \in Nat
  /\ venue \subseteq [token : Nat \ {0}, expires : Int]
\* The last token accepted is held until the venue no longer honours it.
HeldWhileHonoured == honoured(latest.token) => current = latest
\* The types, and both.
SessionInv == SessionTypes /\ HeldWhileHonoured /\ RegistersOnce

\* No token is minted at the start.
LEMMA SessionStarts == ASSUME SessionInit PROVE SessionInv
BY DEF SessionInit, SessionInv, SessionTypes, HeldWhileHonoured, RegistersOnce, honoured, noToken

\* What is honoured later was honoured before, unless it is new.
LEMMA HonouredBefore ==
  ASSUME SessionTypes, NEW t, hour' \in Nat, hour' >= hour, venue' \subseteq venue, honoured(t)'
  PROVE  honoured(t)
<1>1. PICK v \in venue' : v.token = t /\ hour' < v.expires BY DEF honoured
<1>2. v \in venue /\ v.expires \in Int /\ hour \in Nat BY <1>1 DEF SessionTypes
<1>3. hour < v.expires BY <1>1, <1>2
<1> QED BY <1>1, <1>2, <1>3 DEF honoured

\* A request begins a registration only where the last token is no longer honoured or is due.
LEMMA TokenStep ==
  ASSUME SessionInv, NEW r \in Requests, Token(r)
  PROVE  SessionInv'
<1>1. UNCHANGED <<hour, current, venue, minted, latest>> BY DEF Token
<1>2. SessionTypes' /\ HeldWhileHonoured' BY <1>1 DEF SessionInv, SessionTypes, HeldWhileHonoured, honoured
<1>3. RegistersOnce'
  <2>1. CASE current.token # 0 /\ ~due(current) BY <2>1 DEF Token, SessionInv, RegistersOnce
  <2>2. CASE ~(current.token # 0 /\ ~due(current))
    <3>1. needless' = (needless \/ (~joins /\ honoured(latest.token) /\ ~due(latest))) BY <2>2 DEF Token
    <3>2. ASSUME honoured(latest.token), ~due(latest) PROVE FALSE
      <4>1. current = latest BY <3>2 DEF SessionInv, HeldWhileHonoured
      <4>2. latest.token # 0 BY <3>2 DEF honoured, SessionInv, SessionTypes
      <4> QED BY <2>2, <3>2, <4>1, <4>2
    <3> QED BY <3>1, <3>2 DEF SessionInv, RegistersOnce
  <2> QED BY <2>1, <2>2
<1> QED BY <1>2, <1>3 DEF SessionInv

\* The token registered is the last, and the one held.
LEMMA RegisteredStep ==
  ASSUME SessionInv, Registered
  PROVE  SessionInv'
<1>1. hour' = hour /\ minted' \in Nat \ {0} /\ hour \in Nat BY DEF Registered, SessionInv, SessionTypes
<1>2. hour + Lifetime \in Int BY <1>1, SessionAssumption
<1>3. venue' \subseteq [token : Nat \ {0}, expires : Int]
  BY <1>1, <1>2 DEF Registered, SessionInv, SessionTypes
<1>4. SessionTypes' BY <1>1, <1>3 DEF SessionTypes
<1>5. HeldWhileHonoured' BY DEF Registered, HeldWhileHonoured
<1>6. RegistersOnce' BY DEF Registered, SessionInv, RegistersOnce
<1> QED BY <1>4, <1>5, <1>6 DEF SessionInv

\* A request that is refused forgets the token it was refused with, which is then not the last one.
LEMMA SendStep ==
  ASSUME SessionInv, NEW r \in Requests, Send(r)
  PROVE  SessionInv'
<1>1. UNCHANGED <<hour, venue, minted, latest, needless>> BY DEF Send
<1>2. SessionTypes' /\ RegistersOnce' BY <1>1 DEF SessionInv, SessionTypes, RegistersOnce
<1>3. HeldWhileHonoured'
  <2>1. CASE current' = current BY <1>1, <2>1 DEF SessionInv, HeldWhileHonoured, honoured
  <2>2. CASE current' # current
    <3>1. ~honoured(call[r].token) /\ current.token = call[r].token BY <2>2 DEF Send, invalidate
    <3>2. ~honoured(latest.token) BY <3>1 DEF SessionInv, HeldWhileHonoured
    <3> QED BY <1>1, <3>2 DEF HeldWhileHonoured, honoured
  <2> QED BY <2>1, <2>2
<1> QED BY <1>2, <1>3 DEF SessionInv

\* Every step keeps it.
LEMMA SessionSteps ==
  ASSUME SessionInv, SessionNext
  PROVE  SessionInv'
<1>1. ASSUME NEW r \in Requests, Token(r) \/ Send(r) PROVE SessionInv' BY <1>1, TokenStep, SendStep
<1>2. CASE Registered BY <1>2, RegisteredStep
<1>3. CASE Unavailable \/ Refused \/ AbortOwner \/ Rotate \/ Hour
  <2>1. UNCHANGED <<current, minted, latest, needless>> /\ hour' \in Nat /\ hour' >= hour /\ venue' \subseteq venue
    BY <1>3 DEF Unavailable, Refused, AbortOwner, Rotate, Hour, SessionInv, SessionTypes
  <2>2. SessionTypes' /\ RegistersOnce' BY <2>1 DEF SessionInv, SessionTypes, RegistersOnce
  <2>3. ASSUME honoured(latest.token)' PROVE current' = latest'
    <3>1. honoured(latest.token) BY <2>1, <2>3, HonouredBefore DEF SessionInv, honoured
    <3> QED BY <2>1, <3>1 DEF SessionInv, HeldWhileHonoured
  <2> QED BY <2>2, <2>3 DEF SessionInv, HeldWhileHonoured
<1> QED BY <1>1, <1>2, <1>3 DEF SessionNext

\* However many requests are refused at once and however late each hears of it: no token is registered while
\* the one before is honoured and unrefused.  Code: SolverSession.authenticate, request (session.ts).
THEOREM SessionTheorem == SessionInit /\ [][SessionNext]_sessionVars => []RegistersOnce
<1>1. ASSUME SessionInv, UNCHANGED sessionVars PROVE SessionInv'
  BY <1>1 DEF sessionVars, SessionInv, SessionTypes, HeldWhileHonoured, RegistersOnce, honoured
<1>2. SessionInv /\ [SessionNext]_sessionVars => SessionInv' BY <1>1, SessionSteps
<1>3. SessionInv => RegistersOnce BY DEF SessionInv
<1> QED BY <1>2, <1>3, SessionStarts, PTL

\* The three together, which share no state.  Code: examples/offline-solver.ts, SolverClient.run,
\* HttpSolverTransport.events, session.ts.
THEOREM BidderTheorem ==
  (AuctionInit /\ [][AuctionNext]_auctionVars) /\ (FeedInit /\ [][FeedNext]_feedVars)
  /\ (SessionInit /\ [][SessionNext]_sessionVars) => []BidderSound
<1>1. InventorySound /\ FeedSound /\ RegistersOnce => BidderSound BY DEF BidderSound
<1> QED BY <1>1, AuctionTheorem, FeedTheorem, SessionTheorem, PTL
=============================================================================
