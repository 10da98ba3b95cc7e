------------------------------ MODULE Auction ------------------------------
(***************************************************************************)
(* The sealed-bid auction of examples/offline-solver.ts: ReferenceSolver,  *)
(* which debits its float when it bids and gives it back when a bid is     *)
(* refused, elapses or is filled for less; StubAuctioneer, the venue; and  *)
(* SolverClient's loop between them, one event at a time.  External: the   *)
(* network, which may lose the answer to a bid the venue took, and a venue *)
(* that announces an intent again.                                         *)
(***************************************************************************)
EXTENDS Integers, Sequences, FiniteSets, FiniteSetsExt

CONSTANTS
    Intents,
    Terms,          \* [Intents -> terms]: serviced, size, decimals <<from, to>>, minOutput,
                    \* closesAt, exclusive, reserve, rivals (a set of [output, lifetime])
    CostBps, MinFill, MaxFill, Float,
    PricingMs, LatencyMs, BidLifetime, MaxAhead, MaxExclusive,
    MaxTracked,
    Discount,       \* what the settle rule may credit below the bid
    MaxNow, MaxAnnounced, MaxLost   \* bounds: the clock, announcements of an intent, lost answers

VARIABLES
    now,
    inventory, settled,
    tracked,    \* [Intents -> the output held for its bid, 0 for none]
    book,       \* [Intents -> bids of the open auction: [mine, output, until]]
    auction,    \* [Intents -> "new", "open", "closed"]
    feed,       \* events not yet read: [type, intent, output]
    client,     \* the loop: at "next" event, or submitting a bid
    announced,  \* [Intents -> how often]
    lostAnswers,
    owing,      \* ghost: [Intents -> output awarded to this solver and not yet filled]
    released    \* ghost: intents whose hold went back although its bid may stand

auctionVars == <<now, inventory, settled, tracked, book, auction, feed, client, announced,
                 lostAnswers, owing, released>>

idle == [at |-> "next", intent |-> "none", output |-> 0]

AuctionInit ==
    /\ now = 0 /\ inventory = Float /\ settled = 0
    /\ tracked = [i \in Intents |-> 0] /\ owing = [i \in Intents |-> 0]
    /\ book = [i \in Intents |-> {}] /\ auction = [i \in Intents |-> "new"]
    /\ feed = <<>> /\ client = idle
    /\ announced = [i \in Intents |-> 0] /\ lostAnswers = 0 /\ released = {}
-----------------------------------------------------------------------------
(* Pricing, in base units                                                  *)

bpsBelow(amount, bps) == amount - (amount * bps) \div 10000
rescale(amount, decimals) ==
    IF decimals[1] <= decimals[2] THEN amount * 10 ^ (decimals[2] - decimals[1])
                                  ELSE amount \div 10 ^ (decimals[1] - decimals[2])
isAdmissible(output, minOutput) == output >= minOutput
ourOutput(t) == bpsBelow(rescale(t.size, t.decimals), CostBps)

(* filter: the corridor and the origin size.                               *)
filter(t) == t.serviced /\ t.size \in MinFill..MaxFill
fillDeadline(i) == Terms[i].closesAt + Terms[i].exclusive

(* An exclusive window does not end before it begins, and what is bid on a *)
(* serviced size, less a cost of a few in ten thousand, is an amount.      *)
ASSUME AuctionAssumption ==
    /\ IsFiniteSet(Intents)
    /\ {Float, PricingMs, LatencyMs, Discount} \subseteq Nat
    /\ \A i \in Intents :
         /\ Terms[i].closesAt \in Nat /\ Terms[i].exclusive \in Nat
         /\ filter(Terms[i]) => ourOutput(Terms[i]) \in Nat

holding == {i \in Intents : tracked[i] > 0}
held(S) == MapThenSumSet(LAMBDA i : tracked[i], S)
-----------------------------------------------------------------------------
(* ReferenceSolver                                                         *)

(* Mutant: a hold elapses with its auction.                                *)
elapsed_AtClose == {i \in holding : now > Terms[i].closesAt}
elapsed == {i \in holding : now > fillDeadline(i)}

(* Beyond MAX_TRACKED the holds with the soonest fill deadlines go.        *)
evictions ==
    LET kept == holding \ elapsed
        over == IF Cardinality(kept) > MaxTracked THEN Cardinality(kept) - MaxTracked ELSE 0
    IN {E \in SUBSET kept : /\ Cardinality(E) = over
                            /\ \A i \in E, j \in kept \ E : fillDeadline(i) <= fillDeadline(j)}

remaining(i) == Terms[i].closesAt - now
worthPricing(i) ==
    /\ remaining(i) > PricingMs /\ remaining(i) <= MaxAhead
    /\ Terms[i].exclusive <= MaxExclusive /\ filter(Terms[i])

freed(i, gone) == held(gone \cup ({i} \cap holding))

(* What quote leaves behind: prune, then a pass or a hold for the bid.  An *)
(* inadmissible price keeps the earlier hold; a short float has dropped it.*)
quote(i, E) ==
    LET gone == elapsed \cup E
        output == ourOutput(Terms[i])
        available == inventory + freed(i, gone)
        without(S) == [j \in Intents |-> IF j \in S THEN 0 ELSE tracked[j]]
    IN IF ~worthPricing(i) \/ ~isAdmissible(output, Terms[i].minOutput)
       THEN [tracked |-> without(gone), inventory |-> inventory + held(gone), draft |-> 0]
       ELSE IF available < output
       THEN [tracked |-> without(gone \cup {i}), inventory |-> available, draft |-> 0]
       ELSE [tracked |-> [without(gone) EXCEPT ![i] = output],
             inventory |-> available - output, draft |-> output]

(* handleAnnouncement: a closed window is skipped before quote is asked.   *)
HandleAnnouncement(i) ==
    /\ client.at = "next" /\ feed # <<>> /\ Head(feed).type = "announcement" /\ Head(feed).intent = i
    /\ feed' = Tail(feed)
    /\ \/ /\ now >= Terms[i].closesAt
          /\ UNCHANGED <<now, inventory, tracked, client, released>>
       \/ /\ now < Terms[i].closesAt
          /\ \E E \in evictions :
               LET q == quote(i, E)
               IN /\ tracked' = q.tracked /\ inventory' = q.inventory
                  /\ released' = released \cup E \cup (IF tracked[i] > 0 /\ q.tracked[i] = 0 THEN {i} ELSE {})
                  /\ client' = IF q.draft > 0 THEN [at |-> "submit", intent |-> i, output |-> q.draft] ELSE idle
          /\ now' = IF worthPricing(i) THEN now + PricingMs ELSE now
    /\ UNCHANGED <<settled, book, auction, announced, lostAnswers, owing>>

(* submitBid: the venue's checks in order, at the bid's arrival.  Any      *)
(* error the loop sees goes to onError, which calls releaseBid.            *)
acceptable(i, output, at) ==
    /\ auction[i] = "open" /\ isAdmissible(output, Terms[i].minOutput) /\ at < Terms[i].closesAt
bidOf(i, output) == [mine |-> TRUE, output |-> output, until |-> Terms[i].closesAt + BidLifetime]
replaced(i, bid) == [book EXCEPT ![i] = {b \in @ : ~b.mine} \cup {bid}]

releaseBid(i) ==
    /\ tracked' = [tracked EXCEPT ![i] = 0] /\ inventory' = inventory + tracked[i]
    /\ released' = released \cup {i}

Submit ==
    /\ client.at = "submit" /\ client' = idle /\ now' = now + LatencyMs
    /\ LET i == client.intent
       IN \/ /\ acceptable(i, client.output, now')
             /\ book' = replaced(i, bidOf(i, client.output))
             /\ UNCHANGED <<tracked, inventory, released, lostAnswers>>
          \/ /\ acceptable(i, client.output, now') /\ lostAnswers < MaxLost
             /\ book' = replaced(i, bidOf(i, client.output))
             /\ releaseBid(i) /\ lostAnswers' = lostAnswers + 1
          \/ /\ ~acceptable(i, client.output, now')
             /\ releaseBid(i) /\ UNCHANGED <<book, lostAnswers>>
    /\ UNCHANGED <<settled, auction, feed, announced, owing>>

(* fill: an award is filled from its hold; what is not spent goes back.    *)
(* An award for an intent no longer held, or past its window, is an error  *)
(* the loop reports.                                                       *)
unspent_Kept(i, awarded) == 0
unspent(i, awarded) == tracked[i] - awarded

Fill(i) ==
    /\ client.at = "next" /\ feed # <<>> /\ Head(feed).type = "award" /\ Head(feed).intent = i
    /\ feed' = Tail(feed)
    /\ LET awarded == Head(feed).output
       IN IF tracked[i] = 0 \/ now >= fillDeadline(i) \/ awarded > tracked[i]
          THEN UNCHANGED <<tracked, settled, inventory, owing>>
          ELSE /\ tracked' = [tracked EXCEPT ![i] = 0] /\ settled' = settled + awarded
               /\ inventory' = inventory + unspent(i, awarded)
               /\ owing' = [owing EXCEPT ![i] = 0]
    /\ UNCHANGED <<now, book, auction, client, announced, lostAnswers, released>>
-----------------------------------------------------------------------------
(* StubAuctioneer                                                          *)

rivalBids(i) == {[mine |-> FALSE, output |-> r.output, until |-> Terms[i].closesAt + r.lifetime] :
                     r \in {s \in Terms[i].rivals : isAdmissible(s.output, Terms[i].minOutput)}}

Announce(i) ==
    /\ announced[i] < MaxAnnounced /\ auction[i] # "closed" /\ now < Terms[i].closesAt
    /\ announced' = [announced EXCEPT ![i] = @ + 1]
    /\ auction' = [auction EXCEPT ![i] = "open"]
    /\ book' = IF auction[i] = "new" THEN [book EXCEPT ![i] = rivalBids(i)] ELSE book
    /\ feed' = Append(feed, [type |-> "announcement", intent |-> i, output |-> 0])
    /\ UNCHANGED <<now, inventory, settled, tracked, client, lostAnswers, owing, released>>

(* close: among the bids that stand at the close the best output wins if   *)
(* it beats the reserve; equal output loses.                               *)
eligible(i) == {b \in book[i] : Terms[i].closesAt <= b.until}
best(i) == {b \in eligible(i) : \A c \in eligible(i) : b.output >= c.output}
CloseAuction(i) ==
    /\ auction[i] = "open" /\ now >= Terms[i].closesAt
    /\ auction' = [auction EXCEPT ![i] = "closed"] /\ book' = [book EXCEPT ![i] = {}]
    /\ \/ /\ \A b \in best(i) : b.output <= Terms[i].reserve
          /\ UNCHANGED <<feed, owing>>
       \/ \E b \in best(i), d \in 0..Discount :
            /\ b.output > Terms[i].reserve
            /\ IF b.mine /\ b.output - d > Terms[i].reserve
               THEN /\ feed' = Append(feed, [type |-> "award", intent |-> i, output |-> b.output - d])
                    /\ owing' = [owing EXCEPT ![i] = b.output - d]
               ELSE UNCHANGED <<feed, owing>>
    /\ UNCHANGED <<now, inventory, settled, tracked, client, announced, lostAnswers, released>>

AuctionClock ==
    /\ now < MaxNow /\ now' = now + 1
    /\ UNCHANGED <<inventory, settled, tracked, book, auction, feed, client, announced,
                   lostAnswers, owing, released>>

AuctionNext ==
    \/ \E i \in Intents : HandleAnnouncement(i) \/ Fill(i) \/ Announce(i) \/ CloseAuction(i)
    \/ Submit \/ AuctionClock
-----------------------------------------------------------------------------
(* The float is uncommitted, held for a live bid or paid out, and nothing  *)
(* else: no exit from the index leaks a hold or returns it twice (drop,    *)
(* quote's replacement of an earlier hold, fill's unspent part).           *)
FloatConserved == inventory + held(Intents) + settled = Float

(* Until its fill deadline a bid that stands at the venue, and an award    *)
(* that may still be filled, is covered by a hold, so awards won together  *)
(* can be paid together; only a submission that failed or an eviction      *)
(* takes the hold away first.  (prune forgets the rest: a venue that       *)
(* closes an auction later than that awards what cannot be filled.)        *)
StandingBidHeld ==
    \A i \in Intents \ released :
        /\ \A b \in book[i] : b.mine /\ now <= fillDeadline(i) => tracked[i] >= b.output
        /\ owing[i] > 0 /\ now < fillDeadline(i) => tracked[i] >= owing[i]

(* What makes a bid safe to sign (ReferenceSolver): see the two parts.     *)
InventorySound == FloatConserved /\ StandingBidHeld
=============================================================================
