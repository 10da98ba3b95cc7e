------------------------------- MODULE Bidder -------------------------------
(***************************************************************************)
(* The bidding solver: its float in the auction, the loop that reads the   *)
(* venue's events, the session both call the venue under.                  *)
(***************************************************************************)
EXTENDS Auction, SolverFeed, SolverSession

\* The bidding solver under the venue's events: it never commits more than its float nor forgets a bid it
\* may have to fill; no entry of the feed is passed over in silence and nothing is signed while a changed
\* venue has not been asked again; concurrent 401s cost one registration.
\* Code: examples/offline-solver.ts, SolverClient.run, HttpSolverTransport.events, session.ts.
BidderSound == InventorySound /\ FeedSound /\ RegistersOnce
=============================================================================
