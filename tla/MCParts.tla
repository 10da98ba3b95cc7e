------------------------------ MODULE MCParts -------------------------------
(***************************************************************************)
(* Small instances of the parts that share no state with one another, in   *)
(* one run: a behaviour picks one part and only that part moves.           *)
(***************************************************************************)
EXTENDS FillLease, Provider, Bidder, Transport, WidgetBridge, ExecutionPlan, Receipts,
        EscrowBinding

VARIABLE part

(* Provider: two requests of one payload, a library caller of the same,    *)
(* and a credential root; the queue holds one request that hashes.         *)
MCCalls == 1..4
MCRouteOf == <<"sign", "sign", "direct", "root">>
MCScopeOf == <<"signals", "signals", "signals", "credentialRoot">>
MCPayloadOf == <<"a", "a", "a", "r">>
MCTimestamp == [a |-> 0, r |-> 0]
MCBodyOf == [c \in MCCalls |->
               [json |-> TRUE, deployment |-> TRUE, provider |-> TRUE, weights |-> <<1, 1>>,
                signals |-> <<0, 1>>, notBefore |-> 0, notAfter |-> 2]]
MCKeys == <<"k">>

(* Auction: one auction with rivals, one of another scale, one that closes *)
(* late; the float covers two of the three bids.                           *)
MCIntents == {"a", "b", "c"}
MCTerm == [serviced |-> TRUE, size |-> 10, decimals |-> <<0, 0>>, minOutput |-> 7, closesAt |-> 3,
           exclusive |-> 2, reserve |-> 7, rivals |-> {}]
MCTerms == [i \in MCIntents |->
              CASE i = "a" -> [MCTerm EXCEPT !.rivals = {[output |-> 10, lifetime |-> -1],
                                                         [output |-> 8, lifetime |-> 1]}]
                [] i = "b" -> [MCTerm EXCEPT !.closesAt = 4, !.size = 100, !.decimals = <<1, 0>>]
                [] i = "c" -> [MCTerm EXCEPT !.closesAt = 7, !.exclusive = 1]]

(* QuoteCache: three calls of one request, one of them a forced refresh.   *)
MCRequestOf == [c \in {"qa", "qb", "qc"} |-> "k"]

(* ExecutionPlan: configurations the validation refuses included.          *)
MCSplitConfigs ==
  [splitThreshold : {1, 3}, maxSubTrades : {1, 3, 4}, minSubTradeSize : {0, 2, 3}]
MCGasEstimates == [public |-> 1, stealth |-> 2, shielded |-> 4]
MCPreferences == {{"public"}, {"public", "shielded"}, {"public", "stealth", "shielded"}}

MCInput == [total |-> 3, config |-> [splitThreshold |-> 3, maxSubTrades |-> 3, minSubTradeSize |-> 2],
            score |-> 1, preference |-> {"public"}, budget |-> 0, window |-> 0]

(* QuoteVerify: callers of the client and of the library, some of whose    *)
(* requests leave a field to the venue, pin one method only, or nothing.   *)
MCRequest == [wallet |-> Wallet, recipient |-> NoAddress, fromChainId |-> 1, toChainId |-> 2,
              fromToken |-> TokenA, toToken |-> TokenB, settlement |-> "public",
              swapKind |-> "exact_input", fromAmount |-> 2, outputAmount |-> NoNumber, max |-> NoNumber]
MCNoPins == [c \in {} |-> {}]
MCPins == [c \in {1} |-> [erc3009 |-> {Solver}, permit2 |-> {Proxy}]]
MCOnePin == [c \in {1} |-> [erc3009 |-> {Solver}, permit2 |-> {}]]
MCEscrows == [c \in {1} |-> Escrow]
MCAsk == [caller |-> "library", request |-> MCRequest, pins |-> MCPins, escrows |-> MCNoPins,
          buffer |-> NoNumber, requirePin |-> FALSE,
          allow |-> [erc3009 |-> {Solver}, permit2 |-> {Proxy}],
          honest |-> [kind |-> "erc3009", payee |-> Solver]]
MCByPermit == [kind |-> "permit2", payee |-> Proxy]
MCQuoteAsks ==
  {[MCAsk EXCEPT !.caller = "client"],
   [MCAsk EXCEPT !.caller = "client", !.pins = MCNoPins, !.honest = MCByPermit,
                 !.request.recipient = Alice],
   [MCAsk EXCEPT !.caller = "client", !.pins = MCNoPins, !.allow.erc3009 = {}],
   [MCAsk EXCEPT !.pins = MCOnePin, !.escrows = MCEscrows, !.buffer = 0],
   [MCAsk EXCEPT !.pins = MCNoPins, !.escrows = MCEscrows, !.honest = MCByPermit, !.buffer = 1,
                 !.request.swapKind = "exact_output", !.request.fromAmount = NoNumber,
                 !.request.outputAmount = 2, !.request.max = 2],
   [MCAsk EXCEPT !.buffer = 9, !.honest = MCByPermit, !.request.fromChainId = NoNumber,
                 !.request.fromToken = NoAddress, !.request.fromAmount = NoNumber],
   [MCAsk EXCEPT !.pins = MCOnePin, !.honest = MCByPermit]}

(* DepositVerify: a venue whose build lowercases; recipients, wallets and  *)
(* refund addresses of either kind, the destination token among them.      *)
MCDepositRequest == [by |-> "client", wallet |-> Wallet, recipient |-> NoAddress, refund |-> NoAddress,
                     fromAmount |-> 2, swapKind |-> "exact_input", max |-> NoNumber]
MCDepositRequests ==
  {MCDepositRequest,
   [MCDepositRequest EXCEPT !.recipient = Bob],
   [MCDepositRequest EXCEPT !.recipient = AliceLower],
   [MCDepositRequest EXCEPT !.recipient = TokenB],
   [MCDepositRequest EXCEPT !.recipient = Bob, !.refund = Alice],
   [MCDepositRequest EXCEPT !.by = "library", !.swapKind = "exact_output", !.max = 2]}

(* ClaimVerify: the client's check, and the scanner's with and without an  *)
(* announcement; a status without a settlement chain.                      *)
MCClaim == [by |-> "client", settlementChainId |-> 1, expectedToken |-> NoAddress, announced |-> TRUE]
MCClaimAsks ==
  {MCClaim, [MCClaim EXCEPT !.settlementChainId = NoNumber, !.expectedToken = TokenB],
   [MCClaim EXCEPT !.by = "scanner"], [MCClaim EXCEPT !.by = "scanner", !.announced = FALSE]}

(* EscrowBinding: a recipient of either kind, each pull dialect.           *)
MCEscrowAsk == [signer |-> Wallet, recipient |-> Bob, toToken |-> TokenB, toChainId |-> 2, minOut |-> 2,
                escrows |-> MCEscrows, kind |-> "erc3009"]
MCEscrowAsks == {MCEscrowAsk, [MCEscrowAsk EXCEPT !.recipient = Alice, !.kind = "permit2", !.escrows = MCNoPins]}

Parts == {"lease", "provider", "auction", "feed", "session", "quote", "calls", "bridge", "plan", "verify",
          "deposit", "claim", "binding", "readiness"}

(* Only the chosen part starts in each of its initial states.  The lease   *)
(* stops at its first unfenced landing: what follows it may lose an order. *)
Init ==
  /\ part \in Parts
  /\ PlanInit /\ (part # "plan" => planInput = MCInput)
  /\ FeedInit /\ (part # "feed" => handlers)
  /\ CallsInit /\ (part # "calls" => fetchKind = "node" /\ ~readToken)
  /\ BridgeInit /\ (part # "bridge" => host.provider = NoWallet)
  /\ VerifyInit /\ (part # "verify" => quoteAsk = [MCAsk EXCEPT !.caller = "client"])
  /\ DepositInit /\ (part # "deposit" => depositRequest = MCDepositRequest)
  /\ ClaimInit /\ (part # "claim" => claimAsk = MCClaim)
  /\ BindingInit /\ (part # "binding" => escrowAsk = MCEscrowAsk)
  /\ LeaseInit /\ ProviderInit /\ AuctionInit /\ SessionInit /\ QuoteInit /\ ReadinessInit

Next ==
  \/ /\ part = "lease" /\ ~unfenced /\ LeaseNext
     /\ UNCHANGED <<part, providerVars, auctionVars, feedVars, sessionVars, quoteVars, callVars,
                   bridgeVars, planVars, verifyVars, depositVars, claimVars, bindingVars, readinessVars>>
  \/ /\ part = "provider" /\ ProviderNext
     /\ UNCHANGED <<part, leaseVars, auctionVars, feedVars, sessionVars, quoteVars, callVars,
                   bridgeVars, planVars, verifyVars, depositVars, claimVars, bindingVars, readinessVars>>
  \/ /\ part = "auction" /\ AuctionNext
     /\ UNCHANGED <<part, leaseVars, providerVars, feedVars, sessionVars, quoteVars, callVars,
                   bridgeVars, planVars, verifyVars, depositVars, claimVars, bindingVars, readinessVars>>
  \/ /\ part = "feed" /\ FeedNext
     /\ UNCHANGED <<part, leaseVars, providerVars, auctionVars, sessionVars, quoteVars, callVars,
                   bridgeVars, planVars, verifyVars, depositVars, claimVars, bindingVars, readinessVars>>
  \/ /\ part = "session" /\ SessionNext
     /\ UNCHANGED <<part, leaseVars, providerVars, auctionVars, feedVars, quoteVars, callVars,
                   bridgeVars, planVars, verifyVars, depositVars, claimVars, bindingVars, readinessVars>>
  \/ /\ part = "quote" /\ QuoteNext
     /\ UNCHANGED <<part, leaseVars, providerVars, auctionVars, feedVars, sessionVars, callVars,
                   bridgeVars, planVars, verifyVars, depositVars, claimVars, bindingVars, readinessVars>>
  \/ /\ part = "calls" /\ CallsNext
     /\ UNCHANGED <<part, leaseVars, providerVars, auctionVars, feedVars, sessionVars, quoteVars,
                   bridgeVars, planVars, verifyVars, depositVars, claimVars, bindingVars, readinessVars>>
  \/ /\ part = "bridge" /\ BridgeNext
     /\ UNCHANGED <<part, leaseVars, providerVars, auctionVars, feedVars, sessionVars, quoteVars,
                   callVars, planVars, verifyVars, depositVars, claimVars, bindingVars, readinessVars>>
  \/ /\ part = "plan" /\ PlanNext
     /\ UNCHANGED <<part, leaseVars, providerVars, auctionVars, feedVars, sessionVars, quoteVars,
                   callVars, bridgeVars, verifyVars, depositVars, claimVars, bindingVars, readinessVars>>
  \/ /\ part = "verify" /\ VerifyNext
     /\ UNCHANGED <<part, leaseVars, providerVars, auctionVars, feedVars, sessionVars, quoteVars,
                   callVars, bridgeVars, planVars, depositVars, claimVars, bindingVars, readinessVars>>
  \/ /\ part = "deposit" /\ DepositNext
     /\ UNCHANGED <<part, leaseVars, providerVars, auctionVars, feedVars, sessionVars, quoteVars,
                   callVars, bridgeVars, planVars, verifyVars, claimVars, bindingVars, readinessVars>>
  \/ /\ part = "claim" /\ ClaimNext
     /\ UNCHANGED <<part, leaseVars, providerVars, auctionVars, feedVars, sessionVars, quoteVars,
                   callVars, bridgeVars, planVars, verifyVars, depositVars, bindingVars, readinessVars>>
  \/ /\ part = "binding" /\ BindingNext
     /\ UNCHANGED <<part, leaseVars, providerVars, auctionVars, feedVars, sessionVars, quoteVars,
                   callVars, bridgeVars, planVars, verifyVars, depositVars, claimVars, readinessVars>>
  \/ /\ part = "readiness" /\ ReadinessNext
     /\ UNCHANGED <<part, leaseVars, providerVars, auctionVars, feedVars, sessionVars, quoteVars,
                   callVars, bridgeVars, planVars, verifyVars, depositVars, claimVars, bindingVars>>

vars == <<part, leaseVars, providerVars, auctionVars, feedVars, sessionVars, quoteVars, callVars,
          bridgeVars, planVars, verifyVars, depositVars, claimVars, bindingVars, readinessVars>>

Spec == Init /\ [][Next]_vars

(* What tells two states apart: the parts that are not chosen each keep    *)
(* the one initial state they have then.                                   *)
View ==
  <<part, CASE part = "lease" -> leaseVars
            [] part = "provider" -> providerVars
            [] part = "auction" -> auctionVars
            [] part = "feed" -> feedVars
            [] part = "session" -> sessionVars
            [] part = "quote" -> quoteVars
            [] part = "calls" -> callVars
            [] part = "bridge" -> bridgeVars
            [] part = "plan" -> planVars
            [] part = "verify" -> verifyVars
            [] part = "deposit" -> depositVars
            [] part = "claim" -> claimVars
            [] part = "binding" -> bindingVars
            [] part = "readiness" -> readinessVars>>
=============================================================================
