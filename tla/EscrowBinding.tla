---------------------------- MODULE EscrowBinding ---------------------------
(***************************************************************************)
(* What an escrowed order binds, from the depositor's signature to the     *)
(* solver's claim: signer/src/escrow.ts assertEscrowBinding on one side,   *)
(* solver-sdk/src/escrow-verify.ts and the prepare and accept of           *)
(* escrow-gateway.ts on the other.  Between them the venue writes the      *)
(* quote, the announcement, the award and the attestation as it likes.     *)
(*                                                                         *)
(* A hash is the record it is taken of.  Time stands at 0; a lock turns    *)
(* refundable ClaimWindow after its fill deadline.                         *)
(***************************************************************************)
EXTENDS QuoteVerify

CONSTANTS
  EscrowAsks,       \* the depositor: [signer, recipient, toToken, toChainId, minOut, escrows, kind]
  MaxFalse,         \* bound: fields of quote, announcement and award the venue changes
  ClaimWindow,      \* the escrow's claim window at open
  FillInclusion, AttestationLatency, SafetyMargin, AcceptBudget,
  BidOutput         \* the output the solver signed in its bid

\* The depositor signs with an EVM account, and the escrow it pins is a contract; what it asks for
\* is an address and a number each.
ASSUME BindingAssumption ==
  /\ \A ask \in EscrowAsks :
       /\ IsAddress(ask.signer) /\ ask.signer.kind = "hex"
       /\ IsAddress(ask.recipient) /\ IsAddress(ask.toToken)
       /\ ask.toChainId \in Int /\ ask.minOut \in Int
       /\ \A chain \in DOMAIN ask.escrows : IsAddress(ask.escrows[chain]) /\ ask.escrows[chain].kind = "hex"
  /\ {ClaimWindow, FillInclusion, AttestationLatency, SafetyMargin, AcceptBudget, BidOutput} \subseteq Int

VARIABLES
  bindStage, escrowAsk, escrowQuote,
  locks,            \* the escrow contract: [id, lock, final]
  rfq,              \* the announcement the solver bid on, with the order it is about
  award,
  acceptedFill,     \* the acceptance the solver signed and the fill it owes
  payout            \* where its claim sends the principal

bindingVars == <<bindStage, escrowAsk, escrowQuote, locks, rfq, award, acceptedFill, payout>>

Filler == Address("hex", "filler", "lower")
Verifier == Address("hex", "verifier", "lower")
Bond == Address("hex", "bond", "lower")
Venue == Address("hex", "venue", "lower")
EscrowUpper == Address("hex", "escrow", "upper")
None == [none |-> TRUE]

eqAddr(a, b) == lowercased(a) = lowercased(b)

(* -------------------------- the hashes of an order --------------------- *)

\* A padded word for an EVM address, whatever its case; anything else verbatim.
canonicalKey(a) == foldCase(a)

\* The destination chain is outside the commitment.
computeDestCommitment(opening) ==
  [opening EXCEPT !.recipient = canonicalKey(opening.recipient),
                  !.toToken = canonicalKey(opening.toToken)]

assertBlinding(opening) == opening.blinding # 0

computeOrderId(terms) ==
  [terms EXCEPT !.depositor = foldCase(terms.depositor), !.fromToken = foldCase(terms.fromToken),
                !.escrow = foldCase(terms.escrow)]

(* ------------------------- the depositor's guard ----------------------- *)

pinnedEscrowFor(ask, chain) == resolvePinnedEscrow(ask.escrows, chain)

\* Mutant: the escrow the quote names is the one the pull is held to.
escrowIsPinned_Quoted(ask, q) == eqAddr(q.pull.payee, q.terms.escrow)

escrowIsPinned(ask, q) ==
  LET escrow == pinnedEscrowFor(ask, q.terms.fromChainId)
  IN /\ escrow # NoAddress
     /\ eqAddr(q.terms.escrow, escrow)
     /\ eqAddr(q.pull.payee, escrow)

openingIsAsked(ask, q) ==
  /\ canonicalKey(q.opening.recipient) = canonicalKey(ask.recipient)
  /\ canonicalKey(q.opening.toToken) = canonicalKey(ask.toToken)
  /\ q.opening.toAmount >= ask.minOut
  /\ assertBlinding(q.opening)
  /\ q.terms.toChainId = ask.toChainId

\* Mutant: the order's hash is taken from the quote.
hashesMatch_Quoted(q) == q.pull.orderId = q.quotedOrderId

hashesMatch(q) ==
  /\ q.terms.destCommitment = computeDestCommitment(q.opening)
  /\ q.quotedOrderId = computeOrderId(q.terms)
  /\ q.pull.orderId = computeOrderId(q.terms)

assertEscrowBinding(ask, q) ==
  /\ openingIsAsked(ask, q)
  /\ hashesMatch(q)
  /\ escrowIsPinned(ask, q)
  /\ eqAddr(q.terms.depositor, ask.signer)
  /\ eqAddr(q.terms.fromToken, q.pull.token)
  /\ q.terms.fromAmount = q.pull.amount

(* --------------------------- the solver's checks ----------------------- *)

\* What the solver trusts: its chains, its contracts, its bond.
Origins == {1}
Destinations == {2, 3}

requireFillableEscrow(a) == a.complete

\* Mutant: the acceptance is signed for whatever bond the award names.
checkAwardBond_Named(a) == TRUE

checkAwardBond(a) == eqAddr(a.bond, Bond) /\ a.bondChainId = 1

\* With the announcement its chain; else the envelope's; else the one its escrow is on.
resolveOrigin(a, announcement) ==
  IF announcement # None THEN announcement.fromChainId
  ELSE IF a.orderTerms # None THEN a.orderTerms.fromChainId
  ELSE IF eqAddr(a.address, Escrow) THEN 1 ELSE NoNumber

\* The bid signed the announced order: nothing else is its award.
checkAnnouncement(a, terms, orderId, ann) ==
  /\ ann.orderId = orderId
  /\ ann.intentId = a.opening.intentId
  /\ ann.fromChainId = terms.fromChainId
  /\ ann.toChainId = terms.toChainId
  /\ eqAddr(ann.fromToken, terms.fromToken)
  /\ ann.fromAmount # NoNumber => ann.fromAmount = terms.fromAmount
  /\ canonicalKey(ann.toToken) = canonicalKey(a.opening.toToken)

\* Mutant: the venue's echo of the output is the ceiling.
withinBid_Awarded(a) == a.auth.amount <= a.output

withinBid(a) == a.auth.amount <= a.output /\ a.auth.amount <= BidOutput

\* Mutant: the recipient is the award's word.
authMatches_AnyRecipient(a) ==
  /\ a.auth.fillId = a.fillId /\ eqAddr(a.auth.filler, Solver)
  /\ eqAddr(a.auth.fillerContract, Filler)
  /\ eqAddr(a.auth.token, a.opening.toToken) /\ a.auth.amount >= a.opening.toAmount

\* The FillAuth authorises exactly the committed fill, by this solver.
authMatches(a) ==
  /\ a.auth.fillId = a.fillId
  /\ eqAddr(a.auth.filler, Solver)
  /\ eqAddr(a.auth.fillerContract, Filler)
  /\ eqAddr(a.auth.to, a.opening.recipient)
  /\ eqAddr(a.auth.token, a.opening.toToken)
  /\ a.auth.amount >= a.opening.toAmount
  /\ eqAddr(a.payee, a.auth.filler)

verifyAward(a, origin, originTerms, announcement) ==
  LET terms == [originTerms EXCEPT !.destCommitment = computeDestCommitment(a.opening)]
      orderId == computeOrderId(terms)
  IN /\ eqAddr(a.address, Escrow)
     /\ eqAddr(originTerms.escrow, Escrow)
     /\ originTerms.fromChainId = origin
     /\ originTerms.toChainId = a.auth.chainId
     /\ assertBlinding(a.opening)
     /\ a.orderTerms # None => a.orderTerms.destCommitment = terms.destCommitment
     /\ orderId = a.intentRef
     /\ a.opening.intentId = a.intentId
     /\ announcement # None => checkAnnouncement(a, terms, orderId, announcement)
     /\ a.opening.recipient.kind = "hex" /\ a.opening.toToken.kind = "hex"
     /\ authMatches(a)
     /\ withinBid(a)

\* Mutant: an Opened log is taken before its block is safe.
readFinalLock_Latest(orderId) == {e \in locks : e.id = orderId}

\* The lock at the safe head, Open, in the block its log names.
readFinalLock(orderId) == {e \in locks : e.id = orderId /\ e.final}

\* The deadline is not on chain: it is the refund time less the window in force now.
originTermsFromLock(lock, origin, claimWindow) ==
  [depositor |-> lock.depositor, fromChainId |-> origin, fromToken |-> lock.token,
   fromAmount |-> lock.amount, toChainId |-> lock.toChainId,
   fillDeadline |-> lock.refundableAt - claimWindow, escrow |-> Escrow, destCommitment |-> None]

checkLockMatchesTerms(lock, terms) ==
  /\ eqAddr(lock.token, terms.fromToken)
  /\ lock.amount = terms.fromAmount
  /\ eqAddr(lock.depositor, terms.depositor)
  /\ lock.toChainId = terms.toChainId
  /\ lock.refundableAt >= terms.fillDeadline

\* Mutant: any signature is a FillAuth.
isFillAuthorizer_Any(a) == TRUE

\* The recovered signer of the FillAuth is one the trusted RiddlerFiller accepts.
isFillAuthorizer(a) == a.auth.by = "authorizer"

landsBy == FillInclusion + AcceptBudget

\* Mutant: the attester's latency and the margin are not budgeted.
checkFillWindow_Landing(lock, deadline) == landsBy < lock.refundableAt /\ landsBy <= deadline

checkFillWindow(lock, deadline) ==
  /\ landsBy + AttestationLatency + SafetyMargin < lock.refundableAt
  /\ landsBy <= deadline

fillAuthDigest(auth) == auth

fillAcceptanceOf(a) ==
  [orderId |-> a.intentRef, escrow |-> Escrow, filler |-> a.auth.filler,
   deadline |-> a.auth.deadline, fillAuth |-> fillAuthDigest(a.auth),
   bond |-> foldCase(a.bond), bondChainId |-> a.bondChainId]

fillAttestationDigest(orderId, payee) ==
  [orderId |-> orderId, payee |-> foldCase(payee), chainId |-> 1, verifier |-> Verifier]

\* External: a signature recovers its signer over what was signed, nobody else over anything.
recoverAddress(signature, digest) == IF signature.over = digest THEN signature.by ELSE "nobody"

\* Mutant: the payee is the attestation's word.
verifyAttestation_AnyPayee(wire, orderId) ==
  /\ wire.orderId = orderId
  /\ recoverAddress(wire.signature, fillAttestationDigest(orderId, wire.payee)) = "attester"

\* The proof is re-encoded from payee and signature; its signer is an active attester.
verifyAttestation(wire, orderId) ==
  /\ wire.orderId = orderId
  /\ eqAddr(wire.payee, Solver)
  /\ wire.chainId = 1
  /\ eqAddr(wire.verifier, Verifier)
  /\ eqAddr(wire.proofPayee, wire.payee)
  /\ recoverAddress(wire.signature, fillAttestationDigest(orderId, Solver)) = "attester"

(* --------------------------- what the venue writes --------------------- *)

termsOf(order) ==
  [depositor |-> order.depositor, fromChainId |-> order.fromChainId, fromToken |-> order.fromToken,
   fromAmount |-> order.fromAmount, toChainId |-> order.toChainId,
   fillDeadline |-> order.fillDeadline, escrow |-> order.escrow,
   destCommitment |-> computeDestCommitment(order.opening)]

\* External: the order an honest venue derives from the ask, and one of its own.
orderFor(ask) ==
  [depositor |-> ask.signer, fromChainId |-> 1, fromToken |-> TokenA, fromAmount |-> 2,
   toChainId |-> ask.toChainId, fillDeadline |-> 4, escrow |-> Escrow,
   opening |-> [recipient |-> ask.recipient, toToken |-> ask.toToken, toAmount |-> ask.minOut,
                blinding |-> 1, intentId |-> "i"]]
venueOrder == [orderFor([signer |-> Venue, recipient |-> Venue, toToken |-> TokenB, toChainId |-> 2,
                         minOut |-> 1]) EXCEPT !.fromAmount = 1]

quoteFor(order, kind) ==
  [terms |-> termsOf(order), opening |-> order.opening, quotedOrderId |-> computeOrderId(termsOf(order)),
   pull |-> [kind |-> kind, payee |-> order.escrow, token |-> order.fromToken,
             amount |-> order.fromAmount, orderId |-> computeOrderId(termsOf(order))],
   falsities |-> 0]

\* A changed order is re-hashed: the venue is consistent wherever it is checked to be.
changed(order, field, value) ==
  IF field \in DOMAIN order THEN [order EXCEPT ![field] = value]
  ELSE [order EXCEPT !.opening[field] = value]

orderLies ==
  [field : {"fromChainId", "toChainId", "fromAmount", "fillDeadline", "toAmount"}, value : {1, 2, 3}]
  \cup [field : {"depositor", "fromToken", "escrow", "toToken"}, value : {Venue, TokenB, Wallet}]
  \cup [field : {"recipient"}, value : {Venue, AliceLower}]
  \cup [field : {"blinding"}, value : {0, 2}] \cup [field : {"intentId"}, value : {"j"}]

\* Beside the order: a pull, a witness or a commitment that is not the order's.
besides(q, other) ==
  {q, [q EXCEPT !.pull.payee = Venue], [q EXCEPT !.pull.payee = EscrowUpper],
   [q EXCEPT !.pull.token = TokenB], [q EXCEPT !.pull.amount = 3],
   [q EXCEPT !.quotedOrderId = other.quotedOrderId], [q EXCEPT !.pull.orderId = other.quotedOrderId],
   [q EXCEPT !.quotedOrderId = other.quotedOrderId, !.pull.orderId = other.quotedOrderId],
   [q EXCEPT !.terms.destCommitment = other.terms.destCommitment]}

BindingInit ==
  /\ bindStage = "asked"
  /\ escrowAsk \in EscrowAsks
  /\ escrowQuote = None
  /\ locks = {} /\ rfq = None /\ award = None /\ acceptedFill = None /\ payout = None

QuoteEscrow ==
  /\ bindStage = "asked"
  /\ \E n \in 0..MaxFalse, a, b \in orderLies :
       LET zero == orderFor(escrowAsk)
           one == changed(zero, a.field, a.value)
           two == changed(one, b.field, b.value)
           kind == escrowAsk.kind
           quotes == CASE n = 0 -> {quoteFor(zero, kind)}
                       [] n = 1 -> {quoteFor(one, kind)} \cup besides(quoteFor(zero, kind), quoteFor(one, kind))
                       [] OTHER -> {quoteFor(two, kind)} \cup besides(quoteFor(one, kind), quoteFor(two, kind))
       IN /\ n < 2 => b = a
          /\ \E q \in quotes : escrowQuote' = [q EXCEPT !.falsities = n]
  /\ bindStage' = "quoted"
  /\ UNCHANGED <<escrowAsk, locks, rfq, award, acceptedFill, payout>>

BindEscrow ==
  /\ bindStage = "quoted"
  /\ bindStage' = IF assertEscrowBinding(escrowAsk, escrowQuote) THEN "signed" ELSE "refused"
  /\ UNCHANGED <<escrowAsk, escrowQuote, locks, rfq, award, acceptedFill, payout>>

(* --------------------------- the escrow contract ----------------------- *)

lockOf(terms) == [depositor |-> terms.depositor, token |-> terms.fromToken, amount |-> terms.fromAmount,
                  toChainId |-> terms.toChainId, refundableAt |-> terms.fillDeadline + ClaimWindow]

\* The order the signed pull can open: the preimage of the hash it carries.
signedOrder == [terms |-> escrowQuote.pull.orderId, opening |-> escrowQuote.pull.orderId.destCommitment]
ownOrder == [terms |-> computeOrderId(termsOf(venueOrder)), opening |-> venueOrder.opening]

\* External: openFor hashes the terms it is given and pulls under that hash.
OpenLock ==
  /\ bindStage = "signed"
  /\ \E order \in {signedOrder, ownOrder} :
       /\ \A e \in locks : e.id # order.terms
       /\ order.terms.fromChainId = 1 /\ order.terms.escrow = Escrow
       /\ locks' = locks \cup {[id |-> order.terms, lock |-> lockOf(order.terms), final |-> FALSE]}
  /\ UNCHANGED <<bindStage, escrowAsk, escrowQuote, rfq, award, acceptedFill, payout>>

\* External: the block of a lock turns safe, or a reorganisation takes it.
Finalize ==
  /\ bindStage \notin {"refused", "dropped"}
  /\ \E e \in locks : ~e.final /\ locks' = (locks \ {e}) \cup {[e EXCEPT !.final = TRUE]}
  /\ UNCHANGED <<bindStage, escrowAsk, escrowQuote, rfq, award, acceptedFill, payout>>

Reorg ==
  /\ bindStage \notin {"refused", "dropped"}
  /\ \E e \in locks : ~e.final /\ locks' = locks \ {e}
  /\ UNCHANGED <<bindStage, escrowAsk, escrowQuote, rfq, award, acceptedFill, payout>>

(* --------------------------- announced and awarded --------------------- *)

announcementOf(order) ==
  [orderId |-> order.terms, intentId |-> order.opening.intentId, fromChainId |-> 1,
   toChainId |-> order.terms.toChainId, fromToken |-> order.terms.fromToken,
   fromAmount |-> order.terms.fromAmount, toToken |-> order.opening.toToken]

rfqLies ==
  [field : {"fromAmount"}, value : {NoNumber, 3}] \cup [field : {"toChainId"}, value : {3}]
  \cup [field : {"fromToken", "toToken"}, value : {Venue}] \cup [field : {"intentId"}, value : {"j"}]

\* External: what the solver prices and bids on.
AnnounceOrder ==
  /\ bindStage = "signed" /\ locks # {}
  /\ \E order \in {signedOrder, ownOrder}, lie \in rfqLies, n \in {0, 1} :
       /\ n <= MaxFalse - escrowQuote.falsities
       /\ rfq' = [ann |-> IF n = 0 THEN announcementOf(order)
                          ELSE [announcementOf(order) EXCEPT ![lie.field] = lie.value],
                  falsities |-> escrowQuote.falsities + n]
  /\ bindStage' = "announced"
  /\ UNCHANGED <<escrowAsk, escrowQuote, locks, award, acceptedFill, payout>>

awardOf(order, terms) ==
  [complete |-> TRUE, intentRef |-> order.terms, intentId |-> order.opening.intentId, address |-> Escrow,
   orderTerms |-> IF terms THEN order.terms ELSE None,
   opening |-> order.opening, fillId |-> 1, output |-> BidOutput, bond |-> Bond, bondChainId |-> 1,
   payee |-> Solver, acceptBy |-> AcceptBudget,
   auth |-> [fillId |-> 1, filler |-> Solver, to |-> order.opening.recipient,
             token |-> order.opening.toToken, amount |-> order.opening.toAmount, deadline |-> 4,
             chainId |-> order.terms.toChainId, fillerContract |-> Filler, by |-> "authorizer"]]

awardLies ==
  [part : {"award"}, field : {"address", "bond", "payee"}, value : {Venue}]
  \cup [part : {"award"}, field : {"bondChainId", "fillId"}, value : {2}]
  \cup [part : {"award"}, field : {"output"}, value : {BidOutput + 1}]
  \cup [part : {"award"}, field : {"acceptBy"}, value : {0}]
  \cup [part : {"award"}, field : {"complete"}, value : {FALSE}]
  \cup [part : {"award"}, field : {"intentId"}, value : {"j"}]
  \cup [part : {"opening"}, field : {"recipient", "toToken"}, value : {Venue, AliceLower}]
  \cup [part : {"opening"}, field : {"toAmount"}, value : {0, BidOutput + 1}]
  \cup [part : {"opening"}, field : {"intentId"}, value : {"j"}]
  \cup [part : {"auth"}, field : {"filler", "to", "token", "fillerContract"}, value : {Venue}]
  \cup [part : {"auth"}, field : {"filler"}, value : {SolverUpper}]
  \cup [part : {"auth"}, field : {"amount"}, value : {0, BidOutput, BidOutput + 1}]
  \cup [part : {"auth"}, field : {"deadline"}, value : {1}]
  \cup [part : {"auth"}, field : {"fillId"}, value : {2}] \cup [part : {"auth"}, field : {"chainId"}, value : {3}]
  \cup [part : {"auth"}, field : {"by"}, value : {"stranger"}]

misstate(a, lie) ==
  IF lie.part = "award" THEN [a EXCEPT ![lie.field] = lie.value]
  ELSE [a EXCEPT ![lie.part][lie.field] = lie.value]

\* External: the award, with or without the order's terms, of this order or another.
AwardFill ==
  /\ bindStage = "announced"
  /\ \E order \in {signedOrder, ownOrder}, terms \in BOOLEAN, lie, other \in awardLies,
        n \in 0..(MaxFalse - rfq.falsities) :
       /\ n < 2 => other = lie
       /\ LET one == IF n = 0 THEN awardOf(order, terms) ELSE misstate(awardOf(order, terms), lie)
          IN award' = IF n < 2 THEN one ELSE misstate(one, other)
  /\ bindStage' = "awarded"
  /\ UNCHANGED <<escrowAsk, escrowQuote, locks, rfq, acceptedFill, payout>>

(* ------------------------------ the solver ----------------------------- *)

\* prepare: verified with the envelope's terms or the lock's, under the claim window read now;
\* a lock that is not final in time refuses.
PrepareFill ==
  /\ bindStage = "awarded"
  /\ \E announcement \in {rfq.ann, None}, claimWindow \in {ClaimWindow, ClaimWindow + 1} :
       LET origin == resolveOrigin(award, announcement)
           ok == /\ requireFillableEscrow(award)
                 /\ rfq.ann.orderId = award.intentRef
                 /\ checkAwardBond(award)
                 /\ origin \in Origins
                 /\ award.auth.chainId \in Destinations
                 /\ \E e \in readFinalLock(award.intentRef) :
                      LET terms == IF award.orderTerms # None THEN award.orderTerms
                                   ELSE originTermsFromLock(e.lock, origin, claimWindow)
                      IN /\ verifyAward(award, origin, terms, announcement)
                         /\ checkLockMatchesTerms(e.lock, terms)
                         /\ isFillAuthorizer(award)
       IN /\ bindStage' = IF ok THEN "prepared" ELSE "dropped"
          /\ acceptedFill' = IF ok THEN [by |-> IF announcement = None THEN "order" ELSE "announcement"]
                             ELSE None
  /\ UNCHANGED <<escrowAsk, escrowQuote, locks, rfq, award, payout>>

\* accept: the windows with its budget, then the signature; the fill is owed from here.
AcceptFill ==
  /\ bindStage = "prepared"
  /\ LET ok == /\ AcceptBudget <= award.acceptBy
               /\ \A e \in readFinalLock(award.intentRef) : checkFillWindow(e.lock, award.auth.deadline)
     IN /\ bindStage' = IF ok THEN "accepted" ELSE "dropped"
        /\ acceptedFill' = IF ok THEN [acceptance |-> fillAcceptanceOf(award), by |-> acceptedFill.by]
                           ELSE None
  /\ UNCHANGED <<escrowAsk, escrowQuote, locks, rfq, award, payout>>

\* fill, then the venue's attestation, verified before the claim that carries it.
ClaimFill ==
  /\ bindStage = "accepted"
  /\ \E orderId \in {award.intentRef, computeOrderId(termsOf(venueOrder))}, payee, signed \in {Solver, Venue},
        by \in {"attester", "stranger"} :
       LET wire == [orderId |-> orderId, payee |-> payee, proofPayee |-> signed, chainId |-> 1,
                    verifier |-> Verifier,
                    signature |-> [by |-> by, over |-> fillAttestationDigest(orderId, signed)]]
       IN /\ verifyAttestation(wire, award.intentRef)
          /\ payout' = [orderId |-> wire.orderId, payee |-> wire.proofPayee]
  /\ bindStage' = "claimed"
  /\ UNCHANGED <<escrowAsk, escrowQuote, locks, rfq, award, acceptedFill>>

BindingNext ==
  \/ QuoteEscrow \/ BindEscrow \/ OpenLock \/ Finalize \/ Reorg
  \/ AnnounceOrder \/ AwardFill \/ PrepareFill \/ AcceptFill \/ ClaimFill

(* ------------------------------ properties ----------------------------- *)

\* The deal holds from end to end, whatever the venue writes between.  The only order the depositor's
\* signature can open is in the escrow it pinned, from its own account, and commits to the recipient,
\* token, amount and chain it asked for; a fill the solver accepts pays exactly what an Open, final
\* lock commits to (the depositor's recipient, when the lock is the depositor's), no more than its
\* bid, through its own filler and bond, with the attester's time in hand and, where it priced the
\* announcement, for the principal announced; and its claim pays itself.
\* Code: assertEscrowBinding, OnchainEscrowGateway.prepare and accept, verifyAttestation.
EscrowBinds ==
  /\ bindStage \notin {"asked", "quoted", "refused"} =>
       LET t == signedOrder.terms
           escrow == pinnedEscrowFor(escrowAsk, t.fromChainId)
       IN /\ escrow # NoAddress
          /\ sameAccount(escrowQuote.pull.payee, escrow) /\ sameAccount(t.escrow, escrow)
          /\ sameAccount(t.depositor, escrowAsk.signer)
          /\ sameAccount(t.fromToken, escrowQuote.pull.token) /\ t.fromAmount = escrowQuote.pull.amount
          /\ t.toChainId = escrowAsk.toChainId
          /\ sameAccount(t.destCommitment.recipient, escrowAsk.recipient)
          /\ sameAccount(t.destCommitment.toToken, escrowAsk.toToken)
          /\ t.destCommitment.toAmount >= escrowAsk.minOut
  /\ bindStage \in {"accepted", "claimed"} =>
       LET auth == award.auth
           a == acceptedFill.acceptance
       IN \E e \in locks :
            /\ e.id = a.orderId /\ e.final
            /\ e.id.toChainId = auth.chainId
            /\ sameAccount(e.id.destCommitment.recipient, auth.to)
            /\ sameAccount(e.id.destCommitment.toToken, auth.token)
            /\ e.id.destCommitment.toAmount <= auth.amount
            /\ auth.amount <= BidOutput
            /\ sameAccount(auth.filler, Solver) /\ sameAccount(auth.fillerContract, Filler)
            /\ auth.by = "authorizer"
            /\ sameAccount(a.filler, Solver) /\ sameAccount(a.bond, Bond) /\ a.bondChainId = 1
            /\ landsBy + AttestationLatency + SafetyMargin < e.lock.refundableAt
            /\ rfq.ann.orderId = e.id
            /\ acceptedFill.by = "announcement" =>
                 /\ sameAccount(e.lock.token, rfq.ann.fromToken)
                 /\ rfq.ann.fromAmount \in {NoNumber, e.lock.amount}
                 /\ sameAccount(auth.token, rfq.ann.toToken)
            /\ e.id = signedOrder.terms => sameAccount(auth.to, escrowAsk.recipient)
  /\ bindStage = "claimed" => payout = [orderId |-> award.intentRef, payee |-> Solver]
=============================================================================
