---------------------------- MODULE ClaimVerify -----------------------------
(***************************************************************************)
(* What the stealth key signs: signer/src/claim-verify.ts over the         *)
(* UserOperation a venue prepared (erc4337.ts), and client/src/claim.ts.   *)
(* The venue serves an operation, the EntryPoint and chain it says the     *)
(* digest is over, and the digest; a digest is the record it hashes, so    *)
(* it may be the served operation's or another's.  The chain that was      *)
(* scanned and the announcement found there are the client's own.          *)
(***************************************************************************)
EXTENDS QuoteVerify

CONSTANTS ClaimAsks  \* [by, settlementChainId, expectedToken, announced]

ASSUME ClaimVerifyAssumption == \A ask \in ClaimAsks : IsAddress(ask.expectedToken)

VARIABLES claimAsk, prepared, claimStage

claimVars == <<claimAsk, prepared, claimStage>>

EntryPoint == Address("hex", "entryPoint", "lower")
Counterfactual == Address("hex", "counterfactual", "lower")
Factory == Address("hex", "factory", "lower")
Key == Address("hex", "key", "lower")
Recipient == Address("hex", "recipient", "lower")
RecipientUpper == Address("hex", "recipient", "upper")

\* An operation: what its callData does, who pays its gas, and the account it deploys.
honestOp == [sender |-> Counterfactual, call |-> "transfer", token |-> TokenB, to |-> Recipient,
             amount |-> 2, value |-> 0, sponsored |-> TRUE,
             factory |-> Factory, deploys |-> TRUE, owner |-> Key, salt |-> 0]

\* The digest binds the operation, the EntryPoint and the chain.
computeUserOpHash(op, entryPoint, chain) == [op |-> op, entryPoint |-> entryPoint, chain |-> chain]

\* execute(token, value, transfer(to, amount)), and nothing else.
decodeErc20TransferExecute(op) == op.call = "transfer"

decodeCreateAccountCall(op) == op.deploys

\* Mutant: the digest is signed as it was served.
hashMatches_Served(p) == TRUE

hashMatches(p) == p.hash = computeUserOpHash(p.op, p.entryPoint, p.chainId)

\* Mutant: a claim without a settlement chain passes.
chainBound_WhenKnown(settlement, p) == settlement # NoNumber => p.chainId = settlement

chainBound(settlement, p) == settlement # NoNumber /\ sameNumeric(p.chainId, settlement)

\* Mutant: an operation that pays its own gas passes.
spendsOnlyToken_AnyGas(op) == op.value = 0

spendsOnlyToken(op) == op.value = 0 /\ op.sponsored

\* Every gap is a refusal: both callers force requireVerified.
assertPreparedClaimMatchesRequest(p, settlement, token) ==
  /\ p.served /\ p.entryPoint # NoAddress
  /\ sameAddressish(p.entryPoint, EntryPoint)
  /\ p.chainId # NoNumber
  /\ hashMatches(p)
  /\ sameAddressish(p.op.sender, Counterfactual)
  /\ chainBound(settlement, p)
  /\ decodeErc20TransferExecute(p.op)
  /\ sameAddressish(p.op.to, Recipient)
  /\ spendsOnlyToken(p.op)
  /\ token # NoAddress => sameAddressish(p.op.token, token)

checkPreparedClaim(p, ask) ==
  assertPreparedClaimMatchesRequest(p, ask.settlementChainId, ask.expectedToken)

\* Mutant: the deployment is not held to the signing key.
ownAccount_Any(p) == decodeCreateAccountCall(p.op)

ownAccount(p) == decodeCreateAccountCall(p.op) /\ sameAddressish(p.op.owner, Key)

\* The claiming client's own half: the announcement it scanned, the key about to sign.
verifyClaimUserOp(p, ask) ==
  /\ p.served /\ p.entryPoint # NoAddress
  /\ ask.announced
  /\ p.chainId = ask.settlementChainId
  /\ assertPreparedClaimMatchesRequest(p, ask.settlementChainId, TokenB)
  /\ sameAddressish(p.op.factory, Factory)
  /\ ownAccount(p)
  /\ p.op.salt = 0

opLies ==
  [field : {"sender", "to", "owner", "factory"}, value : {Wallet, RecipientUpper, Counterfactual}]
  \cup [field : {"token"}, value : {TokenA}]
  \cup [field : {"call"}, value : {"other"}]
  \cup [field : {"value", "amount", "salt"}, value : {1}]
  \cup [field : {"sponsored", "deploys"}, value : {FALSE}]

ops == {honestOp} \cup {[honestOp EXCEPT ![l.field] = l.value] : l \in opLies}

noClaim == [served |-> FALSE, op |-> honestOp, entryPoint |-> NoAddress, chainId |-> NoNumber,
            hash |-> computeUserOpHash(honestOp, NoAddress, NoNumber)]

ClaimInit ==
  /\ claimAsk \in ClaimAsks
  /\ prepared = noClaim
  /\ claimStage = "asked"

\* External: the venue prepares an operation and asks for a signature over a digest.
PrepareClaim ==
  /\ claimStage = "asked"
  /\ \E op, hashed \in ops, e \in {NoAddress, EntryPoint, Proxy}, chain \in {NoNumber, 1, 2},
        hashedChain \in {1, 2}, sent \in BOOLEAN :
       prepared' = [served |-> sent, op |-> op, entryPoint |-> e, chainId |-> chain,
                    hash |-> computeUserOpHash(hashed, e, hashedChain)]
  /\ claimStage' = "prepared"
  /\ UNCHANGED claimAsk

SignClaim ==
  /\ claimStage = "prepared"
  /\ claimStage' = IF (IF claimAsk.by = "client" THEN checkPreparedClaim(prepared, claimAsk)
                       ELSE verifyClaimUserOp(prepared, claimAsk))
                   THEN "signed" ELSE "refused"
  /\ UNCHANGED <<claimAsk, prepared>>

ClaimNext == PrepareClaim \/ SignClaim

(* ------------------------------ properties ----------------------------- *)

\* What a signed digest does is the claim that was asked for: on the chain that was scanned, from the
\* account the payment is in, a sponsored transfer to the asked recipient and nothing beside it; a
\* client that holds the announcement moves the announced token and deploys an account of its own.
\* Code: assertPreparedClaimMatchesRequest, verifyClaimUserOp.
ClaimsAreTheAsk ==
  claimStage = "signed" =>
    LET h == prepared.hash
    IN /\ h.chain = claimAsk.settlementChainId
       /\ sameAccount(h.entryPoint, EntryPoint)
       /\ sameAccount(h.op.sender, Counterfactual) /\ sameAccount(h.op.to, Recipient)
       /\ h.op.call = "transfer" /\ h.op.value = 0 /\ h.op.sponsored
       /\ (claimAsk.by = "client" /\ claimAsk.expectedToken # NoAddress)
            => sameAccount(h.op.token, claimAsk.expectedToken)
       /\ claimAsk.by = "scanner" =>
            /\ sameAccount(h.op.token, TokenB) /\ sameAccount(h.op.factory, Factory)
            /\ h.op.deploys /\ sameAccount(h.op.owner, Key) /\ h.op.salt = 0
=============================================================================
