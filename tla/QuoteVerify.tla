---------------------------- MODULE QuoteVerify -----------------------------
(***************************************************************************)
(* A served quote on its way to a signature: signer/src/intent-verify.ts   *)
(* holds the intent to the request and the origin pull to the intent,      *)
(* client/src/machine adds the pins of solverPin.ts, xochi-signing.ts pins *)
(* the shape of what is signed.  The venue serves what it likes: an honest *)
(* quote with up to MaxLies fields changed.                                *)
(*                                                                         *)
(* An address is [kind, letters, case]: "hex" ignores case, "party" (a     *)
(* text that starts 0x) and "text" do not.  Numbers are small integers,    *)
(* NoNumber and NoAddress the absent ones; the wall clock stands at 0.     *)
(***************************************************************************)
EXTENDS Integers, FiniteSets, FiniteSetsExt

CONSTANTS
  MaxLies,         \* bound: fields of a quote the venue changes
  MaxIntentAhead,  \* MAX_INTENT_DEADLINE_AHEAD_OF_NOW_SECONDS
  MaxPullAfter,    \* MAX_PULL_EXPIRY_AFTER_INTENT_SECONDS
  QuoteAsks        \* who asks for what: [caller, request, pins, escrows, buffer, allow,
                   \* requirePin, honest]; the pull recipients are pinned per chain and method

VARIABLES quoteStage, quoteAsk, served

verifyVars == <<quoteStage, quoteAsk, served>>

Address(kind, letters, case) == [kind |-> kind, letters |-> letters, case |-> case]
NoAddress == Address("none", "", "")
NoNumber == -1

Permit2Address == Address("hex", "permit2", "lower")
Escrow == Address("hex", "escrow", "lower")
Wallet == Address("hex", "wallet", "lower")
Solver == Address("hex", "solver", "lower")
Proxy == Address("hex", "proxy", "lower")
TokenA == Address("hex", "tokenA", "lower")
TokenB == Address("hex", "tokenB", "lower")
Alice == Address("party", "alice", "upper")
AliceLower == Address("party", "alice", "lower")
SolverUpper == Address("hex", "solver", "upper")

\* Mutant: everything that starts 0x is folded.
foldCase_Prefix(a) == IF a.kind \in {"hex", "party"} THEN [a EXCEPT !.case = "lower"] ELSE a

\* Case is folded only for 0x and hex digits.
foldCase(a) == IF a.kind = "hex" THEN [a EXCEPT !.case = "lower"] ELSE a

sameAddressish(a, b) == foldCase(a) = foldCase(b)

\* An unreadable number equals nothing, another unreadable one included.
sameNumeric(a, b) == a # NoNumber /\ a = b

IsAddress(a) == a = Address(a.kind, a.letters, a.case)

\* What may be asked: addresses and numbers where the request has them.  The client names the
\* token it sends (QuoteRequest, wire.ts:66), which is not Permit2 itself, and the spenders it
\* allows are EVM addresses.
ASSUME QuoteVerifyAssumption ==
  /\ MaxIntentAhead \in Nat /\ MaxPullAfter \in Nat
  /\ \A ask \in QuoteAsks :
       /\ IsAddress(ask.request.wallet) /\ IsAddress(ask.request.recipient)
       /\ IsAddress(ask.request.fromToken) /\ IsAddress(ask.request.toToken)
       /\ ask.request.fromChainId \in Int /\ ask.request.toChainId \in Int
       /\ ask.request.fromAmount \in Int /\ ask.request.outputAmount \in Int
       /\ ask.request.max \in Int /\ ask.buffer \in Int
       /\ \A chain \in DOMAIN ask.pins :
            \A kind \in {"erc3009", "permit2"} : \A a \in ask.pins[chain][kind] : IsAddress(a)
       /\ \A chain \in DOMAIN ask.escrows : IsAddress(ask.escrows[chain])
       /\ \A a \in ask.allow.permit2 : IsAddress(a) /\ a.kind = "hex"
       /\ ask.honest.kind \in {"erc3009", "permit2"} /\ IsAddress(ask.honest.payee)
       /\ ask.caller = "client" =>
            ask.request.fromToken # NoAddress /\ ~sameAddressish(ask.request.fromToken, Permit2Address)

(* ------------------------ the intent and the request ------------------- *)

\* Mutant: any deadline is accepted.
deadlineWithinWallClockBound_Unbounded(deadline) == TRUE

assertDeadlineWithinWallClockBound(deadline) ==
  deadline # NoNumber => deadline <= MaxIntentAhead

\* exact_output: the caller's ceiling on what the venue derived is required.
assertFromAmountWithinMax(request, amount) ==
  request.max # NoNumber /\ amount # NoNumber /\ amount <= request.max

\* Absent, the venue pays the wallet.
recipientOf(request) == IF request.recipient = NoAddress THEN request.wallet ELSE request.recipient

\* Mutant: the recipient is compared only when the request names one.
recipientMatches_WhenAsked(request, intent) ==
  request.recipient # NoAddress => sameAddressish(intent.recipient, request.recipient)

recipientMatches(request, intent) ==
  recipientOf(request) # NoAddress => sameAddressish(intent.recipient, recipientOf(request))

amountsMatch(request, intent) ==
  IF request.swapKind = "exact_output"
  THEN /\ request.outputAmount # NoNumber => sameNumeric(intent.toAmount, request.outputAmount)
       /\ assertFromAmountWithinMax(request, intent.fromAmount)
  ELSE request.fromAmount # NoNumber => sameNumeric(intent.fromAmount, request.fromAmount)

assertIntentMatchesRequest(request, intent) ==
  /\ request.wallet # NoAddress => sameAddressish(intent.wallet, request.wallet)
  /\ request.fromChainId # NoNumber => sameNumeric(intent.fromChainId, request.fromChainId)
  /\ request.toChainId # NoNumber => sameNumeric(intent.toChainId, request.toChainId)
  /\ request.fromToken # NoAddress => sameAddressish(intent.fromToken, request.fromToken)
  /\ request.toToken # NoAddress => sameAddressish(intent.toToken, request.toToken)
  /\ recipientMatches(request, intent)
  /\ intent.settlementPreference = request.settlement
  /\ assertDeadlineWithinWallClockBound(intent.deadline)
  /\ amountsMatch(request, intent)

(* -------------------------- the pull and the intent -------------------- *)

assertNoEscrowEnvelope(quote) == ~quote.escrow

\* The dialect a pull is read in: by its type list, ERC-3009 first.
pullKind(pull) == IF "erc3009" \in pull.types THEN "erc3009" ELSE "permit2"
knownKind(pull) == pull.types \cap {"erc3009", "permit2"} # {}

\* Mutant: what the venue advertises is taken as it comes.
pullExpiryBoundSeconds_Advertised(buffer) == IF buffer < 0 THEN MaxPullAfter ELSE buffer

\* The tighter of the advertised buffer and the local ceiling; anything but a
\* count leaves the ceiling.
pullExpiryBoundSeconds(buffer) ==
  IF buffer < 0 \/ buffer > MaxPullAfter THEN MaxPullAfter ELSE buffer

requireIntentChainId(intent) == intent.fromChainId > 0

\* Mutant: a pinned chain without the served method reads as unpinned.
pinRefuses_LenientMethod(intent, kind, pins) == ~requireIntentChainId(intent)

\* A pin refuses when the intent names no chain to look it up under, and when the
\* chain is pinned without the served method.
pinRefuses(intent, kind, pins) ==
  \/ ~requireIntentChainId(intent)
  \/ /\ intent.fromChainId \in DOMAIN pins
     /\ pins[intent.fromChainId][kind] = {}

\* The accepted addresses; {} when the caller pinned nothing that applies.
pinnedFor(intent, kind, pins) ==
  IF intent.fromChainId \in DOMAIN pins THEN pins[intent.fromChainId][kind] ELSE {}

pinAccepts(accepted, a) == \E value \in accepted : sameAddressish(a, value)

payeeIn(pull, kind) == IF kind = "erc3009" THEN pull.to ELSE pull.spender
amountIn(pull, kind) == IF kind = "erc3009" THEN pull.value ELSE pull.amount
tokenIn(pull, kind) == IF kind = "erc3009" THEN pull.verifyingContract ELSE pull.token
expiryIn(pull, kind) == IF kind = "erc3009" THEN pull.validBefore ELSE pull.deadline

resolvePinnedEscrow(escrows, chain) ==
  IF chain \in DOMAIN escrows THEN escrows[chain] ELSE NoAddress

\* A pull to the caller's own escrow is escrow-bearing, whatever the quote says.
assertPullNotToPinnedEscrow(intent, pull, kind, escrows) ==
  DOMAIN escrows # {} =>
    /\ requireIntentChainId(intent)
    /\ LET pinned == resolvePinnedEscrow(escrows, intent.fromChainId)
       IN pinned # NoAddress => ~sameAddressish(payeeIn(pull, kind), pinned)

\* Mutant: the chain is compared only where both state one.
chainMatches_WhenStated(intent, pull) ==
  (pull.chainId # NoNumber /\ intent.fromChainId # NoNumber) => pull.chainId = intent.fromChainId

chainMatches(intent, pull) == sameNumeric(pull.chainId, intent.fromChainId)

pullRecipientMatches(intent, pull, kind, pins) ==
  DOMAIN pins # {} =>
    /\ ~pinRefuses(intent, kind, pins)
    /\ pinnedFor(intent, kind, pins) # {} =>
         /\ payeeIn(pull, kind) # NoAddress
         /\ pinAccepts(pinnedFor(intent, kind, pins), payeeIn(pull, kind))

assertPullMatchesIntent(quote, ask) ==
  LET intent == quote.intent
      pull == quote.pull
      kind == pullKind(pull)
  IN /\ assertNoEscrowEnvelope(quote)
     /\ knownKind(pull)
     /\ (intent.fromAmount # NoNumber /\ amountIn(pull, kind) # NoNumber)
          => sameNumeric(amountIn(pull, kind), intent.fromAmount)
     /\ chainMatches(intent, pull)
     /\ intent.fromToken # NoAddress => sameAddressish(tokenIn(pull, kind), intent.fromToken)
     /\ kind = "permit2" => sameAddressish(pull.verifyingContract, Permit2Address)
     /\ assertPullNotToPinnedEscrow(intent, pull, kind, ask.escrows)
     /\ pullRecipientMatches(intent, pull, kind, ask.pins)
     /\ assertDeadlineWithinWallClockBound(intent.deadline)
     /\ (expiryIn(pull, kind) # NoNumber /\ intent.deadline # NoNumber)
          => expiryIn(pull, kind) <= intent.deadline + pullExpiryBoundSeconds(ask.buffer)

(* ------------------------- the pins of the client ---------------------- *)

lowercased(a) == [a EXCEPT !.case = "lower"]

\* The allowlists are kept in lower case.
allowlist(ask, kind) == ask.allow[kind]

\* Permit2 is always pinned; ERC-3009 unless a hard pin is asked for.
checkRecipient(ask, kind, payee) ==
  IF allowlist(ask, kind) = {} THEN kind = "erc3009" /\ ~ask.requirePin
  ELSE lowercased(payee) \in allowlist(ask, kind)

checkAmount(pull, kind, expected) == sameNumeric(amountIn(pull, kind), expected)

\* Read in the dialect the wallet will sign: primaryType.
validateSolverPin(ask, pull) ==
  /\ pull.primary \in {"erc3009", "permit2"}
  /\ pull.primary = "permit2" => sameAddressish(pull.verifyingContract, Permit2Address)
  /\ checkRecipient(ask, pull.primary, payeeIn(pull, pull.primary))
  /\ checkAmount(pull, pull.primary, ask.request.fromAmount)

\* Two texts that start 0x are compared without case.
sameRecipient(a, b) ==
  IF {a.kind, b.kind} \subseteq {"hex", "party"} THEN lowercased(a) = lowercased(b) ELSE a = b

\* The payout the panel rendered: the amount the quote shows, to the one asked for.
validatePayoutPin(ask, quote) ==
  /\ sameNumeric(quote.intent.toAmount, quote.shown)
  /\ recipientOf(ask.request) # NoAddress
  /\ quote.intent.recipient # NoAddress
  /\ sameRecipient(quote.intent.recipient, recipientOf(ask.request))

(* ------------------------------ the signature -------------------------- *)

\* A struct is one of the two pulls, exactly.
matchesSchema(pull) == \E kind \in {"erc3009", "permit2"} : pull.types = {kind}

\* External: a typed-data encoder refuses a struct with a field missing.
encodes(intent, pull) ==
  /\ \A f \in {"fromChainId", "toChainId", "fromAmount", "toAmount", "deadline"} :
       intent[f] # NoNumber
  /\ \A f \in {"wallet", "recipient", "fromToken", "toToken"} : intent[f] # NoAddress
  /\ pull.primary \in pull.types
  /\ expiryIn(pull, pull.primary) # NoNumber /\ amountIn(pull, pull.primary) # NoNumber
  /\ payeeIn(pull, pull.primary) # NoAddress /\ tokenIn(pull, pull.primary) # NoAddress

(* ------------------------------- the quote ----------------------------- *)

\* An honest answer: the request where it speaks, defaults where it does not.
honest(ask) ==
  LET r == ask.request
      h == ask.honest
      kind == h.kind
      amount == IF r.fromAmount = NoNumber THEN 2 ELSE r.fromAmount
      chain == IF r.fromChainId = NoNumber THEN 1 ELSE r.fromChainId
      token == IF r.fromToken = NoAddress THEN TokenA ELSE r.fromToken
  IN [intent |-> [wallet |-> r.wallet, recipient |-> recipientOf(r), fromChainId |-> chain,
                  toChainId |-> IF r.toChainId = NoNumber THEN 2 ELSE r.toChainId,
                  fromToken |-> token,
                  toToken |-> IF r.toToken = NoAddress THEN TokenB ELSE r.toToken,
                  fromAmount |-> amount,
                  toAmount |-> IF r.outputAmount = NoNumber THEN 2 ELSE r.outputAmount,
                  settlementPreference |-> r.settlement, deadline |-> 1],
      pull |-> [types |-> {kind}, primary |-> kind, chainId |-> chain,
                verifyingContract |-> IF kind = "erc3009" THEN token ELSE Permit2Address,
                to |-> h.payee, spender |-> h.payee, value |-> amount, amount |-> amount,
                token |-> token, validBefore |-> 2, deadline |-> 2],
      escrow |-> FALSE, shown |-> 2]

\* One changed field: [part, field, value], applied on top of another quote.
numbers == {NoNumber, 1, 2, 3, 9}
addresses == {NoAddress, Wallet, Escrow, Proxy, TokenB, Permit2Address, SolverUpper, AliceLower}
lies ==
  [part : {"intent"}, field : {"fromChainId", "toChainId", "fromAmount", "toAmount", "deadline"},
   value : numbers]
  \cup [part : {"intent"}, field : {"wallet", "recipient", "fromToken", "toToken"}, value : addresses]
  \cup [part : {"intent"}, field : {"settlementPreference"}, value : {"public", "stealth"}]
  \cup [part : {"pull"}, field : {"chainId", "value", "amount", "validBefore", "deadline"},
        value : numbers]
  \cup [part : {"pull"}, field : {"verifyingContract", "to", "spender", "token"}, value : addresses]
  \cup [part : {"pull"}, field : {"primary"}, value : {"erc3009", "permit2", "other"}]
  \cup [part : {"pull"}, field : {"types"},
        value : {{"erc3009"}, {"permit2"}, {"erc3009", "permit2"}, {"other"}}]

tell(quote, lie) == [quote EXCEPT ![lie.part][lie.field] = lie.value]

VerifyInit ==
  /\ quoteStage = "asked"
  /\ quoteAsk \in QuoteAsks
  /\ served = honest(quoteAsk)

\* External: the venue answers, with an escrow envelope or without, and with the
\* payout it likes beside the intent.
ServeQuote ==
  /\ quoteStage = "asked"
  /\ \E lie, other \in lies, n \in 0..MaxLies, escrow \in BOOLEAN, shown \in {1, 2} :
       /\ n < 2 => other = lie
       /\ (escrow \/ shown # 2) => n = 0
       /\ LET one == IF n = 0 THEN served ELSE tell(served, lie)
              both == IF n < 2 THEN one ELSE tell(one, other)
          IN served' = [both EXCEPT !.escrow = escrow, !.shown = shown]
  /\ quoteStage' = "served"
  /\ UNCHANGED quoteAsk

\* checkSignableQuote, at ingest.
IngestQuote ==
  /\ quoteStage = "served"
  /\ quoteStage' = IF /\ assertIntentMatchesRequest(quoteAsk.request, served.intent)
                      /\ assertPullMatchesIntent(served, quoteAsk)
                   THEN "quoted" ELSE "refused"
  /\ UNCHANGED <<quoteAsk, served>>

\* The client pins the payout before the intent is signed, and the pull before the
\* approval; a library caller's key signs a known schema.
SignQuote ==
  /\ quoteStage = "quoted"
  /\ quoteStage' = IF /\ encodes(served.intent, served.pull)
                      /\ IF quoteAsk.caller = "client"
                         THEN validatePayoutPin(quoteAsk, served) /\ validateSolverPin(quoteAsk, served.pull)
                         ELSE matchesSchema(served.pull)
                   THEN "signed" ELSE "refused"
  /\ UNCHANGED <<quoteAsk, served>>

VerifyNext == ServeQuote \/ IngestQuote \/ SignQuote

(* ------------------------------ properties ----------------------------- *)

sameAccount(a, b) == a.kind = b.kind /\ a.letters = b.letters /\ (a.kind # "hex" => a.case = b.case)

\* What the signed pull lets happen, read as the token contract or Permit2 reads it.
pulled == [chain |-> served.pull.chainId, token |-> tokenIn(served.pull, served.pull.primary),
           amount |-> amountIn(served.pull, served.pull.primary),
           payee |-> payeeIn(served.pull, served.pull.primary),
           until |-> expiryIn(served.pull, served.pull.primary)]

\* A signature moves what was asked for, to whom the caller pinned, for a bounded time, whatever the
\* venue served: the asked token and amount (or no more than the ceiling) on the asked chain, to an
\* address pinned for that chain and dialect, never to the caller's escrow, and the intent signed
\* beside it pays the asked recipient on the asked chain.
\* Code: assertIntentMatchesRequest, assertPullMatchesIntent, validateSolverPin, signStruct.
SignsOnlyAsked ==
  quoteStage = "signed" =>
    LET r == quoteAsk.request
        buffer == IF quoteAsk.buffer \in 0..MaxPullAfter THEN quoteAsk.buffer ELSE MaxPullAfter
    IN /\ r.fromChainId # NoNumber => pulled.chain = r.fromChainId
       /\ pulled.chain = served.intent.fromChainId
       /\ r.fromToken # NoAddress => sameAccount(pulled.token, r.fromToken)
       /\ IF r.swapKind = "exact_output" THEN pulled.amount <= r.max
          ELSE r.fromAmount # NoNumber => pulled.amount = r.fromAmount
       /\ pulled.until <= MaxIntentAhead + buffer
       /\ (pulled.chain \in DOMAIN quoteAsk.pins) =>
            \E a \in quoteAsk.pins[pulled.chain][served.pull.primary] : sameAccount(pulled.payee, a)
       /\ (pulled.chain \in DOMAIN quoteAsk.escrows) =>
            ~sameAccount(pulled.payee, quoteAsk.escrows[pulled.chain])
       /\ served.pull.primary = "permit2" => sameAccount(served.pull.verifyingContract, Permit2Address)
       /\ ~served.escrow
       /\ recipientOf(r) # NoAddress => sameAccount(served.intent.recipient, recipientOf(r))
       /\ r.toChainId # NoNumber => served.intent.toChainId = r.toChainId
       /\ quoteAsk.caller = "client" =>
            /\ served.intent.toAmount = served.shown
            /\ served.pull.primary = "permit2" => foldCase(pulled.payee) \in quoteAsk.allow.permit2
=============================================================================
