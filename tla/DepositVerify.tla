--------------------------- MODULE DepositVerify ----------------------------
(***************************************************************************)
(* Which deposit address a user is shown: signer/src/deposit-verify.ts and *)
(* client/src/machine/deposit.ts.  The venue's key attests deals, for      *)
(* anyone who asks; the channel and the host's storage hand the client any *)
(* of them, with the unsigned fields as they like.  The half of the signed *)
(* message that says whose deal it is is rebuilt from the client's own     *)
(* request.  A message is the record of its normalised fields: the code    *)
(* refuses a field with the delimiter in it, so no two records share their *)
(* bytes.  A deadline is the seconds left when it is read.                 *)
(***************************************************************************)
EXTENDS QuoteVerify

CONSTANTS
  DepositRequests,   \* [by, wallet, recipient, refund, fromAmount, swapKind, max]
  MinDepositWindow,  \* DEPOSIT_MIN_WINDOW_SECONDS
  ServerFolds,       \* whether the venue's build lowercases every value that starts 0x
  MaxDeposits        \* bound: quotes served

\* The wallet is a connected account, which no deposit route has on Canton.
ASSUME DepositVerifyAssumption ==
  /\ MinDepositWindow \in Int /\ ServerFolds \in BOOLEAN
  /\ \A request \in DepositRequests :
       /\ IsAddress(request.wallet) /\ request.wallet.kind # "party"
       /\ IsAddress(request.recipient) /\ IsAddress(request.refund)
       /\ request.fromAmount \in Int /\ request.max \in Int

VARIABLES
  depositRequest,
  depositQuote,   \* [deal, fields, attestation, shown, escrow]; its fields as served
  depositStage,   \* "idle", "served", "stored"
  seenAddresses,  \* address -> intent: the machine's seenDepositAddresses
  displayed,      \* what was shown: [by, address, intent, deal]
  deposits

depositVars == <<depositRequest, depositQuote, depositStage, seenAddresses, displayed, deposits>>

DepositA == Address("hex", "depositA", "lower")
DepositAUpper == Address("hex", "depositA", "upper")
DepositB == Address("text", "depositB", "upper")
Bob == Address("hex", "bob", "upper")

\* A 0x prefix is enough: mirrors normalize_address/1.
normalizeAddress(a) == IF a.kind \in {"hex", "party"} THEN [a EXCEPT !.case = "lower"] ELSE a

\* 0x and hex digits only: mirrors normalize_party_capable/1.
normalizePartyCapable(a) == IF a.kind = "hex" THEN [a EXCEPT !.case = "lower"] ELSE a

recipientIsDestinationToken(recipient, toToken) ==
  recipient # NoAddress /\ normalizePartyCapable(recipient) = normalizePartyCapable(toToken)

buildDepositAttestationMessage(f) ==
  [f EXCEPT !.wallet = normalizeAddress(@), !.fromToken = normalizeAddress(@),
            !.address = normalizeAddress(@), !.refund = normalizeAddress(@),
            !.toToken = normalizePartyCapable(@), !.recipient = normalizePartyCapable(@)]

\* External: the message the venue signs for a deal.
attested(deal) ==
  LET m == buildDepositAttestationMessage(deal)
  IN IF ServerFolds THEN [m EXCEPT !.toToken = normalizeAddress(@), !.recipient = normalizeAddress(@)]
     ELSE m

\* A signature recovers to its key over the bytes it signed, to some other key over others.
recovers(f, attestation) ==
  attestation.by = "venue" /\ attestation.over = buildDepositAttestationMessage(f)

verifyDepositAttestation(f, attestation) ==
  attestation.by # "none" /\ f.address # NoAddress /\ recovers(f, attestation)

\* Mutant: whom the deal pays is read from the quote.
depositAttestationFields_Quoted(request, quote) == quote

\* Half of the message from the request, half from the quote.
depositAttestationFields(request, quote) ==
  [quote EXCEPT !.wallet = request.wallet, !.fromChainId = 1, !.fromToken = TokenA,
                !.toChainId = 2, !.toToken = TokenB, !.refund = request.refund,
                !.settlement = "public",
                !.recipient = IF request.recipient = NoAddress THEN request.wallet ELSE request.recipient,
                !.fromAmount = IF request.by = "client" THEN request.fromAmount ELSE quote.fromAmount]

\* Mutant: only the recipient is held to the rule.
assertDepositPartiesCaseBindable_Recipient(f) == f.recipient.kind # "party"

assertDepositPartiesCaseBindable(f) ==
  \A a \in {f.recipient, f.wallet, f.refund} : a.kind # "party"

displayedAgrees(shown, recipient) == shown = NoAddress \/ normalizePartyCapable(shown) = normalizePartyCapable(recipient)

depositAmountMatches(request, f) ==
  IF request.swapKind = "exact_output" THEN assertFromAmountWithinMax(request, f.fromAmount)
  ELSE request.fromAmount # NoNumber => request.fromAmount = f.fromAmount

assertDepositQuoteMatchesRequest(request, f, quote) ==
  /\ ~quote.escrow
  /\ depositAmountMatches(request, f)
  /\ assertDepositPartiesCaseBindable(f)
  /\ displayedAgrees(quote.shown, f.recipient)
  /\ ~recipientIsDestinationToken(f.recipient, f.toToken)
  /\ f.deadline # NoNumber /\ f.deadline >= MinDepositWindow

\* Mutant: the address is kept as it is spelled.
addressKey_Raw(a) == a

addressKey(a) == normalizeAddress(a)

\* An address recorded for one intent is refused for another.
recordDepositAddress(seen, a, intent) ==
  addressKey(a) \in DOMAIN seen => seen[addressKey(a)] = intent

\* ----------------------------- the deals ---------------------------------

dealFor(request, intent, address) ==
  [intent |-> intent, wallet |-> request.wallet, fromChainId |-> 1, fromToken |-> TokenA,
   fromAmount |-> IF request.fromAmount = NoNumber THEN 2 ELSE request.fromAmount,
   address |-> address, deadline |-> 2, refund |-> request.refund, toChainId |-> 2, toToken |-> TokenB,
   toAmount |-> 2, settlement |-> "public",
   recipient |-> IF request.recipient = NoAddress THEN request.wallet ELSE request.recipient]

dealLies ==
  [field : {"wallet", "refund", "recipient"}, value : {Wallet, Bob, Alice, AliceLower}]
  \cup [field : {"fromAmount", "deadline", "toChainId"}, value : {NoNumber, 0, 3}]
  \cup [field : {"toToken", "fromToken"}, value : {TokenA, TokenB}]
  \cup [field : {"settlement"}, value : {"stealth"}]

\* What the venue attested: a deal for this request, or one that differs in a field.
Deals(request) ==
  LET plain == {dealFor(request, i, a) : i \in {1, 2}, a \in {DepositA, DepositAUpper, DepositB}}
  IN plain \cup {[dealFor(request, 1, DepositA) EXCEPT ![l.field] = l.value] : l \in dealLies}

NoDeal == [intent |-> 0]
NoDisplay == [by |-> "none", address |-> NoAddress, intent |-> 0, deal |-> NoDeal]
NoDeposit == [deal |-> NoDeal, fields |-> NoDeal, attestation |-> [by |-> "none", over |-> NoDeal],
              shown |-> NoAddress, escrow |-> FALSE]

DepositInit ==
  /\ depositRequest \in DepositRequests
  /\ depositQuote = NoDeposit /\ depositStage = "idle"
  /\ seenAddresses = [a \in {} |-> 0]
  /\ displayed = NoDisplay /\ deposits = 0

\* External: what is sent beside an attestation: its deal, or one changed.
misdealt(deal, change) ==
  CASE change = "address" -> [deal EXCEPT !.address = DepositB]
    [] change = "amount" -> [deal EXCEPT !.toAmount = 9, !.fromAmount = 9]
    [] change = "asked" -> [deal EXCEPT !.wallet = depositRequest.wallet, !.recipient = Bob, !.intent = 1]
    [] OTHER -> deal

\* External: the channel delivers a genuine attestation, an attestation by another
\* key or none, beside fields that are the deal's, the request's, or changed.
deliver(stage) ==
  \E deal \in Deals(depositRequest), by \in {"venue", "other", "none"}, escrow \in BOOLEAN,
     shown \in {NoAddress, Bob, depositRequest.recipient}, change \in {"none", "address", "amount", "asked"} :
    /\ (escrow \/ by # "venue") => change = "none" /\ shown = NoAddress
    /\ depositStage' = stage
    /\ depositQuote' =
         [deal |-> deal, escrow |-> escrow, shown |-> shown,
          attestation |-> [by |-> by, over |-> attested(deal)],
          fields |-> misdealt(deal, change)]
    /\ UNCHANGED <<depositRequest, seenAddresses, displayed>>

ServeDeposit ==
  /\ depositStage = "idle" /\ deposits < MaxDeposits
  /\ deposits' = deposits + 1
  /\ deliver("served")

\* The served route against the request; the address is recorded once the signature
\* has been verified.
CheckDeposit ==
  LET f == depositAttestationFields(depositRequest, depositQuote.fields)
      ok == /\ verifyDepositAttestation(f, depositQuote.attestation)
            /\ assertDepositQuoteMatchesRequest(depositRequest, f, depositQuote)
            /\ recordDepositAddress(seenAddresses, f.address, f.intent)
  IN /\ depositStage = "served"
     /\ IF ok
        THEN /\ seenAddresses' = [a \in DOMAIN seenAddresses \cup {addressKey(f.address)} |->
                                    IF a = addressKey(f.address) THEN f.intent ELSE seenAddresses[a]]
             /\ displayed' = [by |-> "live", address |-> f.address, intent |-> f.intent,
                              deal |-> depositQuote.deal]
        ELSE UNCHANGED <<seenAddresses, displayed>>
     /\ depositStage' = "idle" /\ depositQuote' = NoDeposit
     /\ UNCHANGED <<depositRequest, deposits>>

\* External: the host's storage hands back a record, filed under intent 1 of the wallet.
RestoreDeposit ==
  /\ depositStage = "idle" /\ deposits = 0
  /\ deposits' = MaxDeposits
  /\ deliver("stored")

\* A record written by an older build is renamed first; one in neither shape, or with
\* a field missing or of the wrong type, is refused.
readStoredDeposit(f, attestation) == attestation.by # "none" /\ f.fromAmount # NoNumber /\ f.toChainId # NoNumber

\* Mutant: a record filed under another wallet is taken.
boundToRecord_Intent(f, intent, owner) == f.intent = intent

\* The binding is the record's own: its intent and its owner.
boundToRecord(f, intent, owner) ==
  /\ f.intent = intent
  /\ owner # NoAddress /\ normalizeAddress(f.wallet) = normalizeAddress(owner)

verifyStoredDeposit ==
  LET f == depositQuote.fields
      ok == /\ readStoredDeposit(f, depositQuote.attestation)
            /\ boundToRecord(f, 1, depositRequest.wallet)
            /\ ~recipientIsDestinationToken(f.recipient, f.toToken)
            /\ verifyDepositAttestation(f, depositQuote.attestation)
  IN /\ depositStage = "stored"
     /\ displayed' = IF ok THEN [by |-> "stored", address |-> f.address, intent |-> f.intent,
                                 deal |-> depositQuote.deal]
                     ELSE displayed
     /\ depositStage' = "idle" /\ depositQuote' = NoDeposit
     /\ UNCHANGED <<depositRequest, seenAddresses, deposits>>

DepositNext == ServeDeposit \/ CheckDeposit \/ RestoreDeposit \/ verifyStoredDeposit

(* ------------------------------ properties ----------------------------- *)

\* The address shown is the one the venue attested, in a deal that is this user's: the wallet, the
\* amount, the route, the refund and the recipient of the request, down to the case of a party id;
\* one brought back from storage is the deal of the record's own intent and owner; and an address
\* shown for one intent is never shown for another.
\* Code: checkDepositQuote, verifyDepositAttestation, recordDepositAddress, verifyStoredDeposit.
DepositsAreTheDeal ==
  LET d == displayed.deal
      r == depositRequest
  IN displayed.by # "none" =>
       /\ sameAccount(displayed.address, d.address) /\ displayed.intent = d.intent
       /\ sameAccount(d.wallet, r.wallet)
       /\ ~sameAccount(d.recipient, d.toToken)
       /\ displayed.by = "stored" => d.intent = 1
       /\ displayed.by = "live" =>
            /\ sameAccount(d.recipient, IF r.recipient = NoAddress THEN r.wallet ELSE r.recipient)
            /\ sameAccount(d.refund, r.refund)
            /\ IF r.swapKind = "exact_output" THEN d.fromAmount <= r.max
               ELSE r.fromAmount # NoNumber => d.fromAmount = r.fromAmount
            /\ d.toChainId = 2 /\ sameAccount(d.toToken, TokenB) /\ sameAccount(d.fromToken, TokenA)
            /\ d.settlement = "public" /\ d.deadline >= MinDepositWindow
            /\ \A a \in DOMAIN seenAddresses : sameAccount(a, d.address) => seenAddresses[a] = d.intent
=============================================================================
