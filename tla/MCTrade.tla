------------------------------ MODULE MCTrade ------------------------------
(***************************************************************************)
(* Small instances of TradeSystem: the trades, the contexts and the kinds  *)
(* of quote the configurations choose from.                                *)
(***************************************************************************)
EXTENDS TradeSystem

CONSTANTS i1, i2, w1, w2, home, away, d1

swap == [name |-> "swap", deposit |-> FALSE, settlement |-> "public", keys |-> FALSE,
         valid |-> TRUE, fromChainId |-> home]
stealth == [swap EXCEPT !.settlement = "stealth", !.keys = TRUE]
keyless == [swap EXCEPT !.settlement = "stealth"]
tron == [swap EXCEPT !.deposit = TRUE]
invalid == [swap EXCEPT !.valid = FALSE]

open(trade) == [trade |-> trade, address |-> w1, chainId |-> home,
                stepwise |-> FALSE, paused |-> TRUE]

\* One wallet, one plain swap.
OneContext == {open(swap)}

\* The confirm screen, with a wallet that disconnects, switches account, leaves
\* the chain, a form changed to a stealth trade without keys, and a two-tap ceremony.
WalletContexts ==
    LET c == [open(swap) EXCEPT !.stepwise = TRUE]
    IN  {c, [c EXCEPT !.address = w2], [c EXCEPT !.address = None], [c EXCEPT !.chainId = away],
         [c EXCEPT !.trade = keyless]}

\* A form edited, and a wallet that leaves, under quotes in the air and an
\* order that ended.
HeldContexts == {open(swap), [open(stealth) EXCEPT !.address = None], open(invalid)}

\* A deposit-origin trade; the wallet may be absent, the form may change.
DepositContexts == {open(tron), [open(tron) EXCEPT !.address = None]}

plain == [success |-> TRUE, canSolve |-> TRUE, preview |-> FALSE, address |-> None,
          eip712 |-> TRUE, pull |-> "none", payoutOk |-> TRUE, ttl |-> 2, slack |-> 0,
          genuine |-> TRUE, matches |-> TRUE, attested |-> FALSE]
pulled == [plain EXCEPT !.pull = "pinned"]
preview == [plain EXCEPT !.preview = TRUE]
deposit == [plain EXCEPT !.address = d1, !.attested = TRUE]

PlainShapes == {plain}
BriefShapes == {[plain EXCEPT !.ttl = 1]}
PullShapes == {preview, pulled}
PulledShapes == {pulled}
LiveShapes == {[pulled EXCEPT !.ttl = 1]}
HeldShapes ==
    LET brief == [plain EXCEPT !.ttl = 1]
    IN  {brief, [brief EXCEPT !.canSolve = FALSE], [brief EXCEPT !.payoutOk = FALSE],
         [brief EXCEPT !.eip712 = FALSE], [brief EXCEPT !.success = FALSE],
         [brief EXCEPT !.pull = "unpinned"]}
DepositShapes == {preview, deposit}
=============================================================================
