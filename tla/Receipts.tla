------------------------------ MODULE Receipts ------------------------------
(***************************************************************************)
(* What the user receives through: a deposit address, a signed claim, a    *)
(* recipient taken for ready.  Each is checked by a module of its own,     *)
(* none of which shares state with another.                                *)
(***************************************************************************)
EXTENDS DepositVerify, ClaimVerify, Readiness

\* What the user receives through: the deposit address shown is the user's own attested deal, a signed
\* claim is the transfer that was asked for, and a recipient taken for ready is a member of a current
\* allowlist, deployed as pinned.  Code: deposit-verify, claim-verify, shielded-readiness.
ReceiptsSound == DepositsAreTheDeal /\ ClaimsAreTheAsk /\ ReadinessSound
=============================================================================
