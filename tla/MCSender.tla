------------------------------ MODULE MCSender ------------------------------
(* The constants of the sender's runs: two fills and an approval from one  *)
(* key, the first fill dead before the second.                             *)
EXTENDS TxSender
CONSTANTS fillA, fillB, approval
Fills == {fillA, fillB}
OneFill == {fillA}
Deadlines == [f \in Fills |-> IF f = fillA THEN 2 ELSE 3]
OneDeadline == [f \in OneFill |-> 2]
Approvals == {approval}
=============================================================================
