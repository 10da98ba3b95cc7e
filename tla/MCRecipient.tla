---------------------------- MODULE MCRecipient -----------------------------
(***************************************************************************)
(* Small instances of the recipient tool's parts, in one run: the journal, *)
(* the enrollment, the verifier of acknowledgements.  They keep different  *)
(* files; a behaviour picks one part and only that part moves.             *)
(***************************************************************************)
EXTENDS OperationJournal, Enrollment, RecipientAcks, TLC

CONSTANTS p1, p2, p3, p4

VARIABLE part

(* Two pairs of backup paths that share one; a challenge that expires      *)
(* today and one that expires tomorrow.                                    *)
MCOutPairs == {<<"usb", "safe">>, <<"cloud", "safe">>}
MCExpiryOf == <<0, 1>>

Parts == {"journal", "enroll", "acks"}

RecipientInit == part \in Parts /\ Init /\ EnrollInit /\ AcksInit

RecipientNext ==
  \/ part = "journal" /\ Next /\ UNCHANGED <<part, enrollVars, ackVars>>
  \/ part = "enroll" /\ EnrollNext /\ UNCHANGED <<part, vars, ackVars>>
  \/ part = "acks" /\ AcksNext /\ UNCHANGED <<part, vars, enrollVars>>

RecipientSpec == RecipientInit /\ [][RecipientNext]_<<part, vars, enrollVars, ackVars>>

(* The processes of an instance are interchangeable.                       *)
Symmetry == Permutations(Procs) \cup Permutations(Shells)
=============================================================================
