--------------------------- MODULE RecipientAcks ----------------------------
(***************************************************************************)
(* The verifier of a recipient's acknowledgements:                         *)
(* signer/src/shielded-recipient-acks.ts.  The recipient signs             *)
(* acknowledgements of two bindings; on the way one field of a message may *)
(* change, the signature may be another key's, and everything may arrive   *)
(* late and again.  The verifier picks its policy (the binding it trusts,  *)
(* the descriptor it holds, the subject it expects) itself.                *)
(*                                                                         *)
(* A binding is its challenge's nonce; a signature is the record it was    *)
(* made over and the key; a subject is the backup's commitment, the        *)
(* senders, the token's class and immutables, or the payment.              *)
(***************************************************************************)
EXTENDS Integers, FiniteSets

CONSTANTS ExpiryOf,     \* each binding's challengeExpiry
          ReceiptNonce, \* the receipt challenge
          Subjects, MaxSigned, MaxAcked, MaxDays

VARIABLES signedAcks, acked, today

ackVars == <<signedAcks, acked, today>>

Bindings == DOMAIN ExpiryOf
EnrollmentAcks == {"BackupPersistenceAck", "SenderRegistrationAck", "TokenRegistrationAck"}
AckTypes == EnrollmentAcks \cup {"PaymentReceiptAck"}
namesToken(type) == type \in {"TokenRegistrationAck", "PaymentReceiptAck"}

AcksInit == signedAcks = {} /\ acked = {} /\ today = 0

\* The members of a type are the ones it is encoded with; the others are "none" in every message of it.
ackMessage(type, binding, subject) ==
  [type |-> type, purpose |-> type, binding |-> binding, recipient |-> "own", subject |-> subject,
   token |-> IF namesToken(type) THEN "own" ELSE "none",
   network |-> IF type = "PaymentReceiptAck" THEN "own" ELSE "none",
   nonce |-> IF type = "PaymentReceiptAck" THEN ReceiptNonce ELSE binding,
   expiry |-> ExpiryOf[binding]]

\* A recipient may sign with another challenge's nonce or expiry.
recycled(m) ==
  {m} \cup {[m EXCEPT !.nonce = n] : n \in Bindings} \cup {[m EXCEPT !.expiry = d] : d \in 0..MaxDays}

signAck ==
  /\ Cardinality(signedAcks) < MaxSigned
  /\ \E type \in AckTypes, b \in Bindings, subject \in Subjects :
       \E m \in recycled(ackMessage(type, b, subject)) : signedAcks' = signedAcks \cup {m}
  /\ UNCHANGED <<acked, today>>

altered(m) ==
  {m} \cup {[m EXCEPT !.type = t] : t \in AckTypes}
      \cup {[m EXCEPT !.purpose = t] : t \in AckTypes}
      \cup {[m EXCEPT !.binding = b] : b \in Bindings}
      \cup {[m EXCEPT !.nonce = n] : n \in Bindings \cup {ReceiptNonce}}
      \cup {[m EXCEPT !.subject = s] : s \in Subjects}
      \cup {[m EXCEPT !.expiry = MaxDays], [m EXCEPT !.recipient = "other"]}
      \cup (IF namesToken(m.type) THEN {[m EXCEPT !.token = "other"]} ELSE {})
      \cup (IF m.type = "PaymentReceiptAck" THEN {[m EXCEPT !.network = "other"]} ELSE {})

\* A message of a type must carry that type's members and purpose to be encoded at all.
hashRecipientAck(m) ==
  /\ m.purpose = m.type
  /\ namesToken(m.type) <=> m.token # "none"
  /\ m.type = "PaymentReceiptAck" <=> m.network # "none"

\* Mutant: the acknowledgement's own nonce and expiry are believed.
boundToChallenge_Own(m, binding) == m.type = "PaymentReceiptAck" => m.nonce = ReceiptNonce

boundToChallenge(m, binding) ==
  IF m.type \in EnrollmentAcks THEN m.nonce = binding /\ m.expiry = ExpiryOf[binding]
                               ELSE m.nonce = ReceiptNonce

assertAckSubject(m, policy) ==
  /\ boundToChallenge(m, policy.binding)
  /\ m.subject = policy.expected
  /\ namesToken(m.type) => m.token = "own"
  /\ m.type = "PaymentReceiptAck" => m.network = "own"

\* Mutant: only the key is checked.
verifyRecipientSchnorr_Key(m, signature, key) == signature.key = key

verifyRecipientSchnorr(m, signature, key) == signature.key = key /\ signature.over = m

\* Mutant: an acknowledgement is taken after its challenge has expired.
unexpired_Never(m) == TRUE

unexpired(m) == today <= m.expiry

checkRecipientAck(m, signature, policy) ==
  /\ policy.descriptor = "own"    \* the binding's descriptor digest, recipient and network
  /\ m.binding = policy.binding
  /\ m.recipient = "own"
  /\ assertAckSubject(m, policy)
  /\ unexpired(m)
  /\ hashRecipientAck(m)
  /\ verifyRecipientSchnorr(m, signature, policy.descriptor)

\* Mutant: a second acknowledgement, of another subject, is a new one.
recipientAckReplayKey_Subject(m) == <<m.type, m.binding, m.nonce, m.subject>>

recipientAckReplayKey(m) == <<m.type, m.binding, m.nonce>>

\* The replay key is consumed last, atomically and durably.
verifyRecipientAck(m, signature, policy) ==
  /\ Cardinality(acked) < MaxAcked
  /\ checkRecipientAck(m, signature, policy)
  /\ \A a \in acked : recipientAckReplayKey(a.message) # recipientAckReplayKey(m)
  /\ acked' = acked \cup {[nth |-> Cardinality(acked) + 1, message |-> m, signature |-> signature,
                           policy |-> policy, day |-> today]}
  /\ UNCHANGED <<signedAcks, today>>

dayPasses == today < MaxDays /\ today' = today + 1 /\ UNCHANGED <<signedAcks, acked>>

AcksNext ==
  \/ signAck
  \/ \E s \in signedAcks, key \in {"own", "other"}, descriptor \in {"own", "other"}, b \in Bindings,
        expected \in Subjects :
       \E m \in altered(s) :
         verifyRecipientAck(m, [over |-> s, key |-> key],
                            [binding |-> b, descriptor |-> descriptor, expected |-> expected])
  \/ dayPasses

AckSpec == AcksInit /\ [][AcksNext]_ackVars

(* ------------------------------ properties ----------------------------- *)

\* The message an acceptance's policy asks for.
expectedAck(a) == ackMessage(a.message.type, a.policy.binding, a.policy.expected)

\* What the verifier accepted is what the recipient's key signed about the binding and the subject it
\* expected, before that binding's challenge expired, and only once per type and challenge, whatever
\* is changed, transplanted, delayed or sent again.  Code: verifyRecipientAck.
AcksSound ==
  /\ \A a \in acked :
       /\ a.message \in signedAcks /\ a.signature.key = "own" /\ a.day <= a.message.expiry
       /\ a.message = IF a.message.type \in EnrollmentAcks THEN expectedAck(a)
                      ELSE [expectedAck(a) EXCEPT !.expiry = a.message.expiry]
  /\ \A a, b \in acked :
       a.message.type = b.message.type /\ a.policy.binding = b.policy.binding => a = b
=============================================================================
