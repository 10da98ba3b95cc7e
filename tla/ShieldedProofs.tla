--------------------------- MODULE ShieldedProofs ---------------------------
(***************************************************************************)
(* AcksSound holds of the acknowledgement verifier for all challenges,     *)
(* expiries and subjects, however many acknowledgements are signed,        *)
(* altered and accepted; ReadinessSound of the readiness verifier for all  *)
(* descriptors, ages, leads of the bridge's clock and bounds.              *)
(*                                                                         *)
(* AcksSound is not inductive: that an acceptance is the only one of its   *)
(* type and challenge rests on the replay key, which names the message's   *)
(* own nonce, so the invariant says of every acceptance which nonce that   *)
(* was; and that the message is the one expected rests on what a recipient *)
(* signs at all.                                                           *)
(*                                                                         *)
(* ReadinessSound speaks of acceptances only.  What makes it inductive is  *)
(* what every attestation of the own corridor says of the chain (Truthful),*)
(* while the chain moves on under it: a list it names was in force when it *)
(* was made, and stays the list of its block.                              *)
(*                                                                         *)
(* EnrollmentSound holds of the recipient's enrollment for any processes,  *)
(* backup paths and bounds.  It speaks of what was posted; the invariant   *)
(* speaks of every state a process has read and may still write back.  Its *)
(* heart is Backed: the backup such a state names carries the ack the      *)
(* state says, and is durable, unless that ack is of no enrollment under   *)
(* way (a restored copy's), in which case no request can be built of it.   *)
(*                                                                         *)
(* SignsOnlyAsked, ClaimsAreTheAsk and DepositsAreTheDeal hold whatever    *)
(* the venue and the bundler serve, for all requests, pins and allowlists. *)
(* None is inductive without the checks that were passed: the invariants   *)
(* keep those beside the types.  What the checks compare is the spelling   *)
(* of an address; that they compare equal only of one account (SameIsOne)  *)
(* and that a signature binds every field up to the spelling (OneDeal) is  *)
(* what carries them to the account that was asked for.                    *)
(*                                                                         *)
(* EscrowBinds holds of an escrowed order for all asks, windows, budgets   *)
(* and bids.  It speaks of an accepted fill; the invariant speaks of the   *)
(* final lock a prepared fill is owed under (Owed), which a reorganisation *)
(* cannot take, and of the order the depositor's signature opens.          *)
(***************************************************************************)
EXTENDS RecipientAcks, Receipts, Enrollment, EscrowBinding, TLAPS

-----------------------------------------------------------------------------
(* Acknowledgements. *)

\* The message of a type with a nonce and an expiry of its own.
Encoded(type, binding, subject, nonce, expiry) ==
  [type |-> type, purpose |-> type, binding |-> binding, recipient |-> "own", subject |-> subject,
   token |-> IF namesToken(type) THEN "own" ELSE "none",
   network |-> IF type = "PaymentReceiptAck" THEN "own" ELSE "none",
   nonce |-> nonce, expiry |-> expiry]

\* A signed message is an encoding's, but for its nonce and its expiry.
Signed(m) ==
  \E type \in AckTypes, b \in Bindings, subject \in Subjects : \E n, d : m = Encoded(type, b, subject, n, d)

SignedForm == \A m \in signedAcks : Signed(m)

\* The challenge an acknowledgement of a type answers.
ChallengeOf(type, binding) == IF type \in EnrollmentAcks THEN binding ELSE ReceiptNonce

\* What an acceptance establishes when it happens, and nothing undoes.
Accepted(a) ==
  /\ a.message \in signedAcks /\ a.signature.key = "own"
  /\ a.message.binding = a.policy.binding
  /\ a.message.nonce = ChallengeOf(a.message.type, a.policy.binding)
  /\ a.message.subject = a.policy.expected
  /\ a.message.type \in EnrollmentAcks => a.message.expiry = ExpiryOf[a.policy.binding]
  /\ a.day <= a.message.expiry

OncePerKey ==
  \A a, b \in acked : recipientAckReplayKey(a.message) = recipientAckReplayKey(b.message) => a = b

AckInv == SignedForm /\ (\A a \in acked : Accepted(a)) /\ OncePerKey

\* Whatever the signer recycles, the message keeps an encoding's form.
LEMMA SignedHasForm ==
  ASSUME NEW type \in AckTypes, NEW b \in Bindings, NEW subject \in Subjects,
         NEW m \in recycled(ackMessage(type, b, subject))
  PROVE  Signed(m)
<1> DEFINE e == ackMessage(type, b, subject)
<1>1. e = Encoded(type, b, subject, e.nonce, e.expiry)
  BY DEF ackMessage, Encoded
<1>2. ASSUME NEW n PROVE [e EXCEPT !.nonce = n] = Encoded(type, b, subject, n, e.expiry)
  BY DEF ackMessage, Encoded
<1>3. ASSUME NEW d PROVE [e EXCEPT !.expiry = d] = Encoded(type, b, subject, e.nonce, d)
  BY DEF ackMessage, Encoded
<1>4. m = e \/ (\E n : m = [e EXCEPT !.nonce = n]) \/ (\E d : m = [e EXCEPT !.expiry = d])
  BY DEF recycled
<1> HIDE DEF e
<1> QED BY <1>1, <1>2, <1>3, <1>4 DEF Signed

\* A message of an encoding's form whose challenge, binding and subject are the expected ones is the
\* expected message, but for the expiry.
LEMMA ExpectedMessage ==
  ASSUME NEW m, Signed(m), NEW binding, NEW expected,
         m.binding = binding, m.subject = expected, m.nonce = ChallengeOf(m.type, binding)
  PROVE  m = [ackMessage(m.type, binding, expected) EXCEPT !.expiry = m.expiry]
<1>1. PICK type \in AckTypes, b \in Bindings, subject \in Subjects :
        \E n, d : m = Encoded(type, b, subject, n, d)
  BY DEF Signed
<1>2. PICK n, d : m = Encoded(type, b, subject, n, d)
  BY <1>1
<1>3. m.type = type /\ m.binding = b /\ m.subject = subject /\ m.nonce = n /\ m.expiry = d
  BY <1>2 DEF Encoded
<1>4. type = "PaymentReceiptAck" <=> type \notin EnrollmentAcks
  BY DEF AckTypes, EnrollmentAcks
<1>5. n = IF type = "PaymentReceiptAck" THEN ReceiptNonce ELSE b
  BY <1>3, <1>4 DEF ChallengeOf
<1>6. [ackMessage(type, b, subject) EXCEPT !.expiry = d]
        = Encoded(type, b, subject, IF type = "PaymentReceiptAck" THEN ReceiptNonce ELSE b, d)
  BY DEF ackMessage, Encoded
<1> QED BY <1>2, <1>3, <1>5, <1>6

\* An enrollment acknowledgement that names the challenge's expiry too is the expected message.
LEMMA ExpectedEnrollment ==
  ASSUME NEW m, NEW binding, NEW expected,
         m.expiry = ExpiryOf[binding],
         m = [ackMessage(m.type, binding, expected) EXCEPT !.expiry = m.expiry]
  PROVE  m = ackMessage(m.type, binding, expected)
<1>1. ASSUME NEW type
      PROVE  [ackMessage(type, binding, expected) EXCEPT !.expiry = ExpiryOf[binding]]
               = ackMessage(type, binding, expected)
  BY DEF ackMessage
<1> QED BY <1>1

\* AckInv implies the property.
LEMMA InvIsSound == AckInv => AcksSound
<1> SUFFICES ASSUME AckInv PROVE AcksSound
  OBVIOUS
<1>1. ASSUME NEW a \in acked
      PROVE  a.message = IF a.message.type \in EnrollmentAcks THEN expectedAck(a)
                         ELSE [expectedAck(a) EXCEPT !.expiry = a.message.expiry]
  <2>1. Accepted(a) /\ Signed(a.message)
    BY DEF AckInv, SignedForm, Accepted
  <2>2. a.message = [expectedAck(a) EXCEPT !.expiry = a.message.expiry]
    BY <2>1, ExpectedMessage DEF Accepted, expectedAck
  <2>3. a.message.type \in EnrollmentAcks => a.message = expectedAck(a)
    BY <2>1, <2>2, ExpectedEnrollment DEF Accepted, expectedAck
  <2> QED BY <2>2, <2>3
<1>2. ASSUME NEW a \in acked, NEW b \in acked,
             a.message.type = b.message.type, a.policy.binding = b.policy.binding
      PROVE  a = b
  <2>1. recipientAckReplayKey(a.message) = recipientAckReplayKey(b.message)
    BY <1>2 DEF AckInv, Accepted, recipientAckReplayKey
  <2> QED BY <2>1 DEF AckInv, OncePerKey
<1>3. \A a \in acked : a.message \in signedAcks /\ a.signature.key = "own" /\ a.day <= a.message.expiry
  BY DEF AckInv, Accepted
<1> QED BY <1>1, <1>2, <1>3 DEF AcksSound

\* What one acceptance adds is what Accepted says, and its key is new.
LEMMA AcceptanceKeeps ==
  ASSUME AckInv, NEW s \in signedAcks, NEW m, NEW key, NEW policy,
         verifyRecipientAck(m, [over |-> s, key |-> key], policy)
  PROVE  AckInv'
<1> DEFINE r == [nth |-> Cardinality(acked) + 1, message |-> m,
                 signature |-> [over |-> s, key |-> key], policy |-> policy, day |-> today]
<1>1. acked' = acked \cup {r} /\ signedAcks' = signedAcks /\ today' = today
  BY DEF verifyRecipientAck
<1>2. checkRecipientAck(m, [over |-> s, key |-> key], policy)
  BY DEF verifyRecipientAck
<1>3. m = s /\ key = "own"
  BY <1>2 DEF checkRecipientAck, verifyRecipientSchnorr
<1>4. /\ m.binding = policy.binding /\ m.subject = policy.expected
      /\ m.nonce = ChallengeOf(m.type, policy.binding)
      /\ m.type \in EnrollmentAcks => m.expiry = ExpiryOf[policy.binding]
  BY <1>2 DEF checkRecipientAck, assertAckSubject, boundToChallenge, ChallengeOf
<1>5. today <= m.expiry
  BY <1>2 DEF checkRecipientAck, unexpired
<1>6. SignedForm'
  BY <1>1 DEF AckInv, SignedForm, Signed
<1>7. \A a \in acked' : Accepted(a)'
  <2> SUFFICES ASSUME NEW a \in acked' PROVE Accepted(a)'
    OBVIOUS
  <2>1. CASE a \in acked
    BY <1>1, <2>1 DEF AckInv, Accepted
  <2>2. CASE a = r
    <3>1. a.message = m /\ a.signature.key = key /\ a.policy = policy /\ a.day = today
      BY <2>2
    <3> QED BY <1>1, <1>3, <1>4, <1>5, <3>1 DEF Accepted
  <2> HIDE DEF r
  <2> QED BY <1>1, <2>1, <2>2
<1>8. OncePerKey'
  <2>1. \A a \in acked : recipientAckReplayKey(a.message) # recipientAckReplayKey(r.message)
    BY DEF verifyRecipientAck
  <2> HIDE DEF r
  <2> QED BY <1>1, <2>1 DEF AckInv, OncePerKey
<1> QED BY <1>6, <1>7, <1>8 DEF AckInv

\* A signature more, or a day, takes nothing from what was accepted.
LEMMA NothingUndone ==
  ASSUME AckInv, acked' = acked, signedAcks \subseteq signedAcks', \A m \in signedAcks' : Signed(m)
  PROVE  AckInv'
<1>1. SignedForm'
  BY DEF SignedForm, Signed
<1>2. \A a \in acked' : Accepted(a)'
  BY DEF AckInv, Accepted
<1>3. OncePerKey'
  BY DEF AckInv, OncePerKey
<1> QED BY <1>1, <1>2, <1>3 DEF AckInv

\* Every step keeps the invariant of the acknowledgements.
LEMMA StepKeepsAcks == ASSUME AckInv, [AcksNext]_ackVars PROVE AckInv'
<1>1. CASE signAck
  <2>1. PICK type \in AckTypes, b \in Bindings, subject \in Subjects :
          \E m \in recycled(ackMessage(type, b, subject)) : signedAcks' = signedAcks \cup {m}
    BY <1>1 DEF signAck
  <2>2. PICK m \in recycled(ackMessage(type, b, subject)) : signedAcks' = signedAcks \cup {m}
    BY <2>1
  <2>3. Signed(m)
    BY SignedHasForm
  <2>4. \A n \in signedAcks' : Signed(n)
    BY <2>2, <2>3 DEF AckInv, SignedForm
  <2> QED BY <1>1, <2>2, <2>4, NothingUndone DEF signAck
<1>2. ASSUME NEW s \in signedAcks, NEW key, NEW policy, NEW m,
             verifyRecipientAck(m, [over |-> s, key |-> key], policy)
      PROVE  AckInv'
  BY <1>2, AcceptanceKeeps
<1>3. CASE dayPasses
  BY <1>3, NothingUndone DEF dayPasses, AckInv, SignedForm
<1>4. CASE UNCHANGED ackVars
  BY <1>4, NothingUndone DEF ackVars, AckInv, SignedForm
<1> QED BY <1>1, <1>2, <1>3, <1>4 DEF AcksNext

\* What the verifier accepts is what the recipient signed about what the verifier expects, in time,
\* and once per type and challenge.  Code: verifyRecipientAck.
THEOREM AcksTheorem == AckSpec => []AcksSound
<1>1. AcksInit => AckInv
  BY DEF AcksInit, AckInv, SignedForm, OncePerKey
<1>2. AckInv /\ [AcksNext]_ackVars => AckInv'
  BY StepKeepsAcks
<1> QED BY <1>1, <1>2, InvIsSound, PTL DEF AckSpec

-----------------------------------------------------------------------------
(* Readiness records. *)

Lists ==
  /\ allowlists \in Seq([members : SUBSET Descriptors, since : Nat])
  /\ Len(allowlists) >= 1
  /\ unix \in Nat /\ learned \in 0..Len(allowlists)

\* The list of block n was in force at time t, which is past.
InForceAt(n, t) ==
  /\ n \in 1..Len(allowlists) /\ t \in Int /\ t <= unix
  /\ n = Len(allowlists) \/ allowlists[n + 1].since >= t

\* What the bridge attests of its own corridor is so.
Truthful(a) ==
  LET r == a.record
  IN /\ r.attestedAt \in Int /\ r.attestedAt - BridgeLead <= unix
     /\ a.type # "RecipientDeployment" =>
          InForceAt(r.block, r.attestedAt - BridgeLead) /\ r.root = allowlists[r.block].members
     /\ a.type = "Membership" /\ r.positive = "true" => r.descriptor \in r.root
     /\ a.type = "RecipientDeployment" /\ r.positive = "true" => deployed # "none" /\ r.class = deployed

AllTruthful == \A a \in attestations : a.domain = "own" => Truthful(a)

\* An acceptance of a membership: its list, in force within the age, and no older than what was known.
Current(v) ==
  \E n \in 1..Len(allowlists) :
    /\ v.descriptor \in allowlists[n].members
    /\ InForceAt(n, v.at - MaxAgeSeconds - BridgeLead)
    /\ v.knew > 0 => n >= v.knew \/ allowlists[n].members = allowlists[v.knew].members

Sound(v) ==
  /\ v.at \in Nat /\ v.knew \in 0..Len(allowlists)
  /\ IF v.type = "RecipientDeployment" THEN deployed = "pinned" ELSE Current(v)

AllSound == \A v \in verified : Sound(v)

ReadyInv == Lists /\ AllTruthful /\ AllSound

\* The invariant implies the property.
LEMMA InvIsReady == ReadyInv => ReadinessSound
<1> SUFFICES ASSUME ReadyInv, NEW v \in verified
             PROVE  IF v.type = "RecipientDeployment" THEN deployed = "pinned"
                    ELSE \E n \in DOMAIN allowlists :
                           /\ v.descriptor \in allowlists[n].members
                           /\ inForce(n, v.at)
                           /\ v.knew > 0 => n >= v.knew \/ allowlists[n].members = allowlists[v.knew].members
  BY DEF ReadinessSound
<1>1. CASE v.type = "RecipientDeployment"
  BY <1>1 DEF ReadyInv, AllSound, Sound
<1>2. CASE v.type # "RecipientDeployment"
  <2>1. PICK n \in 1..Len(allowlists) :
          /\ v.descriptor \in allowlists[n].members
          /\ InForceAt(n, v.at - MaxAgeSeconds - BridgeLead)
          /\ v.knew > 0 => n >= v.knew \/ allowlists[n].members = allowlists[v.knew].members
    BY <1>2 DEF ReadyInv, AllSound, Sound, Current
  <2>2. inForce(n, v.at)
    BY <2>1 DEF InForceAt, inForce
  <2>3. n \in DOMAIN allowlists
    BY DEF ReadyInv, Lists
  <2> QED BY <1>2, <2>1, <2>2, <2>3
<1> QED BY <1>1, <1>2

\* A list that was in force at a time past stays so when a block is added now, or when time passes.
LEMMA StaysInForce ==
  ASSUME Lists, NEW n, NEW t, InForceAt(n, t), NEW e \in [members : SUBSET Descriptors, since : Nat],
         \/ allowlists' = allowlists
         \/ allowlists' = Append(allowlists, e) /\ e.since = unix,
         unix' \in Nat, unix <= unix'
  PROVE  InForceAt(n, t)' /\ allowlists'[n] = allowlists[n]
<1>1. CASE allowlists' = allowlists
  BY <1>1 DEF Lists, InForceAt
<1>2. CASE allowlists' = Append(allowlists, e) /\ e.since = unix
  <2>1. Len(allowlists') = Len(allowlists) + 1 /\ allowlists'[Len(allowlists) + 1] = e
    BY <1>2 DEF Lists
  <2>2. \A k \in 1..Len(allowlists) : allowlists'[k] = allowlists[k]
    BY <1>2 DEF Lists
  <2>3. n \in 1..Len(allowlists) /\ Len(allowlists) \in Nat
    BY DEF InForceAt, Lists
  <2>4. CASE n = Len(allowlists)
    BY <1>2, <2>1, <2>2, <2>3, <2>4 DEF InForceAt
  <2>5. CASE n # Len(allowlists)
    <3>1. n + 1 \in 1..Len(allowlists)
      BY <2>3, <2>5
    <3> QED BY <2>1, <2>2, <2>3, <2>5, <3>1 DEF InForceAt
  <2> QED BY <2>4, <2>5
<1> QED BY <1>1, <1>2

\* Blocks, deployments and time that pass leave attestations truthful and acceptances sound.
LEMMA ChainMovesOn ==
  ASSUME ReadyInv, NEW e \in [members : SUBSET Descriptors, since : Nat],
         \/ allowlists' = allowlists
         \/ allowlists' = Append(allowlists, e) /\ e.since = unix,
         unix' \in Nat, unix <= unix', deployed' = deployed \/ deployed = "none",
         UNCHANGED learned
  PROVE  /\ Lists'
         /\ \A a : Truthful(a) => Truthful(a)'
         /\ \A v : Sound(v) => Sound(v)'
<1>1. Lists'
  <2>1. allowlists' \in Seq([members : SUBSET Descriptors, since : Nat]) /\ Len(allowlists') >= Len(allowlists)
    BY DEF ReadyInv, Lists
  <2> QED BY <2>1 DEF ReadyInv, Lists
<1>2. ASSUME NEW a, Truthful(a) PROVE Truthful(a)'
  <2>1. a.type # "RecipientDeployment" =>
          InForceAt(a.record.block, a.record.attestedAt - BridgeLead)'
            /\ a.record.root = allowlists'[a.record.block].members
    BY <1>2, StaysInForce DEF Truthful, ReadyInv
  <2>2. a.record.attestedAt \in Int /\ a.record.attestedAt - BridgeLead <= unix'
    BY <1>2, ReadinessConstants DEF Truthful, ReadyInv, Lists
  <2>3. a.type = "RecipientDeployment" /\ a.record.positive = "true" =>
          deployed' # "none" /\ a.record.class = deployed'
    BY <1>2 DEF Truthful
  <2> QED BY <1>2, <2>1, <2>2, <2>3 DEF Truthful
<1>3. ASSUME NEW v, Sound(v) PROVE Sound(v)'
  <2>1. v.at \in Nat /\ v.knew \in 0..Len(allowlists')
    BY <1>3 DEF Sound, ReadyInv, Lists
  <2>2. CASE v.type = "RecipientDeployment"
    BY <1>3, <2>1, <2>2 DEF Sound
  <2>3. CASE v.type # "RecipientDeployment"
    <3>1. PICK n \in 1..Len(allowlists) :
            /\ v.descriptor \in allowlists[n].members
            /\ InForceAt(n, v.at - MaxAgeSeconds - BridgeLead)
            /\ v.knew > 0 => n >= v.knew \/ allowlists[n].members = allowlists[v.knew].members
      BY <1>3, <2>3 DEF Sound, Current
    <3>2. InForceAt(n, v.at - MaxAgeSeconds - BridgeLead)' /\ allowlists'[n] = allowlists[n]
      BY <3>1, StaysInForce DEF ReadyInv
    <3>3. v.knew > 0 => allowlists'[v.knew] = allowlists[v.knew]
      <4>1. allowlists \in Seq([members : SUBSET Descriptors, since : Nat]) BY DEF ReadyInv, Lists
      <4>2. \A k \in 1..Len(allowlists) : allowlists'[k] = allowlists[k] BY <4>1
      <4>3. v.knew \in 0..Len(allowlists) BY <1>3 DEF Sound
      <4> QED BY <4>1, <4>2, <4>3
    <3>4. n \in 1..Len(allowlists')
      BY <3>2 DEF InForceAt
    <3>5. Current(v)'
      BY <3>1, <3>2, <3>3, <3>4 DEF Current
    <3> QED BY <2>1, <2>3, <3>5 DEF Sound
  <2> QED BY <2>2, <2>3
<1> QED BY <1>1, <1>2, <1>3

\* What the bridge signs of its own corridor is truthful.
LEMMA BridgeIsTruthful ==
  ASSUME ReadyInv, NEW type \in ReadinessTypes, NEW d \in Descriptors
  PROVE  Truthful([type |-> type, domain |-> "own", record |-> readinessRecord(type, seen(type, d))])
<1> DEFINE r == readinessRecord(type, seen(type, d))
<1> DEFINE n == Len(allowlists)
<1>1. r.attestedAt = unix + BridgeLead /\ r.block = n
  BY DEF readinessRecord, Unset, READINESS_TYPE_STRINGS, ReadinessTypes, seen
<1>2. type # "RecipientDeployment" => r.root = allowlists[n].members
  BY DEF readinessRecord, Unset, READINESS_TYPE_STRINGS, ReadinessTypes, seen
<1>3. type = "Membership" /\ r.positive = "true" => r.descriptor \in allowlists[n].members
  BY DEF readinessRecord, Unset, READINESS_TYPE_STRINGS, ReadinessTypes, seen, says
<1>4. type = "RecipientDeployment" /\ r.positive = "true" => deployed # "none" /\ r.class = deployed
  BY DEF readinessRecord, Unset, READINESS_TYPE_STRINGS, ReadinessTypes, seen, says
<1>5. InForceAt(n, r.attestedAt - BridgeLead) /\ r.attestedAt \in Int /\ r.attestedAt - BridgeLead <= unix
  BY <1>1, ReadinessConstants DEF InForceAt, ReadyInv, Lists
<1> DEFINE a == [type |-> type, domain |-> "own", record |-> r]
<1>6. a.type = type /\ a.record = r
  OBVIOUS
<1> HIDE DEF r, n, a
<1>7. type # "RecipientDeployment" =>
        InForceAt(a.record.block, a.record.attestedAt - BridgeLead)
          /\ a.record.root = allowlists[a.record.block].members
  BY <1>1, <1>2, <1>5, <1>6
<1>8. Truthful(a)
  BY <1>3, <1>4, <1>5, <1>6, <1>7, <1>2 DEF Truthful
<1> QED BY <1>8 DEF a, r

\* Every list is one of descriptors, final at some time.
LEMMA ListsOfDescriptors ==
  ASSUME Lists, NEW n \in 1..Len(allowlists)
  PROVE  allowlists[n].members \in SUBSET Descriptors /\ allowlists[n].since \in Nat
<1> DEFINE ListType == [members : SUBSET Descriptors, since : Nat]
<1>1. \A e \in ListType : e.members \in SUBSET Descriptors /\ e.since \in Nat
  OBVIOUS
<1>2. allowlists \in Seq(ListType)
  BY DEF Lists
<1> HIDE DEF ListType
<1>3. allowlists[n] \in ListType
  BY <1>2
<1> QED BY <1>1, <1>3

\* A list in force at a time was in force at an earlier one.
LEMMA InForceBefore ==
  ASSUME NEW n, NEW t, NEW s \in Int, s <= t, Lists, InForceAt(n, t)
  PROVE  InForceAt(n, s)
<1>1. n # Len(allowlists) => n + 1 \in 1..Len(allowlists)
  BY DEF InForceAt, Lists
<1>2. n # Len(allowlists) => allowlists[n + 1].since \in Nat
  BY <1>1, ListsOfDescriptors
<1> QED BY <1>2 DEF InForceAt, Lists

\* An acceptance is sound when it is made, and what it teaches is a block of the chain.
LEMMA AcceptanceIsSound ==
  ASSUME ReadyInv, NEW a \in attestations, NEW key, NEW type \in ReadinessTypes, NEW r, NEW d \in Descriptors,
         NEW policy \in policies(type, d), verifyReadinessRecord(type, r, [over |-> a, key |-> key], policy)
  PROVE  /\ type = "RootUpdate" => r.block \in 1..Len(allowlists)
         /\ type # "RootUpdate" =>
              Sound([type |-> type, descriptor |-> d, knew |-> learned, at |-> unix])
<1>1. a = [type |-> type, record |-> r, domain |-> "own"]
  BY DEF verifyReadinessRecord, recoverReadinessAddress
<1>2. a.type = type /\ a.record = r /\ a.domain = "own"
  BY <1>1
<1>3. Truthful(a)
  BY <1>2 DEF ReadyInv, AllTruthful
<1>4. /\ r.attestedAt \in Int /\ r.attestedAt - BridgeLead <= unix
      /\ type # "RecipientDeployment" =>
           InForceAt(r.block, r.attestedAt - BridgeLead) /\ r.root = allowlists[r.block].members
      /\ type = "Membership" /\ r.positive = "true" => r.descriptor \in r.root
      /\ type = "RecipientDeployment" /\ r.positive = "true" => deployed # "none" /\ r.class = deployed
  BY <1>2, <1>3 DEF Truthful
<1>5. type # "RootUpdate" => r.positive = "true"
  BY DEF verifyReadinessRecord, positive
<1>6. r.attestedAt + MaxAgeSeconds >= unix /\ r.block >= policy.minBlock
  BY DEF verifyReadinessRecord, fresh, reachesBlock
<1> DEFINE v == [type |-> type, descriptor |-> d, knew |-> learned, at |-> unix]
<1>7. v.type = type /\ v.descriptor = d /\ v.knew = learned /\ v.at = unix
  OBVIOUS
<1>8. v.at \in Nat /\ v.knew \in 0..Len(allowlists)
  BY <1>7 DEF ReadyInv, Lists
<1> HIDE DEF v
<1>9. CASE type = "RootUpdate"
  BY <1>4, <1>9 DEF InForceAt
<1>10. CASE type = "RecipientDeployment"
  <2>1. r.class = "pinned"
    BY <1>10 DEF verifyReadinessRecord, subjectMatches
  <2>2. Sound(v)
    BY <1>4, <1>5, <1>7, <1>8, <1>10, <2>1 DEF Sound
  <2> QED BY <1>10, <2>2 DEF v
<1>11. CASE type = "Membership"
  <2>1. policy.expected.descriptor = d
    <3>1. \/ policy.expected = [descriptor |-> d, root |-> Unset.root]
          \/ policy.expected = [descriptor |-> d, root |-> allowlists[learned].members]
      BY <1>11 DEF policies
    <3> QED BY <3>1
  <2>2. r.descriptor = d /\ policy.expected.root \in {{"unset"}, r.root}
    BY <1>11, <2>1 DEF verifyReadinessRecord, subjectMatches, Unset
  <2>3. d \in allowlists[r.block].members
    BY <1>4, <1>5, <1>11, <2>2
  <2>4. InForceAt(r.block, unix - MaxAgeSeconds - BridgeLead)
    <3>1. unix - MaxAgeSeconds - BridgeLead \in Int
             /\ unix - MaxAgeSeconds - BridgeLead <= r.attestedAt - BridgeLead
      BY <1>4, <1>6, ReadinessConstants DEF ReadyInv, Lists
    <3> QED BY <1>4, <1>11, <3>1, InForceBefore DEF ReadyInv
  <2>5. learned > 0 => r.block >= learned \/ allowlists[r.block].members = allowlists[learned].members
    <3> SUFFICES ASSUME learned > 0
                 PROVE  r.block >= learned \/ allowlists[r.block].members = allowlists[learned].members
      OBVIOUS
    <3>1. policy.minBlock = learned \/ policy.expected.root = allowlists[learned].members
      BY <1>11 DEF policies
    <3>2. allowlists[learned].members \in SUBSET Descriptors
      BY ListsOfDescriptors DEF ReadyInv, Lists
    <3>3. allowlists[learned].members # {"unset"}
      BY <3>2, ReadinessConstants
    <3> QED BY <1>4, <1>6, <1>11, <2>2, <3>1, <3>3
  <2>6. r.block \in 1..Len(allowlists)
    BY <1>4, <1>11 DEF InForceAt
  <2>7. Current(v)
    BY <1>7, <2>3, <2>4, <2>5, <2>6 DEF Current
  <2>8. Sound(v)
    BY <1>7, <1>8, <1>11, <2>7 DEF Sound
  <2> QED BY <1>11, <2>8 DEF v
<1> QED BY <1>9, <1>10, <1>11 DEF ReadinessTypes

\* The readiness invariant holds at the start.
LEMMA InitIsReady == ReadinessInit => ReadyInv
<1> SUFFICES ASSUME ReadinessInit PROVE ReadyInv
  OBVIOUS
<1>1. Lists
  <2>1. [members |-> {}, since |-> 0] \in [members : SUBSET Descriptors, since : Nat]
    OBVIOUS
  <2> QED BY <2>1 DEF ReadinessInit, Lists
<1> QED BY <1>1 DEF ReadinessInit, ReadyInv, AllTruthful, AllSound

\* A step that adds no attestation and accepts nothing: the chain moves on.
LEMMA OnlyTheChain ==
  ASSUME ReadyInv, NEW e \in [members : SUBSET Descriptors, since : Nat],
         \/ allowlists' = allowlists
         \/ allowlists' = Append(allowlists, e) /\ e.since = unix,
         unix' \in Nat, unix <= unix', deployed' = deployed \/ deployed = "none",
         UNCHANGED <<learned, attestations, verified>>
  PROVE  ReadyInv'
<1>1. /\ Lists'
      /\ \A a : Truthful(a) => Truthful(a)'
      /\ \A v : Sound(v) => Sound(v)'
  BY ChainMovesOn
<1> QED BY <1>1 DEF ReadyInv, AllTruthful, AllSound

\* An attestation added to the others, truthful if of the own corridor.
LEMMA AttestationAdded ==
  ASSUME ReadyInv, NEW a, a.domain = "own" => Truthful(a), attestations' = attestations \cup {a},
         UNCHANGED <<allowlists, deployed, verified, learned, unix>>
  PROVE  ReadyInv'
<1>1. Lists'
  BY DEF ReadyInv, Lists
<1>2. \A b : Truthful(b) => Truthful(b)'
  BY DEF Truthful, InForceAt
<1>3. \A v : Sound(v) => Sound(v)'
  BY DEF Sound, Current, InForceAt
<1> QED BY <1>1, <1>2, <1>3 DEF ReadyInv, AllTruthful, AllSound

\* Every step keeps the readiness invariant.
LEMMA StepIsReady == ReadyInv /\ [ReadinessNext]_readinessVars => ReadyInv'
<1> SUFFICES ASSUME ReadyInv, [ReadinessNext]_readinessVars PROVE ReadyInv'
  OBVIOUS
<1> DEFINE none == [members |-> {}, since |-> 0]
<1>0. none \in [members : SUBSET Descriptors, since : Nat] /\ unix \in Nat /\ unix <= unix
  BY DEF ReadyInv, Lists
<1>1. ASSUME NEW d \in Descriptors, rootFinal(d) PROVE ReadyInv'
  <2> DEFINE e == [members |-> toggled(allowlists[Len(allowlists)].members, d), since |-> unix]
  <2>1. allowlists[Len(allowlists)].members \in SUBSET Descriptors
    BY ListsOfDescriptors DEF ReadyInv, Lists
  <2>2. toggled(allowlists[Len(allowlists)].members, d) \in SUBSET Descriptors
    BY <2>1 DEF toggled
  <2>3. e \in [members : SUBSET Descriptors, since : Nat] /\ e.since = unix
    BY <1>0, <2>2
  <2>4. allowlists' = Append(allowlists, e) /\ UNCHANGED <<deployed, attestations, verified, learned, unix>>
    BY <1>1 DEF rootFinal
  <2> HIDE DEF e
  <2> QED BY <1>0, <2>3, <2>4, OnlyTheChain
<1>2. ASSUME NEW class, deploys(class) PROVE ReadyInv'
  <2>1. deployed = "none" /\ UNCHANGED <<allowlists, attestations, verified, learned, unix>>
    BY <1>2 DEF deploys
  <2> HIDE DEF none
  <2> QED BY <1>0, <2>1, OnlyTheChain
<1>3. ASSUME unixPasses PROVE ReadyInv'
  <2>1. unix' = unix + 1 /\ UNCHANGED <<allowlists, deployed, attestations, verified, learned>>
    BY <1>3 DEF unixPasses
  <2>2. unix' \in Nat /\ unix <= unix'
    BY <1>0, <2>1
  <2> HIDE DEF none
  <2> QED BY <1>0, <2>1, <2>2, OnlyTheChain
<1>4. ASSUME NEW type \in ReadinessTypes, NEW d \in Descriptors, attests(type, d) PROVE ReadyInv'
  <2> DEFINE a == [type |-> type, domain |-> "own", record |-> readinessRecord(type, seen(type, d))]
  <2>1. Truthful(a)
    BY BridgeIsTruthful
  <2>2. attestations' = attestations \cup {a} /\ UNCHANGED <<allowlists, deployed, verified, learned, unix>>
    BY <1>4 DEF attests
  <2> HIDE DEF a
  <2> QED BY <2>1, <2>2, AttestationAdded
<1>5. ASSUME NEW type \in ReadinessTypes, NEW d \in Descriptors, attestsElsewhere(type, d) PROVE ReadyInv'
  <2>1. PICK a : /\ a.domain = "other" /\ attestations' = attestations \cup {a}
                 /\ UNCHANGED <<allowlists, deployed, verified, learned, unix>>
    BY <1>5 DEF attestsElsewhere
  <2> QED BY <2>1, AttestationAdded
<1>6. ASSUME NEW a \in attestations, NEW key, NEW type \in ReadinessTypes, NEW r, NEW d \in Descriptors,
             NEW policy \in policies(type, d), accepts(type, r, [over |-> a, key |-> key], d, policy)
      PROVE  ReadyInv'
  <2> DEFINE v == [type |-> type, descriptor |-> d, knew |-> learned, at |-> unix]
  <2>1. /\ verifyReadinessRecord(type, r, [over |-> a, key |-> key], policy)
        /\ UNCHANGED <<allowlists, deployed, attestations, unix>>
        /\ type = "RootUpdate" => learned' = r.block /\ verified' = verified
        /\ type # "RootUpdate" => learned' = learned /\ verified' = verified \cup {v}
    BY <1>6 DEF accepts
  <2>2. /\ type = "RootUpdate" => r.block \in 1..Len(allowlists)
        /\ type # "RootUpdate" => Sound(v)
    BY <2>1, AcceptanceIsSound
  <2> HIDE DEF v
  <2>3. Lists'
    BY <2>1, <2>2 DEF ReadyInv, Lists
  <2>4. \A b : Truthful(b) => Truthful(b)'
    BY <2>1 DEF Truthful, InForceAt
  <2>5. \A w : Sound(w) => Sound(w)'
    BY <2>1 DEF Sound, Current, InForceAt
  <2>6. AllTruthful'
    BY <2>1, <2>4 DEF ReadyInv, AllTruthful
  <2>7. AllSound'
    BY <2>1, <2>2, <2>5 DEF ReadyInv, AllSound
  <2> QED BY <2>3, <2>6, <2>7 DEF ReadyInv
<1>7. CASE UNCHANGED readinessVars
  <2>1. UNCHANGED <<allowlists, deployed, attestations, verified, learned, unix>>
    BY <1>7 DEF readinessVars
  <2> HIDE DEF none
  <2> QED BY <1>0, <2>1, OnlyTheChain
<1> QED BY <1>1, <1>2, <1>3, <1>4, <1>5, <1>6, <1>7 DEF ReadinessNext

\* A readiness record accepted was so on the chain within the allowed age, and no older than what the
\* caller had learned: signer/src/shielded-readiness.ts, verifyReadinessRecord, for all constants.
THEOREM ReadinessTheorem == ReadinessSpec => []ReadinessSound
<1>1. ReadinessSpec => []ReadyInv
  BY InitIsReady, StepIsReady, PTL DEF ReadinessSpec
<1> QED BY <1>1, InvIsReady, PTL

-----------------------------------------------------------------------------
(* Enrollment. *)

\* What state.json holds, and what a process may have read of it.
EnrollState == [readable : BOOLEAN, registered : BOOLEAN,
                pending : [binding : Int, ack : Int], tokenAck : Int,
                commitment : Nat, backupAck : Int, bindingId : Int]
Shell == [step : {"ended", "challenge", "pend", "seal", "first", "second", "sync", "record", "answer"},
          saw : EnrollState, live : BOOLEAN, binding : Int, backup : Nat]

Backup == 1..Len(sealed)
Sealing == [ack : Int, outs : OutPairs]

EnrollTypes ==
  /\ shells \in [Shells -> Shell]
  /\ store \in EnrollState
  /\ copies \in [Paths -> Nat]
  /\ synced \in SUBSET Paths
  /\ sealed \in Seq(Sealing)
  /\ issued \in Nat /\ drills \in Nat

\* The states at large: the file's, and what each process has read of it.
AtLarge(s) == s = store \/ \E p \in Shells : s = shells[p].saw

\* The acks so far are of challenges issued, or made up, so far.
Known(a) == a \in -drills..issued

StateKnown(s) ==
  Known(s.pending.binding) /\ Known(s.pending.ack) /\ Known(s.tokenAck) /\ Known(s.backupAck)

KnownSoFar ==
  /\ \A s : AtLarge(s) => StateKnown(s)
  /\ \A p \in Shells : shells[p].step = "pend" => Known(shells[p].binding)
  /\ \A c \in Backup : Known(sealed[c].ack)

\* An enrollment under way is for the challenge of ack a.
UnderWay(a) ==
  \/ \E s : AtLarge(s) /\ s.pending.ack = a
  \/ \E p \in Shells : shells[p].step = "pend" /\ shells[p].binding = a

Stale(a) == a = Nil \/ ~UnderWay(a)

\* Both copies of the backup are on disk, durably.
Recorded(c) == \A i \in 1..2 : copies[sealed[c].outs[i]] = c /\ sealed[c].outs[i] \in synced

\* The backup a state names is one sealed with the ack the state says; it is on disk, or it was
\* restored from and its ack is stale.
Backed(s) ==
  s.commitment # Nil =>
    /\ s.commitment \in Backup
    /\ s.backupAck = sealed[s.commitment].ack
    /\ Recorded(s.commitment) \/ Stale(s.backupAck)

\* The copies on disk are of backups sealed, and a durable entry is there.
CopiesSealed ==
  /\ \A f \in Paths : copies[f] = Nil \/ copies[f] \in Backup
  /\ \A f \in synced : copies[f] # Nil

Writing == {"first", "second", "sync", "record"}

\* A backup being written carries what its process read; what is linked so far is there, and an entry
\* that may be unlinked again is not a durable one.
WritesWell(p) ==
  LET sh == shells[p]
      out(i) == sealed[sh.backup].outs[i]
  IN /\ sh.step \in Writing =>
          sh.backup \in Backup /\ sealed[sh.backup].ack = backupContents(sh.saw)
     /\ sh.step = "second" => copies[out(1)] = sh.backup /\ out(1) \notin synced
     /\ sh.step = "sync" => copies[out(1)] = sh.backup /\ copies[out(2)] = sh.backup
     /\ sh.step = "record" => out(1) \in synced /\ out(2) \in synced

\* No two processes write one backup.
WritesApart ==
  \A p, q \in Shells :
    shells[p].step \in Writing /\ shells[q].step \in Writing /\ shells[p].backup = shells[q].backup
    => p = q

WritesOwn == (\A p \in Shells : WritesWell(p)) /\ WritesApart

\* What a process that has ended still holds names nothing.
EndedHoldsNothing == \A p \in Shells : shells[p].step = "ended" => shells[p] = Ended

\* What was posted is backed for good.
PostedBacked ==
  \A r \in posted :
    OxideToken => r.commitment \in Backup /\ Recorded(r.commitment) /\ sealed[r.commitment].ack = r.binding

EnrollInv ==
  /\ EnrollTypes /\ KnownSoFar /\ (\A s : AtLarge(s) => Backed(s))
  /\ CopiesSealed /\ WritesOwn /\ EndedHoldsNothing /\ PostedBacked

-----------------------------------------------------------------------------
(* What the steps have in common. *)

\* Nothing recorded is lost: the backups sealed stay, and those on disk durably stay there.
BackupsStay ==
  /\ \A c \in Backup : c \in Backup' /\ sealed'[c] = sealed[c]
  /\ \A c \in Backup : Recorded(c) => Recorded(c)'

\* Whatever comes under way was under way, or is a challenge nobody has seen.
NothingRevives == \A a : UnderWay(a)' => UnderWay(a) \/ a = Nil \/ ~Known(a)

\* What a backup file seals is of its type.
LEMMA SealedTypes ==
  ASSUME EnrollInv, NEW c \in Backup
  PROVE  /\ sealed[c] \in Sealing
         /\ sealed[c].ack \in Int
         /\ sealed[c].outs[1] \in Paths /\ sealed[c].outs[2] \in Paths
<1>1. sealed[c] \in Sealing
  BY DEF EnrollInv, EnrollTypes, Backup
<1> DEFINE o == sealed[c].outs
<1>2. o \in OutPairs /\ sealed[c].ack \in Int
  BY <1>1 DEF Sealing
<1> HIDE DEF o
<1>3. o[1] \in {o[1], o[2]} /\ o[2] \in {o[1], o[2]}
  OBVIOUS
<1>4. o[1] \in Paths /\ o[2] \in Paths
  BY <1>2, <1>3, Zenon DEF Paths
<1> QED BY <1>1, <1>2, <1>4 DEF o

\* A state that names the backup of a state at large is backed like it.
LEMMA BackedStays ==
  ASSUME EnrollInv, BackupsStay, NothingRevives, NEW s, NEW t, AtLarge(s),
         t.commitment = s.commitment, t.backupAck = s.backupAck
  PROVE  Backed(t)'
<1>1. SUFFICES ASSUME t.commitment # Nil PROVE Backed(t)'
  BY DEF Backed
<1>2. /\ s.commitment \in Backup /\ s.backupAck = sealed[s.commitment].ack
      /\ Recorded(s.commitment) \/ Stale(s.backupAck)
  BY <1>1 DEF EnrollInv, Backed
<1>3. Known(s.backupAck)
  BY DEF EnrollInv, KnownSoFar, StateKnown
<1>4. Stale(s.backupAck) => Stale(s.backupAck)'
  BY <1>3 DEF NothingRevives, Stale
<1>5. Recorded(s.commitment) => Recorded(s.commitment)'
  BY <1>2 DEF BackupsStay
<1>6. s.commitment \in Backup' /\ s.backupAck = sealed'[s.commitment].ack
  BY <1>2 DEF BackupsStay
<1> QED BY <1>2, <1>4, <1>5, <1>6 DEF Backed

\* What was posted stays backed.
LEMMA PostedStays ==
  ASSUME EnrollInv, BackupsStay, posted' = posted
  PROVE  PostedBacked'
BY DEF EnrollInv, PostedBacked, BackupsStay

\* A step that leaves the backup files alone.
FilesStay == copies' = copies /\ synced' = synced /\ sealed' = sealed

\* Where the files stay, what is backed stays backed.
LEMMA FilesStayBacked ==
  ASSUME EnrollInv, FilesStay
  PROVE  BackupsStay /\ CopiesSealed'
BY DEF EnrollInv, FilesStay, BackupsStay, Recorded, Backup, CopiesSealed

\* The processes that write a backup after the step did so before it.
NobodyStartsWriting == \A q \in Shells : shells'[q].step \in Writing => shells'[q] = shells[q]

\* Where the files stay and nobody starts to write, every write is still its own.
LEMMA WritesStay ==
  ASSUME EnrollInv, FilesStay, NobodyStartsWriting
  PROVE  WritesOwn'
BY DEF EnrollInv, FilesStay, NobodyStartsWriting, WritesOwn, WritesWell, WritesApart, Writing, Backup

\* A state that differs from another at most in what it says of the registration and the binding.
Like(t, s) ==
  /\ t.pending = s.pending /\ t.tokenAck = s.tokenAck
  /\ t.commitment = s.commitment /\ t.backupAck = s.backupAck

\* Counts that grow forget no challenge.
LEMMA Grow ==
  ASSUME NEW d \in Nat, NEW e \in Nat, NEW i \in Nat, NEW j \in Nat, d <= e, i <= j
  PROVE  (-d..i) \subseteq (-e..j) /\ 0 \in -d..i
OBVIOUS

\* No challenge is forgotten.
CountsGrow == issued <= issued' /\ drills <= drills'

\* The next challenge, real or drilled, is one nobody has seen.
LEMMA Fresh ==
  ASSUME NEW d \in Nat, NEW i \in Nat
  PROVE  /\ i + 1 \notin -d..i /\ i + 1 \in -d..(i + 1) /\ i + 1 \in Int
         /\ -(d + 1) \notin -d..i /\ -(d + 1) \in -(d + 1)..i /\ -(d + 1) \in Int
OBVIOUS

\* Counts that stay grow.
LEMMA Same ==
  ASSUME EnrollTypes, issued' = issued, drills' = drills
  PROVE  CountsGrow
BY DEF EnrollTypes, CountsGrow

\* What the states at large say of a backup, one of them said before, or nothing.
NothingNewSaid ==
  \A t : AtLarge(t)' =>
    \/ t.commitment = Nil
    \/ \E s : AtLarge(s) /\ t.commitment = s.commitment /\ t.backupAck = s.backupAck

\* A step that says nothing new keeps the invariant.
LEMMA SaidBefore ==
  ASSUME EnrollInv, EnrollTypes', KnownSoFar', EndedHoldsNothing', BackupsStay, NothingRevives,
         CopiesSealed', WritesOwn', posted' = posted \/ PostedBacked', NothingNewSaid
  PROVE  EnrollInv'
<1>1. PostedBacked'
  BY PostedStays
<1>2. ASSUME NEW t, AtLarge(t)' PROVE Backed(t)'
  <2>1. CASE t.commitment = Nil
    BY <2>1 DEF Backed
  <2>2. CASE \E s : AtLarge(s) /\ t.commitment = s.commitment /\ t.backupAck = s.backupAck
    BY <2>2, BackedStays
  <2> QED BY <1>2, <2>1, <2>2 DEF NothingNewSaid
<1> QED BY <1>1, <1>2 DEF EnrollInv

\* A step that leaves the files, what is posted, and what any state says of a backup alone.
LEMMA QuietStep ==
  ASSUME EnrollInv, EnrollTypes', KnownSoFar', EndedHoldsNothing', FilesStay, NobodyStartsWriting,
         NothingRevives, posted' = posted \/ PostedBacked', NothingNewSaid
  PROVE  EnrollInv'
BY FilesStayBacked, WritesStay, SaidBefore

\* A state at large is a state.
LEMMA AtLargeTypes ==
  ASSUME EnrollInv, NEW s, AtLarge(s)
  PROVE  s \in EnrollState
BY DEF EnrollInv, EnrollTypes, AtLarge, Shell

\* Where the files stay, what they seal stays known.
LEMMA SealedKnown ==
  ASSUME EnrollInv, FilesStay, \A a \in Int : Known(a) => Known(a)'
  PROVE  (\A c \in Backup : Known(sealed[c].ack))'
<1>1. Backup' = Backup /\ sealed' = sealed
  BY DEF FilesStay, Backup
<1>2. \A c \in Backup : sealed[c].ack \in Int /\ Known(sealed[c].ack)
  BY SealedTypes DEF EnrollInv, KnownSoFar
<1> QED BY <1>1, <1>2

\* A step that changes nothing a state says but of the registration.
LEMMA ReadStep ==
  ASSUME EnrollInv, EnrollTypes', EndedHoldsNothing', FilesStay, NobodyStartsWriting, CountsGrow,
         posted' = posted \/ PostedBacked',
         \A q \in Shells : shells'[q].step = "pend" => shells'[q] = shells[q],
         \A t : AtLarge(t)' => t = initState \/ \E s : AtLarge(s) /\ Like(t, s)
  PROVE  EnrollInv'
<1>0. /\ issued \in Nat /\ drills \in Nat /\ issued' \in Nat /\ drills' \in Nat
  BY DEF EnrollInv, EnrollTypes
<1>1. \A a \in Int : Known(a) => Known(a)'
  BY <1>0, Grow DEF Known, CountsGrow
<1>2. Known(0)'
  BY <1>0, Grow DEF Known, CountsGrow
<1>3. \A s : AtLarge(s) => s \in EnrollState
  BY AtLargeTypes
<1>4. ASSUME NEW t, AtLarge(t)' PROVE StateKnown(t)'
  <2>1. CASE t = initState
    BY <1>2, <2>1 DEF initState, NoPending, StateKnown, Nil
  <2>2. CASE \E s : AtLarge(s) /\ Like(t, s)
    <3>1. PICK s : AtLarge(s) /\ Like(t, s)
      BY <2>2
    <3>2. StateKnown(s) /\ s \in EnrollState
      BY <1>3, <3>1 DEF EnrollInv, KnownSoFar
    <3> QED BY <1>1, <3>1, <3>2 DEF StateKnown, Like, EnrollState
  <2> QED BY <1>4, <2>1, <2>2
<1>5. (\A c \in Backup : Known(sealed[c].ack))'
  BY <1>1, SealedKnown
<1>6. (\A q \in Shells : shells[q].step = "pend" => Known(shells[q].binding))'
  BY <1>1 DEF EnrollInv, EnrollTypes, KnownSoFar, Shell
<1>7. KnownSoFar'
  BY <1>4, <1>5, <1>6 DEF KnownSoFar
<1>8. NothingRevives
  BY DEF NothingRevives, UnderWay, Like, initState, NoPending
<1>9. NothingNewSaid
  BY DEF Like, initState, NothingNewSaid
<1> QED BY <1>7, <1>8, <1>9, QuietStep

-----------------------------------------------------------------------------
(* The actions. *)

\* The types of what a command starts from.
LEMMA StartTypes == Ended \in Shell /\ initState \in EnrollState
<1>1. initState \in EnrollState
  BY DEF initState, EnrollState, NoPending, Nil
<1> QED BY <1>1 DEF Ended, Shell, Nil

\* setup, and the first step of enroll start: the registration is recorded.
LEMMA SetupStep ==
  ASSUME EnrollInv, NEW p \in Shells, setup(p) \/ \E live \in BOOLEAN : startReads(p, live)
  PROVE  EnrollInv'
<1>1. EnrollTypes /\ EndedHoldsNothing
  BY DEF EnrollInv
<1>2. store' \in EnrollState /\ Like(store', store)
  BY <1>1 DEF setup, startReads, registerAndRecord, EnrollTypes, EnrollState, Like
<1>3. /\ FilesStay /\ CountsGrow /\ posted' = posted /\ issued' = issued /\ drills' = drills
  BY <1>1, Same DEF setup, startReads, FilesStay, CountsGrow, EnrollTypes
<1>4. \/ shells' = shells
      \/ \E live \in BOOLEAN :
            shells' = [shells EXCEPT ![p] = [Ended EXCEPT !.step = "challenge", !.saw = store',
                                                          !.live = live]]
  BY DEF setup, startReads
<1>5. ASSUME NEW live \in BOOLEAN
      PROVE  LET sh == [Ended EXCEPT !.step = "challenge", !.saw = store', !.live = live]
             IN  sh \in Shell /\ sh.step = "challenge" /\ sh.saw = store'
  BY <1>2, StartTypes DEF Shell
<1>6. \A q \in Shells : \/ shells'[q] = shells[q]
                         \/ (shells'[q].step = "challenge" /\ shells'[q].saw = store')
  BY <1>1, <1>4, <1>5 DEF EnrollTypes
<1>7. EnrollTypes'
  BY <1>1, <1>2, <1>3, <1>4, <1>5 DEF EnrollTypes, FilesStay
<1>8. EndedHoldsNothing' /\ NobodyStartsWriting
  BY <1>1, <1>6 DEF EndedHoldsNothing, NobodyStartsWriting, Writing
<1>9. \A q \in Shells : shells'[q].step = "pend" => shells'[q] = shells[q]
  BY <1>6
<1>10. \A t : AtLarge(t)' => \E s : AtLarge(s) /\ Like(t, s)
  <2>1. ASSUME NEW t, AtLarge(t)' PROVE \E s : AtLarge(s) /\ Like(t, s)
    <3>1. CASE t = store'
      BY <1>2, <3>1 DEF AtLarge
    <3>2. CASE \E q \in Shells : t = shells[q].saw
      BY <3>2 DEF AtLarge, Like
    <3> QED BY <1>6, <2>1, <3>1, <3>2 DEF AtLarge
  <2> QED BY <2>1
<1> QED BY <1>3, <1>7, <1>8, <1>9, <1>10, ReadStep

\* The first step of backup, and a command that fails.
LEMMA BackupReadsStep ==
  ASSUME EnrollInv, NEW p \in Shells, backupReads(p) \/ fails(p)
  PROVE  EnrollInv'
<1>1. EnrollTypes /\ EndedHoldsNothing
  BY DEF EnrollInv
<1> DEFINE sh == [Ended EXCEPT !.step = "seal", !.saw = store]
<1>2. sh \in Shell /\ sh.step = "seal" /\ sh.saw = store
  BY <1>1, StartTypes DEF Shell, EnrollTypes
<1>3. /\ FilesStay /\ CountsGrow /\ posted' = posted /\ issued' = issued /\ drills' = drills
      /\ store' = store
  BY <1>1, Same DEF backupReads, fails, FilesStay, CountsGrow, EnrollTypes
<1>4. shells' = [shells EXCEPT ![p] = sh] \/ shells' = [shells EXCEPT ![p] = Ended]
  BY DEF backupReads, fails
<1> HIDE DEF sh
<1>5. \A q \in Shells : shells'[q] \in {shells[q], sh, Ended}
  BY <1>1, <1>4 DEF EnrollTypes
<1>6. EnrollTypes'
  BY <1>1, <1>2, <1>3, <1>4, StartTypes DEF EnrollTypes, FilesStay
<1>7. Ended.step = "ended" /\ Ended.saw = initState
  BY DEF Ended
<1>8. EndedHoldsNothing' /\ NobodyStartsWriting
  BY <1>1, <1>2, <1>5, <1>7 DEF EndedHoldsNothing, NobodyStartsWriting, Writing
<1>9. \A q \in Shells : shells'[q].step = "pend" => shells'[q] = shells[q]
  BY <1>2, <1>5, <1>7
<1>10. \A t : AtLarge(t)' => t = initState \/ \E s : AtLarge(s) /\ Like(t, s)
  <2>1. ASSUME NEW t, AtLarge(t)' PROVE t = initState \/ AtLarge(t)
    BY <1>2, <1>3, <1>5, <1>7, <2>1 DEF AtLarge
  <2> QED BY <2>1 DEF Like
<1> QED BY <1>3, <1>6, <1>8, <1>9, <1>10, ReadStep

\* A challenge is issued, or made up: nobody has seen it.
LEMMA ChallengeStep ==
  ASSUME EnrollInv, NEW p \in Shells, challenge(p)
  PROVE  EnrollInv'
<1>1. EnrollTypes /\ EndedHoldsNothing /\ KnownSoFar
  BY DEF EnrollInv
<1>2. /\ issued \in Nat /\ drills \in Nat
      /\ shells[p] \in Shell /\ shells[p].step = "challenge"
  BY <1>1 DEF EnrollTypes, challenge
<1>3. PICK b \in Int :
        /\ shells' = [shells EXCEPT ![p].step = "pend", ![p].binding = b]
        /\ b \notin -drills..issued /\ b \in -drills'..issued'
        /\ issued' \in Nat /\ drills' \in Nat /\ CountsGrow
  <2>1. CASE shells[p].live
    <3>1. issued' = issued + 1 /\ drills' = drills
      BY <2>1 DEF challenge
    <3>2. shells' = [shells EXCEPT ![p].step = "pend", ![p].binding = issued + 1]
      BY <2>1, <3>1 DEF challenge
    <3>3. /\ issued + 1 \notin -drills..issued /\ issued + 1 \in Int
          /\ issued + 1 \in -drills'..issued'
      BY <1>2, <3>1, Fresh
    <3>4. CountsGrow /\ issued' \in Nat /\ drills' \in Nat
      BY <1>2, <3>1 DEF CountsGrow
    <3> QED BY <3>2, <3>3, <3>4
  <2>2. CASE ~shells[p].live
    <3>1. drills' = drills + 1 /\ issued' = issued
      BY <2>2 DEF challenge
    <3>2. shells' = [shells EXCEPT ![p].step = "pend", ![p].binding = -(drills + 1)]
      BY <2>2, <3>1 DEF challenge
    <3>3. /\ -(drills + 1) \notin -drills..issued /\ -(drills + 1) \in Int
          /\ -(drills + 1) \in -drills'..issued'
      BY <1>2, <3>1, Fresh
    <3>4. CountsGrow /\ issued' \in Nat /\ drills' \in Nat
      BY <1>2, <3>1 DEF CountsGrow
    <3> QED BY <3>2, <3>3, <3>4
  <2> QED BY <2>1, <2>2
<1> DEFINE sh == [shells[p] EXCEPT !.step = "pend", !.binding = b]
<1>4. shells' = [shells EXCEPT ![p] = sh]
  BY <1>1, <1>2, <1>3 DEF EnrollTypes, Shell
<1>5. sh \in Shell /\ sh.step = "pend" /\ sh.saw = shells[p].saw /\ sh.binding = b
  BY <1>2, <1>3 DEF Shell
<1> HIDE DEF sh
<1>6. \A q \in Shells : shells'[q] = IF q = p THEN sh ELSE shells[q]
  BY <1>1, <1>4 DEF EnrollTypes
<1>7. FilesStay /\ posted' = posted /\ store' = store
  BY DEF challenge, FilesStay
<1>8. EnrollTypes'
  BY <1>1, <1>3, <1>4, <1>5, <1>7 DEF EnrollTypes, FilesStay
<1>9. EndedHoldsNothing' /\ NobodyStartsWriting
  BY <1>1, <1>5, <1>6 DEF EndedHoldsNothing, NobodyStartsWriting, Writing
<1>10. \A t : AtLarge(t)' => AtLarge(t)
  BY <1>5, <1>6, <1>7 DEF AtLarge
<1>11. \A a \in Int : Known(a) => Known(a)'
  BY <1>2, <1>3, Grow DEF Known, CountsGrow
<1>12. KnownSoFar'
  <2>1. \A t : AtLarge(t)' => StateKnown(t)'
    <3>1. ASSUME NEW t, AtLarge(t)' PROVE StateKnown(t)'
      <4>1. StateKnown(t) /\ t \in EnrollState
        BY <1>1, <1>10, <3>1, AtLargeTypes DEF KnownSoFar
      <4> QED BY <1>11, <4>1 DEF StateKnown, EnrollState
    <3> QED BY <3>1
  <2>2. (\A q \in Shells : shells[q].step = "pend" => Known(shells[q].binding))'
    <3>1. ASSUME NEW q \in Shells, shells'[q].step = "pend"
          PROVE  Known(shells[q].binding)'
      <4>1. CASE q = p
        BY <1>3, <1>5, <1>6, <4>1 DEF Known
      <4>2. CASE q # p
        <5>1. shells[q] = shells'[q] /\ shells[q].binding \in Int
          BY <1>1, <1>6, <4>2 DEF EnrollTypes, Shell
        <5> QED BY <1>1, <1>11, <3>1, <5>1 DEF KnownSoFar
      <4> QED BY <4>1, <4>2
    <3> QED BY <3>1
  <2>3. (\A c \in Backup : Known(sealed[c].ack))'
    BY <1>7, <1>11, SealedKnown
  <2> QED BY <2>1, <2>2, <2>3 DEF KnownSoFar
<1>13. NothingRevives
  BY <1>3, <1>5, <1>6, <1>10 DEF NothingRevives, UnderWay, Known
<1>14. NothingNewSaid
  BY <1>10 DEF NothingNewSaid
<1> QED BY <1>7, <1>8, <1>9, <1>12, <1>13, <1>14, QuietStep

\* A process ends and writes back what it read, with the enrollment changed.
EndsWriting(p, t) ==
  /\ shells' = [shells EXCEPT ![p] = Ended]
  /\ store' = t
  /\ issued' = issued /\ drills' = drills

\* What is at large then, and what is under way.
LEMMA EndsWritingFacts ==
  ASSUME EnrollInv, NEW p \in Shells, NEW t \in EnrollState, EndsWriting(p, t), FilesStay,
         StateKnown(t)
  PROVE  /\ EnrollTypes' /\ KnownSoFar' /\ EndedHoldsNothing' /\ NobodyStartsWriting
         /\ \A s : AtLarge(s)' => s = t \/ s = initState \/ AtLarge(s)
         /\ \A a : UnderWay(a)' => UnderWay(a) \/ a = Nil \/ t.pending.ack = a
<1>1. EnrollTypes /\ EndedHoldsNothing /\ KnownSoFar
  BY DEF EnrollInv
<1>2. Ended.step = "ended" /\ Ended.saw = initState /\ initState.pending.ack = Nil
  BY DEF Ended, initState, NoPending
<1>3. \A q \in Shells : shells'[q] = IF q = p THEN Ended ELSE shells[q]
  BY <1>1 DEF EndsWriting, EnrollTypes
<1>4. EnrollTypes'
  BY <1>1, StartTypes DEF EndsWriting, EnrollTypes, FilesStay
<1>5. EndedHoldsNothing' /\ NobodyStartsWriting
  BY <1>1, <1>2, <1>3 DEF EndedHoldsNothing, NobodyStartsWriting, Writing
<1>6. \A s : AtLarge(s)' => s = t \/ s = initState \/ AtLarge(s)
  BY <1>2, <1>3 DEF AtLarge, EndsWriting
<1>7. \A a : UnderWay(a)' => UnderWay(a) \/ a = Nil \/ t.pending.ack = a
  BY <1>2, <1>3, <1>6 DEF UnderWay
<1>8. \A a : Known(a)' <=> Known(a)
  BY DEF Known, EndsWriting
<1>9. KnownSoFar'
  <2>1. \A s : AtLarge(s)' => StateKnown(s)'
    <3>1. StateKnown(initState)
      <4>1. Known(0)
        BY <1>1, Grow DEF Known, EnrollTypes
      <4> QED BY <4>1 DEF initState, NoPending, StateKnown, Nil
    <3> QED BY <1>1, <1>6, <1>8, <3>1 DEF KnownSoFar, StateKnown
  <2>2. (\A q \in Shells : shells[q].step = "pend" => Known(shells[q].binding))'
    BY <1>1, <1>2, <1>3, <1>8 DEF KnownSoFar
  <2>3. (\A c \in Backup : Known(sealed[c].ack))'
    BY <1>8, SealedKnown
  <2> QED BY <2>1, <2>2, <2>3 DEF KnownSoFar
<1> QED BY <1>4, <1>5, <1>6, <1>7, <1>9

\* enroll start pends its challenge, with the ack or without.
LEMMA StartWritesStep ==
  ASSUME EnrollInv, NEW p \in Shells, startWrites(p)
  PROVE  EnrollInv'
<1> DEFINE sh == shells[p]
           ack == signTokenRegistrationAck(sh.saw, sh.binding)
           t == [sh.saw EXCEPT !.tokenAck = ack, !.pending = [binding |-> sh.binding, ack |-> ack]]
<1>1. EnrollTypes /\ KnownSoFar
  BY DEF EnrollInv
<1>2. sh \in Shell /\ sh.step = "pend" /\ sh.saw \in EnrollState /\ AtLarge(sh.saw)
  BY <1>1 DEF EnrollTypes, startWrites, Shell, AtLarge
<1>3. Known(sh.binding) /\ sh.binding \in Int /\ UnderWay(sh.binding)
  BY <1>1, <1>2 DEF KnownSoFar, Shell, UnderWay
<1>4. Known(Nil)
  BY <1>1, Grow DEF Known, EnrollTypes, Nil
<1>5. ack \in {sh.binding, Nil}
  BY DEF signTokenRegistrationAck
<1>6. EndsWriting(p, t) /\ FilesStay /\ posted' = posted
  BY DEF startWrites, EndsWriting, FilesStay
<1>7. ack \in Int /\ Known(ack)
  BY <1>3, <1>4, <1>5 DEF Nil
<1> HIDE DEF ack
<1>8. t \in EnrollState /\ t.pending.ack = ack /\ t.pending.binding = sh.binding /\ t.tokenAck = ack
      /\ t.commitment = sh.saw.commitment /\ t.backupAck = sh.saw.backupAck
  BY <1>2, <1>3, <1>7 DEF EnrollState
<1>9. StateKnown(t)
  BY <1>1, <1>2, <1>3, <1>7, <1>8 DEF StateKnown, KnownSoFar
<1> HIDE DEF t, sh
<1>10. NothingRevives
  BY <1>3, <1>5, <1>6, <1>8, <1>9, EndsWritingFacts DEF NothingRevives
<1>11. NothingNewSaid
  BY <1>2, <1>6, <1>8, <1>9, EndsWritingFacts DEF initState, NothingNewSaid
<1> QED BY <1>6, <1>8, <1>9, <1>10, <1>11, EndsWritingFacts, QuietStep

\* enroll submit ends the enrollment when the API projects it.
LEMMA SubmitAnsweredStep ==
  ASSUME EnrollInv, NEW p \in Shells, submitAnswered(p)
  PROVE  EnrollInv'
<1> DEFINE sh == shells[p]
           t == [sh.saw EXCEPT !.pending = NoPending, !.tokenAck = sh.saw.pending.ack,
                               !.bindingId = sh.saw.pending.binding]
<1>1. EnrollTypes /\ KnownSoFar
  BY DEF EnrollInv
<1>2. sh \in Shell /\ sh.saw \in EnrollState /\ AtLarge(sh.saw)
  BY <1>1 DEF EnrollTypes, Shell, AtLarge
<1>4. Known(Nil)
  BY <1>1, Grow DEF Known, EnrollTypes, Nil
<1>6. EndsWriting(p, t) /\ FilesStay /\ posted' = posted
  BY DEF submitAnswered, EndsWriting, FilesStay
<1>7. NoPending \in [binding : Int, ack : Int] /\ NoPending.ack = Nil /\ NoPending.binding = Nil
  BY DEF NoPending, Nil
<1>8. t \in EnrollState /\ t.pending = NoPending /\ t.tokenAck = sh.saw.pending.ack
      /\ t.commitment = sh.saw.commitment /\ t.backupAck = sh.saw.backupAck
  BY <1>2, <1>7 DEF EnrollState
<1>9. StateKnown(t)
  BY <1>1, <1>2, <1>4, <1>7, <1>8 DEF StateKnown, KnownSoFar
<1> HIDE DEF t, sh
<1>10. NothingRevives
  BY <1>6, <1>7, <1>8, <1>9, EndsWritingFacts DEF NothingRevives
<1>11. NothingNewSaid
  BY <1>2, <1>6, <1>8, <1>9, EndsWritingFacts DEF initState, NothingNewSaid
<1> QED BY <1>6, <1>8, <1>9, <1>10, <1>11, EndsWritingFacts, QuietStep

\* What the backup steps leave as it was.
Elsewhere == posted' = posted /\ issued' = issued /\ drills' = drills

\* Where the counts stay, what is known stays the same.
LEMMA KnownSame ==
  ASSUME issued' = issued, drills' = drills
  PROVE  \A a : Known(a)' <=> Known(a)
BY DEF Known

\* backup records a backup that is on disk, in both copies.
LEMMA RecordBackupStep ==
  ASSUME EnrollInv, NEW p \in Shells, recordBackup(p)
  PROVE  EnrollInv'
<1> DEFINE sh == shells[p]
           t == [sh.saw EXCEPT !.commitment = sh.backup, !.backupAck = backupContents(sh.saw)]
<1>1. EnrollTypes /\ KnownSoFar
  BY DEF EnrollInv
<1>2. sh \in Shell /\ sh.saw \in EnrollState /\ AtLarge(sh.saw) /\ sh.step = "record"
  BY <1>1 DEF EnrollTypes, Shell, AtLarge, recordBackup
<1>3. sh.backup \in Backup /\ sealed[sh.backup].ack = backupContents(sh.saw)
  BY <1>2 DEF EnrollInv, WritesOwn, WritesWell, Writing
<1>4. Recorded(sh.backup)
  <2>1. \A i \in 1..2 : copies[sealed[sh.backup].outs[i]] = sh.backup
    BY DEF recordBackup, outOf
  <2>2. sealed[sh.backup].outs[1] \in synced /\ sealed[sh.backup].outs[2] \in synced
    BY <1>2 DEF EnrollInv, WritesOwn, WritesWell
  <2>3. \A i \in 1..2 : i = 1 \/ i = 2
    OBVIOUS
  <2> QED BY <2>1, <2>2, <2>3 DEF Recorded
<1>5. backupContents(sh.saw) \in Int /\ Known(backupContents(sh.saw))
  BY <1>1, <1>3, SealedTypes DEF KnownSoFar
<1>6. EndsWriting(p, t) /\ FilesStay /\ posted' = posted
  BY DEF recordBackup, EndsWriting, FilesStay
<1>7. sh.backup \in Nat \ {0}
  BY <1>1, <1>3 DEF EnrollTypes, Backup
<1>8. t \in EnrollState /\ t.pending = sh.saw.pending /\ t.tokenAck = sh.saw.tokenAck
      /\ t.commitment = sh.backup /\ t.backupAck = backupContents(sh.saw)
  BY <1>2, <1>5, <1>7 DEF EnrollState
<1>9. StateKnown(t)
  BY <1>1, <1>2, <1>5, <1>8 DEF StateKnown, KnownSoFar
<1> HIDE DEF t, sh
<1>10. NothingRevives
  <2>1. UnderWay(t.pending.ack)
    BY <1>2, <1>8 DEF UnderWay
  <2> QED BY <1>6, <1>8, <1>9, <2>1, EndsWritingFacts DEF NothingRevives
<1>11. BackupsStay /\ CopiesSealed' /\ WritesOwn'
  BY <1>6, <1>8, <1>9, EndsWritingFacts, FilesStayBacked, WritesStay
<1>12. \A s : s = t => Backed(s)'
  <2>1. sh.backup \in Backup' /\ sealed'[sh.backup].ack = backupContents(sh.saw)
    BY <1>3, <1>11 DEF BackupsStay
  <2>2. \A c : c = sh.backup => Recorded(c)'
    BY <1>3, <1>4, <1>11 DEF BackupsStay
  <2> QED BY <1>8, <2>1, <2>2 DEF Backed, Recorded
<1>13. ASSUME NEW s, AtLarge(s)' PROVE Backed(s)'
  <2>1. CASE s = t
    BY <1>12, <2>1
  <2>2. CASE s = initState
    BY <2>2 DEF Backed, initState
  <2>3. CASE AtLarge(s)
    BY <1>10, <1>11, <2>3, BackedStays
  <2> QED BY <1>6, <1>8, <1>9, <1>13, <2>1, <2>2, <2>3, EndsWritingFacts
<1>14. PostedBacked'
  BY <1>6, <1>11, PostedStays
<1> QED BY <1>6, <1>8, <1>9, <1>11, <1>13, <1>14, EndsWritingFacts DEF EnrollInv

\* A step that only moves a process on, or ends it, leaves every state at large as it was.
MovesOn(p, sh) ==
  /\ shells' = [shells EXCEPT ![p] = sh]
  /\ sh \in Shell /\ sh.step # "pend"
  /\ sh = Ended \/ (sh.saw = shells[p].saw /\ sh.step # "ended")
  /\ store' = store /\ issued' = issued /\ drills' = drills

\* A process that moves on with a state it had brings nothing new to large.
LEMMA MovesOnFacts ==
  ASSUME EnrollInv, NEW p \in Shells, NEW sh, MovesOn(p, sh)
  PROVE  /\ shells' \in [Shells -> Shell]
         /\ \A q \in Shells : shells'[q] = IF q = p THEN sh ELSE shells[q]
         /\ EndedHoldsNothing' /\ NothingRevives
         /\ \A s : AtLarge(s)' => s = initState \/ AtLarge(s)
         /\ \A s : AtLarge(s)' => StateKnown(s)'
         /\ (\A q \in Shells : shells[q].step = "pend" => Known(shells[q].binding))'
<1>1. EnrollTypes /\ EndedHoldsNothing /\ KnownSoFar
  BY DEF EnrollInv
<1>2. Ended.step = "ended" /\ Ended.saw = initState /\ initState.pending.ack = Nil
  BY DEF Ended, initState, NoPending
<1>3. \A q \in Shells : shells'[q] = IF q = p THEN sh ELSE shells[q]
  BY <1>1 DEF MovesOn, EnrollTypes
<1>4. shells' \in [Shells -> Shell]
  BY <1>1 DEF MovesOn, EnrollTypes
<1>5. EndedHoldsNothing'
  BY <1>1, <1>3 DEF EndedHoldsNothing, MovesOn
<1>6. \A s : AtLarge(s)' => s = initState \/ AtLarge(s)
  BY <1>2, <1>3 DEF AtLarge, MovesOn
<1>7. NothingRevives
  BY <1>2, <1>3, <1>6 DEF NothingRevives, UnderWay, MovesOn
<1>8. \A a : Known(a)' <=> Known(a)
  BY KnownSame DEF MovesOn
<1>9. \A s : AtLarge(s)' => StateKnown(s)'
  <2>1. Known(0)
    BY <1>1, Grow DEF Known, EnrollTypes
  <2>2. StateKnown(initState)
    BY <2>1 DEF initState, NoPending, StateKnown, Nil
  <2> QED BY <1>1, <1>6, <1>8, <2>2 DEF KnownSoFar, StateKnown
<1>10. (\A q \in Shells : shells[q].step = "pend" => Known(shells[q].binding))'
  BY <1>1, <1>3, <1>8 DEF KnownSoFar, MovesOn
<1> QED BY <1>3, <1>4, <1>5, <1>6, <1>7, <1>9, <1>10

\* The backups sealed so far are kept.
SealedKept == \A c \in Backup : c \in Backup' /\ sealed'[c] = sealed[c]

\* Nothing durable is touched.
LEMMA DurableStays ==
  ASSUME EnrollInv, SealedKept, synced \subseteq synced', \A f \in synced : copies'[f] = copies[f]
  PROVE  BackupsStay
<1>1. ASSUME NEW c \in Backup, Recorded(c) PROVE Recorded(c)'
  <2>1. sealed'[c] = sealed[c]
    BY DEF SealedKept
  <2> QED BY <1>1, <2>1 DEF Recorded
<1> QED BY <1>1 DEF BackupsStay, SealedKept

\* A process is not disturbed by what happens to the other copies.
LEMMA OthersWell ==
  ASSUME EnrollInv, SealedKept, NEW q \in Shells, shells'[q] = shells[q],
         synced \subseteq synced',
         shells[q].step \in Writing =>
           \A f \in Paths : copies[f] = shells[q].backup =>
             copies'[f] = copies[f] /\ (f \in synced' => f \in synced),
         \A f \in synced : copies'[f] = copies[f]
  PROVE  WritesWell(q)'
<1>1. CASE shells[q].step \notin Writing
  BY <1>1 DEF WritesWell, Writing
<1>2. CASE shells[q].step \in Writing
  <2>1. WritesWell(q) /\ shells[q].backup \in Backup
    BY <1>2 DEF EnrollInv, WritesOwn, WritesWell
  <2>2. /\ sealed[shells[q].backup].outs[1] \in Paths /\ sealed[shells[q].backup].outs[2] \in Paths
        /\ shells[q].backup \in Backup' /\ sealed'[shells[q].backup] = sealed[shells[q].backup]
    BY <2>1, SealedTypes DEF SealedKept
  <2> QED BY <1>2, <2>1, <2>2 DEF WritesWell
<1> QED BY <1>1, <1>2

\* A backup that is written is the process's own.
LEMMA ApartStays ==
  ASSUME EnrollInv, NEW p \in Shells, \A q \in Shells : q # p => shells'[q] = shells[q],
         \/ shells'[p].step \notin Writing
         \/ shells[p].step \in Writing /\ shells'[p].backup = shells[p].backup
         \/ shells'[p].backup \notin Backup
  PROVE  WritesApart'
<1>1. \A q \in Shells : shells[q].step \in Writing => shells[q].backup \in Backup
  BY DEF EnrollInv, WritesOwn, WritesWell
<1> QED BY <1>1 DEF EnrollInv, WritesOwn, WritesApart

\* A step that only moves a process on, and touches the files.
LEMMA MovesOnStep ==
  ASSUME EnrollInv, NEW p \in Shells, NEW sh, MovesOn(p, sh), Elsewhere, BackupsStay, CopiesSealed',
         WritesOwn', EnrollTypes', (\A c \in Backup : Known(sealed[c].ack))'
  PROVE  EnrollInv'
<1>1. KnownSoFar'
  BY MovesOnFacts DEF KnownSoFar
<1>2. NothingNewSaid
  BY MovesOnFacts DEF NothingNewSaid, initState
<1> QED BY <1>1, <1>2, MovesOnFacts, SaidBefore DEF Elsewhere

\* A backup is sealed: it is the process's own, unless a copy is there to be overwritten.
LEMMA SealBackupStep ==
  ASSUME EnrollInv, NEW p \in Shells, NEW outs \in OutPairs, sealBackup(p, outs)
  PROVE  EnrollInv'
<1> DEFINE new == [ack |-> backupContents(shells[p].saw), outs |-> outs]
           n == Len(sealed) + 1
<1>1. EnrollTypes /\ KnownSoFar /\ CopiesSealed
  BY DEF EnrollInv
<1>2. shells[p] \in Shell /\ shells[p].step = "seal" /\ shells[p].saw \in EnrollState
      /\ AtLarge(shells[p].saw)
  BY <1>1 DEF EnrollTypes, sealBackup, Shell, AtLarge
<1>3. backupContents(shells[p].saw) \in Int /\ Known(backupContents(shells[p].saw))
  BY <1>1, <1>2 DEF KnownSoFar, StateKnown, backupContents, EnrollState
<1>4. new \in Sealing /\ new.ack = backupContents(shells[p].saw)
  BY <1>3 DEF Sealing
<1>5. sealed' = Append(sealed, new)
  BY DEF sealBackup
<1> HIDE DEF new
<1>6. /\ sealed' \in Seq(Sealing) /\ Len(sealed') = n /\ n \in Nat \ {0}
      /\ SealedKept /\ n \in Backup' /\ n \notin Backup /\ sealed'[n] = new
      /\ \A c \in Backup' : c \in Backup \/ c = n
  BY <1>1, <1>4, <1>5 DEF EnrollTypes, SealedKept, Backup
<1>7. /\ Elsewhere /\ store' = store /\ copies' = copies /\ synced' = synced
  BY DEF sealBackup, Elsewhere
<1>8. PICK sh : /\ shells' = [shells EXCEPT ![p] = sh]
                /\ sh = Ended \/ sh = [shells[p] EXCEPT !.step = "first", !.backup = n]
  BY <1>1, <1>6 DEF sealBackup, EnrollTypes
<1>9. sh \in Shell /\ (sh = Ended \/ (sh.step = "first" /\ sh.backup = n /\ sh.saw = shells[p].saw))
  BY <1>2, <1>6, <1>8, StartTypes DEF Shell
<1>10. sh.step # "pend" /\ (sh = Ended \/ (sh.saw = shells[p].saw /\ sh.step # "ended"))
  BY <1>9 DEF Ended
<1> HIDE DEF n
<1>11. MovesOn(p, sh)
  BY <1>7, <1>8, <1>9, <1>10 DEF MovesOn, Elsewhere
<1>12. \A q \in Shells : shells'[q] = IF q = p THEN sh ELSE shells[q]
  BY <1>11, MovesOnFacts
<1>13. BackupsStay
  BY <1>6, <1>7, DurableStays
<1>14. CopiesSealed'
  BY <1>1, <1>6, <1>7 DEF CopiesSealed, SealedKept
<1>15. WritesOwn'
  <2>1. WritesWell(p)'
    BY <1>4, <1>6, <1>9, <1>12 DEF WritesWell, Writing, Ended
  <2>2. \A q \in Shells : q # p => WritesWell(q)'
    BY <1>6, <1>7, <1>12, OthersWell
  <2>3. WritesApart'
    BY <1>6, <1>9, <1>12, ApartStays DEF Writing, Ended
  <2> QED BY <2>1, <2>2, <2>3 DEF WritesOwn
<1>16. EnrollTypes'
  BY <1>1, <1>6, <1>7, <1>11, MovesOnFacts DEF EnrollTypes, Elsewhere
<1>17. (\A c \in Backup : Known(sealed[c].ack))'
  <2>1. \A a : Known(a)' <=> Known(a)
    BY <1>7, KnownSame DEF Elsewhere
  <2>2. \A c \in Backup' : Known(sealed'[c].ack)
    BY <1>1, <1>3, <1>4, <1>6 DEF KnownSoFar, SealedKept
  <2> QED BY <2>1, <2>2
<1> QED BY <1>7, <1>11, <1>13, <1>14, <1>15, <1>16, <1>17, MovesOnStep

\* The steps of writeBackupCopies seal nothing and end nothing but themselves.
LEMMA CopyStep ==
  ASSUME EnrollInv, NEW p \in Shells, shells[p].step \in Writing, NEW sh, MovesOn(p, sh), Elsewhere,
         sealed' = sealed, copies' \in [Paths -> Nat], synced' \in SUBSET Paths, synced \subseteq synced',
         \A f \in synced : copies'[f] = copies[f],
         sh = Ended \/ sh.backup = shells[p].backup,
         \A f \in Paths : \/ copies'[f] = copies[f]
                          \/ copies[f] = Nil /\ copies'[f] = shells[p].backup
                          \/ copies[f] = shells[p].backup /\ copies'[f] = Nil,
         \A f \in synced' : f \in synced \/ (copies[f] = shells[p].backup /\ copies'[f] = copies[f]),
         WritesWell(p)'
  PROVE  EnrollInv'
<1>1. EnrollTypes /\ KnownSoFar /\ CopiesSealed
  BY DEF EnrollInv
<1>2. shells[p].backup \in Backup
  BY DEF EnrollInv, WritesOwn, WritesWell
<1>3. \A q \in Shells : shells'[q] = IF q = p THEN sh ELSE shells[q]
  BY MovesOnFacts
<1>4. SealedKept /\ Backup' = Backup
  BY DEF SealedKept, Backup
<1>5. BackupsStay
  BY <1>4, DurableStays
<1>6. CopiesSealed'
  <2>1. shells[p].backup # Nil
    BY <1>1, <1>2 DEF Backup, EnrollTypes, Nil
  <2> QED BY <1>1, <1>2, <1>4, <2>1 DEF CopiesSealed, EnrollTypes
<1>7. WritesOwn'
  <2>1. ASSUME NEW q \in Shells, q # p PROVE WritesWell(q)'
    <3>1. ASSUME shells[q].step \in Writing, NEW f \in Paths, copies[f] = shells[q].backup
          PROVE  copies'[f] = copies[f] /\ (f \in synced' => f \in synced)
      <4>1. shells[q].backup # shells[p].backup /\ shells[q].backup \in Backup
        BY <2>1, <3>1 DEF EnrollInv, WritesOwn, WritesWell, WritesApart
      <4>2. shells[q].backup # Nil
        BY <1>1, <4>1 DEF Backup, EnrollTypes, Nil
      <4> QED BY <3>1, <4>1, <4>2
    <3>2. shells'[q] = shells[q]
      BY <1>3, <2>1
    <3> QED BY <1>4, <3>1, <3>2, OthersWell
  <2>2. WritesApart'
    BY <1>3, ApartStays DEF Ended, Writing
  <2> QED BY <2>1, <2>2 DEF WritesOwn
<1>8. EnrollTypes'
  BY <1>1, MovesOnFacts DEF EnrollTypes, Elsewhere, MovesOn
<1>9. (\A c \in Backup : Known(sealed[c].ack))'
  <2>1. \A a : Known(a)' <=> Known(a)
    BY KnownSame DEF Elsewhere
  <2> QED BY <1>1, <1>4, <2>1 DEF KnownSoFar
<1> QED BY <1>5, <1>6, <1>7, <1>8, <1>9, MovesOnStep

\* What a process that writes its backup is, and where it writes it.
LEMMA WriterFacts ==
  ASSUME EnrollInv, NEW p \in Shells, shells[p].step \in Writing
  PROVE  /\ shells[p] \in Shell /\ shells[p].backup \in Backup /\ shells[p].backup \in Nat \ {0}
         /\ outOf(p, 1) \in Paths /\ outOf(p, 2) \in Paths
         /\ sealed[shells[p].backup].ack = backupContents(shells[p].saw)
<1>1. shells[p] \in Shell /\ shells[p].backup \in Backup
      /\ sealed[shells[p].backup].ack = backupContents(shells[p].saw)
  BY DEF EnrollInv, EnrollTypes, WritesOwn, WritesWell
<1>2. shells[p].backup \in Nat \ {0}
  BY <1>1 DEF EnrollInv, EnrollTypes, Backup
<1> QED BY <1>1, <1>2, SealedTypes DEF outOf

\* It moves on to its next step, or ends.
LEMMA MovesOnTo ==
  ASSUME EnrollInv, NEW p \in Shells, shells[p] \in Shell, NEW step \in Writing,
         shells' = [shells EXCEPT ![p].step = step], store' = store, Elsewhere
  PROVE  \E sh : /\ MovesOn(p, sh) /\ sh.step = step /\ sh.backup = shells[p].backup
                 /\ sh.saw = shells[p].saw /\ shells'[p] = sh
<1> DEFINE sh == [shells[p] EXCEPT !.step = step]
<1>1. shells' = [shells EXCEPT ![p] = sh] /\ shells'[p] = sh
  BY DEF EnrollInv, EnrollTypes
<1>2. sh \in Shell /\ sh.step = step /\ sh.backup = shells[p].backup /\ sh.saw = shells[p].saw
      /\ sh.step # "pend" /\ sh.step # "ended"
  BY DEF Writing, Shell
<1> HIDE DEF sh
<1> QED BY <1>1, <1>2 DEF MovesOn, Elsewhere

\* Ending is moving on.
LEMMA MovesOnEnded ==
  ASSUME EnrollInv, NEW p \in Shells, shells' = [shells EXCEPT ![p] = Ended], store' = store, Elsewhere
  PROVE  MovesOn(p, Ended) /\ shells'[p] = Ended /\ WritesWell(p)'
<1>1. Ended.step = "ended"
  BY DEF Ended
<1>2. MovesOn(p, Ended) /\ shells'[p] = Ended
  BY <1>1, StartTypes DEF MovesOn, Elsewhere, EnrollInv, EnrollTypes
<1> QED BY <1>1, <1>2 DEF WritesWell, Writing

\* A process links its first backup file.
LEMMA LinkFirstStep ==
  ASSUME EnrollInv, NEW p \in Shells, linkFirst(p)
  PROVE  EnrollInv'
<1>1. /\ shells[p].step = "first" /\ shells[p].step \in Writing /\ store' = store /\ Elsewhere
      /\ sealed' = sealed /\ synced' = synced
  BY DEF linkFirst, Elsewhere, Writing
<1>2. EnrollTypes /\ CopiesSealed
  BY DEF EnrollInv
<1>3. /\ shells[p] \in Shell /\ shells[p].backup \in Backup /\ shells[p].backup \in Nat \ {0}
      /\ outOf(p, 1) \in Paths /\ sealed[shells[p].backup].ack = backupContents(shells[p].saw)
  BY <1>1, WriterFacts
<1>4. CASE copies[outOf(p, 1)] # Nil
  <2>1. shells' = [shells EXCEPT ![p] = Ended] /\ copies' = copies
    BY <1>4 DEF linkFirst
  <2>2. MovesOn(p, Ended) /\ WritesWell(p)'
    BY <1>1, <2>1, MovesOnEnded
  <2> QED BY <1>1, <1>2, <2>1, <2>2, CopyStep DEF EnrollTypes
<1>5. CASE copies[outOf(p, 1)] = Nil
  <2>1. /\ shells' = [shells EXCEPT ![p].step = "second"]
        /\ copies' = [copies EXCEPT ![outOf(p, 1)] = shells[p].backup]
    BY <1>5 DEF linkFirst
  <2>2. PICK sh : /\ MovesOn(p, sh) /\ sh.step = "second" /\ sh.backup = shells[p].backup
                  /\ sh.saw = shells[p].saw /\ shells'[p] = sh
    BY <1>1, <1>3, <2>1, MovesOnTo DEF Writing
  <2>3. \A f \in Paths : copies'[f] = IF f = outOf(p, 1) THEN shells[p].backup ELSE copies[f]
    BY <1>2, <2>1 DEF EnrollTypes
  <2>4. copies' \in [Paths -> Nat]
    BY <1>2, <1>3, <2>1 DEF EnrollTypes
  <2>5. outOf(p, 1) \notin synced
    BY <1>2, <1>5 DEF CopiesSealed
  <2>6. WritesWell(p)'
    <3>1. Backup' = Backup
      BY <1>1 DEF Backup
    <3> QED BY <1>1, <1>3, <2>2, <2>3, <2>5, <3>1 DEF WritesWell, outOf
  <2>7. \A f \in synced : copies'[f] = copies[f]
    BY <1>2, <2>3, <2>5 DEF EnrollTypes
  <2> QED BY <1>1, <1>2, <1>5, <2>2, <2>3, <2>4, <2>6, <2>7, CopyStep DEF EnrollTypes
<1> QED BY <1>4, <1>5

\* A process links its second backup file.
LEMMA LinkSecondStep ==
  ASSUME EnrollInv, NEW p \in Shells, linkSecond(p)
  PROVE  EnrollInv'
<1>1. /\ shells[p].step = "second" /\ shells[p].step \in Writing /\ store' = store /\ Elsewhere
      /\ sealed' = sealed /\ synced' = synced
  BY DEF linkSecond, Elsewhere, Writing
<1>2. EnrollTypes /\ CopiesSealed
  BY DEF EnrollInv
<1>3. /\ shells[p] \in Shell /\ shells[p].backup \in Backup /\ shells[p].backup \in Nat \ {0}
      /\ outOf(p, 1) \in Paths /\ outOf(p, 2) \in Paths
      /\ sealed[shells[p].backup].ack = backupContents(shells[p].saw)
  BY <1>1, WriterFacts
<1>4. copies[outOf(p, 1)] = shells[p].backup /\ outOf(p, 1) \notin synced
  BY <1>1 DEF EnrollInv, WritesOwn, WritesWell, outOf
<1>5. CASE copies[outOf(p, 2)] # Nil
  <2>1. /\ shells' = [shells EXCEPT ![p] = Ended]
        /\ copies' = copies \/ copies' = [copies EXCEPT ![outOf(p, 1)] = Nil]
    BY <1>5 DEF linkSecond
  <2>2. MovesOn(p, Ended) /\ WritesWell(p)'
    BY <1>1, <2>1, MovesOnEnded
  <2>3. copies' \in [Paths -> Nat]
    BY <1>2, <2>1 DEF EnrollTypes, Nil
  <2>4. \A f \in Paths : copies'[f] = copies[f] \/ (f = outOf(p, 1) /\ copies'[f] = Nil)
    BY <1>2, <2>1 DEF EnrollTypes
  <2>5. \A f \in synced : copies'[f] = copies[f]
    BY <1>2, <1>4, <2>4 DEF EnrollTypes
  <2> QED BY <1>1, <1>2, <1>4, <2>2, <2>3, <2>4, <2>5, CopyStep DEF EnrollTypes
<1>6. CASE copies[outOf(p, 2)] = Nil
  <2>1. /\ shells' = [shells EXCEPT ![p].step = "sync"]
        /\ copies' = [copies EXCEPT ![outOf(p, 2)] = shells[p].backup]
    BY <1>6 DEF linkSecond
  <2>2. PICK sh : /\ MovesOn(p, sh) /\ sh.step = "sync" /\ sh.backup = shells[p].backup
                  /\ sh.saw = shells[p].saw /\ shells'[p] = sh
    BY <1>1, <1>3, <2>1, MovesOnTo DEF Writing
  <2>3. \A f \in Paths : copies'[f] = IF f = outOf(p, 2) THEN shells[p].backup ELSE copies[f]
    BY <1>2, <2>1 DEF EnrollTypes
  <2>4. copies' \in [Paths -> Nat]
    BY <1>2, <1>3, <2>1 DEF EnrollTypes
  <2>5. outOf(p, 2) \notin synced
    BY <1>2, <1>6 DEF CopiesSealed
  <2>6. WritesWell(p)'
    <3>1. Backup' = Backup
      BY <1>1 DEF Backup
    <3> QED BY <1>1, <1>3, <1>4, <2>2, <2>3, <3>1 DEF WritesWell, outOf
  <2>7. \A f \in synced : copies'[f] = copies[f]
    BY <1>2, <2>3, <2>5 DEF EnrollTypes
  <2> QED BY <1>1, <1>2, <1>6, <2>2, <2>3, <2>4, <2>6, <2>7, CopyStep DEF EnrollTypes
<1> QED BY <1>5, <1>6

\* A process makes its backup files durable.
LEMMA SyncDirectoryStep ==
  ASSUME EnrollInv, NEW p \in Shells, syncDirectory(p)
  PROVE  EnrollInv'
<1>1. /\ shells[p].step = "sync" /\ shells[p].step \in Writing /\ store' = store /\ Elsewhere
      /\ sealed' = sealed /\ copies' = copies
      /\ synced' = synced \cup {outOf(p, 1), outOf(p, 2)}
      /\ shells' = [shells EXCEPT ![p].step = "record"]
  BY DEF syncDirectory, Elsewhere, Writing
<1>2. EnrollTypes
  BY DEF EnrollInv
<1>3. /\ shells[p] \in Shell /\ shells[p].backup \in Backup
      /\ outOf(p, 1) \in Paths /\ outOf(p, 2) \in Paths
      /\ sealed[shells[p].backup].ack = backupContents(shells[p].saw)
  BY <1>1, WriterFacts
<1>4. copies[outOf(p, 1)] = shells[p].backup /\ copies[outOf(p, 2)] = shells[p].backup
  BY <1>1 DEF EnrollInv, WritesOwn, WritesWell, outOf
<1>5. PICK sh : /\ MovesOn(p, sh) /\ sh.step = "record" /\ sh.backup = shells[p].backup
                /\ sh.saw = shells[p].saw /\ shells'[p] = sh
  BY <1>1, <1>3, MovesOnTo DEF Writing
<1>6. WritesWell(p)'
  <2>1. Backup' = Backup
    BY <1>1 DEF Backup
  <2> QED BY <1>1, <1>3, <1>5, <2>1 DEF WritesWell, outOf
<1> QED BY <1>1, <1>2, <1>3, <1>4, <1>5, <1>6, CopyStep DEF EnrollTypes

\* enroll submit posts what is backed: the ack it submits is of the pending binding, and the backup it
\* names carries that ack.
LEMMA SubmitReadsStep ==
  ASSUME EnrollInv, NEW p \in Shells, NEW b, NEW live \in BOOLEAN, submitReads(p, b, live)
  PROVE  EnrollInv'
<1>1. EnrollTypes /\ EndedHoldsNothing /\ PostedBacked /\ AtLarge(store)
  BY DEF EnrollInv, AtLarge
<1> DEFINE sh == [Ended EXCEPT !.step = "answer", !.saw = store, !.live = live]
           r0 == [binding |-> b, commitment |-> store.commitment]
<1>2. sh \in Shell /\ sh.step = "answer" /\ sh.saw = store
  BY <1>1, StartTypes DEF Shell, EnrollTypes
<1>3. /\ FilesStay /\ issued' = issued /\ drills' = drills /\ store' = store
      /\ shells' = [shells EXCEPT ![p] = sh] /\ posted' \in SUBSET (posted \cup {r0})
      /\ store.pending # NoPending /\ backupCarries(store) /\ buildEnrollmentRequest(store, b)
  BY DEF submitReads, FilesStay
<1>4. CountsGrow
  BY <1>1, <1>3, Same
<1> HIDE DEF sh
<1>5. \A q \in Shells : shells'[q] = IF q = p THEN sh ELSE shells[q]
  BY <1>1, <1>3 DEF EnrollTypes
<1>6. EnrollTypes'
  BY <1>1, <1>2, <1>3 DEF EnrollTypes, FilesStay
<1>7. EndedHoldsNothing' /\ NobodyStartsWriting
  BY <1>1, <1>2, <1>5 DEF EndedHoldsNothing, NobodyStartsWriting, Writing
<1>8. \A q \in Shells : shells'[q].step = "pend" => shells'[q] = shells[q]
  BY <1>2, <1>5
<1>9. \A t : AtLarge(t)' => t = initState \/ \E s : AtLarge(s) /\ Like(t, s)
  BY <1>2, <1>3, <1>5 DEF AtLarge, Like
<1>10. OxideToken => /\ store.commitment \in Backup /\ Recorded(store.commitment)
                     /\ sealed[store.commitment].ack = b
  <2>1. SUFFICES ASSUME OxideToken
                 PROVE  /\ store.commitment \in Backup /\ Recorded(store.commitment)
                        /\ sealed[store.commitment].ack = b
    OBVIOUS
  <2>2. store.pending.ack = b /\ store.pending.binding = b
    BY <1>3, <2>1 DEF buildEnrollmentRequest, requiredEnrollmentAcks
  <2>3. b # Nil
    BY <1>1, <1>3, <2>2 DEF EnrollTypes, EnrollState, NoPending
  <2>4. store.commitment # Nil /\ store.backupAck = b
    BY <1>3, <2>2, <2>3 DEF backupCarries
  <2>5. ~Stale(b)
    BY <1>1, <2>2, <2>3 DEF Stale, UnderWay
  <2> QED BY <1>1, <2>4, <2>5 DEF EnrollInv, Backed
<1>11. BackupsStay
  BY <1>3, FilesStayBacked
<1>12. PostedBacked'
  <2>1. ASSUME NEW r \in posted', OxideToken
        PROVE  r.commitment \in Backup' /\ Recorded(r.commitment)' /\ sealed'[r.commitment].ack = r.binding
    <3>1. CASE r \in posted
      BY <1>1, <1>11, <2>1, <3>1 DEF PostedBacked, BackupsStay
    <3>2. CASE r = r0
      <4>1. r.commitment = store.commitment /\ r.binding = b
        BY <3>2
      <4>2. r.commitment \in Backup /\ Recorded(r.commitment) /\ sealed[r.commitment].ack = r.binding
        BY <1>10, <2>1, <4>1
      <4> QED BY <1>11, <4>2 DEF BackupsStay
    <3> QED BY <1>3, <2>1, <3>1, <3>2
  <2> QED BY <2>1 DEF PostedBacked
<1> QED BY <1>3, <1>4, <1>6, <1>7, <1>8, <1>9, <1>12, ReadStep

\* Power is lost: what is durable stays.
LEMMA PowerLossStep ==
  ASSUME EnrollInv, powerLoss
  PROVE  EnrollInv'
<1>1. EnrollTypes /\ KnownSoFar /\ CopiesSealed
  BY DEF EnrollInv
<1>2. /\ Elsewhere /\ sealed' = sealed /\ synced' = synced
      /\ shells' = [p \in Shells |-> Ended]
  BY DEF powerLoss, Elsewhere
<1>3. PICK whole \in BOOLEAN : store' = [store EXCEPT !.readable = @ /\ whole]
  BY DEF powerLoss
<1>4. PICK gone \in SUBSET {f \in Paths : copies[f] # Nil /\ f \notin synced} :
        copies' = [f \in Paths |-> IF f \in gone THEN Nil ELSE copies[f]]
  BY DEF powerLoss
<1>5. store' \in EnrollState /\ Like(store', store)
  <2>1. store.readable \in BOOLEAN
    BY <1>1 DEF EnrollTypes, EnrollState
  <2>2. PICK r \in BOOLEAN : r = (store.readable /\ whole)
    OBVIOUS
  <2>3. store' = [store EXCEPT !.readable = r]
    BY <1>3, <2>2
  <2> QED BY <1>1, <2>3 DEF EnrollTypes, EnrollState, Like
<1>6. Ended \in Shell /\ Ended.step = "ended" /\ Ended.saw = initState
  BY StartTypes DEF Ended
<1>7. copies' \in [Paths -> Nat] /\ \A f \in synced : copies'[f] = copies[f]
  BY <1>1, <1>4 DEF EnrollTypes, Nil
<1>8. EnrollTypes' /\ EndedHoldsNothing'
  BY <1>1, <1>2, <1>5, <1>6, <1>7 DEF EnrollTypes, EndedHoldsNothing, Elsewhere
<1>9. SealedKept /\ Backup' = Backup
  BY <1>2 DEF SealedKept, Backup
<1>10. BackupsStay
  BY <1>2, <1>7, <1>9, DurableStays
<1>11. CopiesSealed'
  BY <1>1, <1>2, <1>4, <1>7, <1>9 DEF CopiesSealed, EnrollTypes
<1>12. WritesOwn'
  BY <1>2, <1>6 DEF WritesOwn, WritesWell, WritesApart, Writing
<1>13. \A t : AtLarge(t)' => t = initState \/ Like(t, store)
  BY <1>2, <1>5, <1>6 DEF AtLarge
<1>14. NothingNewSaid
  BY <1>13 DEF NothingNewSaid, initState, Like, AtLarge
<1>15. NothingRevives
  BY <1>2, <1>6, <1>13 DEF NothingRevives, UnderWay, Like, initState, NoPending, AtLarge
<1>16. \A a : Known(a)' <=> Known(a)
  BY <1>2, KnownSame DEF Elsewhere
<1>17. KnownSoFar'
  <2>1. Known(0) /\ StateKnown(store)
    BY <1>1, Grow DEF Known, EnrollTypes, KnownSoFar, AtLarge
  <2>2. \A t : AtLarge(t)' => StateKnown(t)'
    BY <1>13, <1>16, <2>1 DEF StateKnown, Like, initState, NoPending, Nil
  <2>3. (\A q \in Shells : shells[q].step = "pend" => Known(shells[q].binding))'
    BY <1>2, <1>6
  <2>4. (\A c \in Backup : Known(sealed[c].ack))'
    BY <1>1, <1>2, <1>9, <1>16 DEF KnownSoFar
  <2> QED BY <2>2, <2>3, <2>4 DEF KnownSoFar
<1> QED BY <1>2, <1>8, <1>10, <1>11, <1>12, <1>14, <1>15, <1>17, SaidBefore DEF Elsewhere

\* A copy is restored: its ack is of no enrollment under way.
LEMMA RestoreStep ==
  ASSUME EnrollInv, NEW f \in Paths, restore(f)
  PROVE  EnrollInv'
<1>1. EnrollTypes /\ KnownSoFar /\ CopiesSealed
  BY DEF EnrollInv
<1> DEFINE c == copies[f]
           t == [initState EXCEPT !.commitment = c, !.tokenAck = sealed[c].ack, !.backupAck = sealed[c].ack]
<1>2. /\ Elsewhere /\ FilesStay /\ shells' = shells /\ store' = t
      /\ \A p \in Shells : shells[p] = Ended
  BY DEF restore, Elsewhere, FilesStay
<1>3. c \in Backup /\ c \in Nat /\ sealed[c].ack \in Int /\ Known(sealed[c].ack)
  BY <1>1, SealedTypes DEF restore, CopiesSealed, EnrollTypes, KnownSoFar
<1>4. Ended.step = "ended" /\ Ended.saw = initState /\ initState.pending = NoPending
      /\ NoPending.ack = Nil /\ NoPending.binding = Nil
  BY DEF Ended, initState, NoPending
<1> HIDE DEF c
<1>5. t \in EnrollState /\ t.pending = NoPending /\ t.commitment = c /\ t.tokenAck = sealed[c].ack
      /\ t.backupAck = sealed[c].ack
  BY <1>3, <1>4, StartTypes DEF EnrollState, initState
<1> HIDE DEF t
<1>6. \A s : AtLarge(s)' => s = t \/ s = initState
  BY <1>2, <1>4 DEF AtLarge
<1>7. EnrollTypes' /\ EndedHoldsNothing' /\ NobodyStartsWriting
  BY <1>1, <1>2, <1>5 DEF EnrollInv, EnrollTypes, EndedHoldsNothing, NobodyStartsWriting, FilesStay, Elsewhere
<1>8. \A a : ~UnderWay(a)' \/ a = Nil
  BY <1>2, <1>4, <1>5, <1>6 DEF UnderWay
<1>9. NothingRevives
  BY <1>8 DEF NothingRevives
<1>10. BackupsStay /\ CopiesSealed' /\ WritesOwn'
  BY <1>2, <1>7, FilesStayBacked, WritesStay
<1>11. \A s : AtLarge(s)' => Backed(s)'
  BY <1>2, <1>3, <1>5, <1>6, <1>8 DEF Backed, Stale, Backup, FilesStay, initState
<1>12. \A a : Known(a)' <=> Known(a)
  BY <1>2, KnownSame DEF Elsewhere
<1>13. KnownSoFar'
  <2>1. Known(0)
    BY <1>1, Grow DEF Known, EnrollTypes
  <2>2. \A s : AtLarge(s)' => StateKnown(s)'
    BY <1>3, <1>4, <1>5, <1>6, <1>12, <2>1 DEF StateKnown, initState, Nil
  <2>3. (\A q \in Shells : shells[q].step = "pend" => Known(shells[q].binding))'
    BY <1>2, <1>4
  <2>4. (\A d \in Backup : Known(sealed[d].ack))'
    BY <1>2, <1>12, SealedKnown
  <2> QED BY <2>2, <2>3, <2>4 DEF KnownSoFar
<1>14. PostedBacked'
  BY <1>2, <1>10, PostedStays DEF Elsewhere
<1> QED BY <1>7, <1>10, <1>11, <1>13, <1>14 DEF EnrollInv

-----------------------------------------------------------------------------
(* The theorem. *)

\* The enrollment invariant holds at the start.
LEMMA EnrollStarts == EnrollInit => EnrollInv
<1>1. SUFFICES ASSUME EnrollInit PROVE EnrollInv
  OBVIOUS
<1>2. Ended \in Shell /\ initState \in EnrollState /\ Ended.step = "ended" /\ Ended.saw = initState
  BY StartTypes DEF Ended
<1>3. EnrollTypes
  BY <1>1, <1>2 DEF EnrollInit, EnrollTypes, Nil
<1>4. Backup = {} /\ \A f \in Paths : copies[f] = Nil
  BY <1>1 DEF EnrollInit, Backup
<1>5. \A s : AtLarge(s) => s = initState
  BY <1>1, <1>2 DEF AtLarge, EnrollInit
<1>6. KnownSoFar
  <2>1. Known(0)
    BY <1>3, Grow DEF Known, EnrollTypes
  <2> QED BY <1>1, <1>2, <1>4, <1>5, <2>1 DEF KnownSoFar, StateKnown, initState, NoPending, Nil, EnrollInit
<1>7. \A s : AtLarge(s) => Backed(s)
  BY <1>5 DEF Backed, initState
<1>8. CopiesSealed /\ WritesOwn /\ EndedHoldsNothing /\ PostedBacked
  BY <1>1, <1>2, <1>4 DEF CopiesSealed, WritesOwn, WritesWell, WritesApart, Writing, EndedHoldsNothing,
                         PostedBacked, EnrollInit
<1> QED BY <1>3, <1>6, <1>7, <1>8 DEF EnrollInv

\* Every step of the enrollment keeps its invariant.
LEMMA EnrollSteps == EnrollInv /\ [EnrollNext]_enrollVars => EnrollInv'
<1>1. SUFFICES ASSUME EnrollInv, [EnrollNext]_enrollVars PROVE EnrollInv'
  OBVIOUS
<1>2. CASE UNCHANGED enrollVars
  BY <1>1, <1>2 DEF enrollVars, EnrollInv, EnrollTypes, KnownSoFar, StateKnown, Known, AtLarge, Backed,
       Stale, UnderWay, Recorded, Backup, CopiesSealed, WritesOwn, WritesWell, WritesApart,
       EndedHoldsNothing, PostedBacked
<1>3. ASSUME NEW p \in Shells,
             \/ setup(p)
             \/ \E live \in BOOLEAN : startReads(p, live)
             \/ challenge(p) \/ startWrites(p)
             \/ backupReads(p)
             \/ \E outs \in OutPairs : sealBackup(p, outs)
             \/ linkFirst(p) \/ linkSecond(p) \/ syncDirectory(p) \/ recordBackup(p)
             \/ \E b \in -drills..issued, live \in BOOLEAN : submitReads(p, b, live)
             \/ submitAnswered(p)
             \/ fails(p)
      PROVE  EnrollInv'
  BY <1>1, <1>3, SetupStep, ChallengeStep, StartWritesStep, BackupReadsStep, SealBackupStep, LinkFirstStep,
     LinkSecondStep, SyncDirectoryStep, RecordBackupStep, SubmitReadsStep, SubmitAnsweredStep
<1>4. CASE powerLoss
  BY <1>1, <1>4, PowerLossStep
<1>5. CASE \E f \in Paths : restore(f)
  BY <1>1, <1>5, RestoreStep
<1> QED BY <1>1, <1>2, <1>3, <1>4, <1>5 DEF EnrollNext

\* Whatever the processes, the paths and the bounds, and however a command or the machine dies: the
\* backup a posted enrollment acknowledges is durable in both its copies and carries the token ack of
\* the very binding.  Code: cli.ts backup and enroll submit, writeBackupCopies.
THEOREM EnrollmentTheorem == EnrollInit /\ [][EnrollNext]_enrollVars => []EnrollmentSound
<1>1. EnrollInv => EnrollmentSound
  BY DEF EnrollInv, PostedBacked, Recorded, EnrollmentSound
<1> QED BY <1>1, EnrollStarts, EnrollSteps, PTL

-----------------------------------------------------------------------------
(* A served quote. *)

\* The addresses an answer may name: the caller's own, and the venue's.
Named ==
  addresses \cup {TokenA}
  \cup UNION {{ask.request.wallet, ask.request.recipient, ask.request.fromToken,
               ask.request.toToken, ask.honest.payee} : ask \in QuoteAsks}

Dialects == {"erc3009", "permit2", "other"}

\* What a quote may say, each field of the kind the wire schema gives it.
Intents ==
  [wallet : Named, recipient : Named, fromChainId : Int, toChainId : Int, fromToken : Named,
   toToken : Named, fromAmount : Int, toAmount : Int, deadline : Int,
   settlementPreference : {"public", "stealth"} \cup {ask.request.settlement : ask \in QuoteAsks}]

Pulls ==
  [types : SUBSET Dialects, primary : Dialects, chainId : Int, verifyingContract : Named,
   to : Named, spender : Named, value : Int, amount : Int, token : Named, validBefore : Int,
   deadline : Int]

Quotes == [intent : Intents, pull : Pulls, escrow : BOOLEAN, shown : Int]

\* What the checks a quote has passed leave of it, by the stage it has reached.
VerifyInv ==
  /\ quoteStage \in {"asked", "served", "quoted", "signed", "refused"}
  /\ quoteAsk \in QuoteAsks
  /\ served \in Quotes
  /\ quoteStage \in {"quoted", "signed"} =>
       /\ assertIntentMatchesRequest(quoteAsk.request, served.intent)
       /\ assertPullMatchesIntent(served, quoteAsk)
  /\ quoteStage = "signed" =>
       /\ encodes(served.intent, served.pull)
       /\ IF quoteAsk.caller = "client"
          THEN validatePayoutPin(quoteAsk, served) /\ validateSolverPin(quoteAsk, served.pull)
          ELSE matchesSchema(served.pull)

\* Addresses are equal field by field.
LEMMA Fields ==
  ASSUME NEW k, NEW l, NEW c, NEW m, NEW n, NEW d
  PROVE  Address(k, l, c) = Address(m, n, d) <=> k = m /\ l = n /\ c = d
BY DEF Address

\* What an address is built of is what it has.
LEMMA Built ==
  ASSUME NEW k, NEW l, NEW c
  PROVE  /\ Address(k, l, c).kind = k /\ Address(k, l, c).letters = l /\ Address(k, l, c).case = c
         /\ IsAddress(Address(k, l, c))
BY DEF Address, IsAddress

\* Only the case is folded.
LEMMA Lowered ==
  ASSUME NEW a, IsAddress(a)
  PROVE  [a EXCEPT !.case = "lower"] = Address(a.kind, a.letters, "lower")
BY DEF IsAddress, Address

\* Two addresses compare equal when they are one account.
LEMMA SameIsOne ==
  ASSUME NEW a, NEW b, IsAddress(a), IsAddress(b)
  PROVE  sameAddressish(a, b) <=> sameAccount(a, b)
<1>1. ASSUME NEW x, IsAddress(x)
      PROVE  foldCase(x) = Address(x.kind, x.letters, IF x.kind = "hex" THEN "lower" ELSE x.case)
  BY <1>1, Lowered DEF foldCase, IsAddress
<1>2. foldCase(a) = foldCase(b) <=>
        /\ a.kind = b.kind /\ a.letters = b.letters
        /\ (IF a.kind = "hex" THEN "lower" ELSE a.case) = (IF b.kind = "hex" THEN "lower" ELSE b.case)
  BY <1>1, Fields
<1> QED BY <1>2 DEF sameAddressish, sameAccount

\* Nothing but no address is the same as no address.
LEMMA NoOther ==
  ASSUME NEW a, IsAddress(a), sameAccount(a, NoAddress) \/ sameAccount(NoAddress, a)
  PROVE  a = NoAddress
<1>1. NoAddress.kind = "none" /\ NoAddress.letters = "" /\ NoAddress.case = ""
  BY DEF NoAddress, Address
<1>2. a.kind = "none" /\ a.letters = "" /\ a.case = "" BY <1>1 DEF sameAccount
<1> QED BY <1>2 DEF IsAddress, NoAddress

\* Every address an answer may name is one.
LEMMA NamedAreAddresses ==
  \A a \in Named : IsAddress(a)
<1>1. \A a \in addresses \cup {TokenA} : IsAddress(a)
  <2>1. /\ IsAddress(NoAddress) /\ IsAddress(Wallet) /\ IsAddress(Escrow) /\ IsAddress(Proxy)
        /\ IsAddress(TokenA) /\ IsAddress(TokenB) /\ IsAddress(Permit2Address)
        /\ IsAddress(SolverUpper) /\ IsAddress(AliceLower)
    BY Built DEF NoAddress, Wallet, Escrow, Proxy, TokenA, TokenB, Permit2Address, SolverUpper, AliceLower
  <2> QED BY <2>1 DEF addresses
<1> QED BY <1>1, QuoteVerifyAssumption DEF Named

\* The constants among them.
LEMMA NamedHold ==
  /\ addresses \subseteq Named
  /\ TokenA \in Named /\ TokenB \in Named /\ Permit2Address \in Named /\ NoAddress \in Named
BY DEF Named, addresses

\* A changed quote is a quote.
LEMMA Told ==
  ASSUME NEW q \in Quotes, NEW lie \in lies
  PROVE  tell(q, lie) \in Quotes
<1> USE NamedHold
<1> DEFINE into(part, fields, values) == lie.part = part /\ lie.field \in fields /\ lie.value \in values
<1>1. \/ into("intent", {"fromChainId", "toChainId", "fromAmount", "toAmount", "deadline"}, numbers)
      \/ into("intent", {"wallet", "recipient", "fromToken", "toToken"}, addresses)
      \/ into("intent", {"settlementPreference"}, {"public", "stealth"})
      \/ into("pull", {"chainId", "value", "amount", "validBefore", "deadline"}, numbers)
      \/ into("pull", {"verifyingContract", "to", "spender", "token"}, addresses)
      \/ into("pull", {"primary"}, {"erc3009", "permit2", "other"})
      \/ into("pull", {"types"}, {{"erc3009"}, {"permit2"}, {"erc3009", "permit2"}, {"other"}})
  BY DEF lies
<1>2. numbers \subseteq Int BY DEF numbers, NoNumber
<1>3. q.intent \in Intents /\ q.pull \in Pulls BY DEF Quotes
<1>4. CASE lie.part = "intent"
  <2>1. [q.intent EXCEPT ![lie.field] = lie.value] \in Intents
    <3>1. CASE into("intent", {"fromChainId", "toChainId", "fromAmount", "toAmount", "deadline"}, numbers)
      BY <1>2, <1>3, <3>1 DEF Intents
    <3>2. CASE into("intent", {"wallet", "recipient", "fromToken", "toToken"}, addresses)
      BY <1>3, <3>2 DEF Intents
    <3>3. CASE into("intent", {"settlementPreference"}, {"public", "stealth"})
      BY <1>3, <3>3 DEF Intents
    <3> QED BY <1>1, <1>4, <3>1, <3>2, <3>3
  <2> QED BY <1>4, <2>1 DEF Quotes, tell
<1>5. CASE lie.part = "pull"
  <2>1. [q.pull EXCEPT ![lie.field] = lie.value] \in Pulls
    <3>1. CASE into("pull", {"chainId", "value", "amount", "validBefore", "deadline"}, numbers)
      BY <1>2, <1>3, <3>1 DEF Pulls
    <3>2. CASE into("pull", {"verifyingContract", "to", "spender", "token"}, addresses)
      BY <1>3, <3>2 DEF Pulls
    <3>3. CASE into("pull", {"primary"}, {"erc3009", "permit2", "other"})
      BY <1>3, <3>3 DEF Pulls, Dialects
    <3>4. CASE into("pull", {"types"}, {{"erc3009"}, {"permit2"}, {"erc3009", "permit2"}, {"other"}})
      BY <1>3, <3>4 DEF Pulls, Dialects
    <3> QED BY <1>1, <1>5, <3>1, <3>2, <3>3, <3>4
  <2> QED BY <1>5, <2>1 DEF Quotes, tell
<1> QED BY <1>1, <1>4, <1>5

\* The quote an honest venue serves is a quote.
LEMMA Honest ==
  ASSUME NEW ask \in QuoteAsks
  PROVE  honest(ask) \in Quotes
<1>1. {ask.request.wallet, ask.request.recipient, ask.request.fromToken, ask.request.toToken,
       ask.honest.payee, TokenA, TokenB, Permit2Address} \subseteq Named
  BY NamedHold DEF Named
<1>2. recipientOf(ask.request) \in Named BY <1>1 DEF recipientOf
<1>3. honest(ask).intent \in Intents
  BY <1>1, <1>2, QuoteVerifyAssumption DEF honest, Intents
<1>4. honest(ask).pull \in Pulls
  BY <1>1, QuoteVerifyAssumption DEF honest, Pulls, Dialects
<1>5. honest(ask).escrow = FALSE /\ honest(ask).shown = 2
  BY DEF honest
<1>6. honest(ask) = [intent |-> honest(ask).intent, pull |-> honest(ask).pull,
                       escrow |-> honest(ask).escrow, shown |-> honest(ask).shown]
  BY DEF honest
<1>7. 2 \in Int OBVIOUS
<1> QED BY <1>3, <1>4, <1>5, <1>6, <1>7 DEF Quotes

\* Nothing has passed a check at the start.
LEMMA VerifyStarts == VerifyInit => VerifyInv
BY Honest DEF VerifyInit, VerifyInv

\* A served quote, honest or changed, is a quote that has passed nothing.
LEMMA ServeStep ==
  ASSUME VerifyInv, ServeQuote
  PROVE  VerifyInv'
<1>1. PICK lie \in lies, other \in lies, n \in 0..MaxLies, escrow \in BOOLEAN, shown \in {1, 2} :
        served' = [(IF n < 2 THEN IF n = 0 THEN served ELSE tell(served, lie)
                    ELSE tell(IF n = 0 THEN served ELSE tell(served, lie), other))
                   EXCEPT !.escrow = escrow, !.shown = shown]
  BY DEF ServeQuote
<1>2. served \in Quotes BY DEF VerifyInv
<1>3. tell(served, lie) \in Quotes BY <1>2, Told
<1>4. tell(served, other) \in Quotes /\ tell(tell(served, lie), other) \in Quotes BY <1>2, <1>3, Told
<1>5. ASSUME NEW q \in Quotes PROVE [q EXCEPT !.escrow = escrow, !.shown = shown] \in Quotes
  <2>1. escrow \in BOOLEAN /\ shown \in Int OBVIOUS
  <2>2. [q EXCEPT !.escrow = escrow] \in Quotes BY <2>1 DEF Quotes
  <2> QED BY <2>1, <2>2 DEF Quotes
<1>6. served' \in Quotes BY <1>1, <1>2, <1>3, <1>4, <1>5
<1> QED BY <1>6 DEF VerifyInv, ServeQuote

\* A quote taken in has passed the library's comparison with the request and with its own pull.
LEMMA IngestStep ==
  ASSUME VerifyInv, IngestQuote
  PROVE  VerifyInv'
BY DEF VerifyInv, IngestQuote

\* A signed one has passed the caller's own pins too.
LEMMA SignQuoteStep ==
  ASSUME VerifyInv, SignQuote
  PROVE  VerifyInv'
BY DEF VerifyInv, SignQuote

\* Every step keeps what the checks leave.
LEMMA VerifySteps == VerifyInv /\ [VerifyNext]_verifyVars => VerifyInv'
<1> SUFFICES ASSUME VerifyInv, [VerifyNext]_verifyVars PROVE VerifyInv'
  OBVIOUS
<1>1. CASE UNCHANGED verifyVars BY <1>1 DEF VerifyInv, verifyVars
<1> QED BY <1>1, ServeStep, IngestStep, SignQuoteStep DEF VerifyNext

\* A signed pull has one reading: it is the dialect its struct is verified as.  A struct that names both
\* types is read as ERC-3009 by intent-verify and by its primary type by the pin: the first wants the
\* asked token as the contract, the second Permit2.
LEMMA OneDialect ==
  ASSUME VerifyInv, quoteStage = "signed"
  PROVE  /\ served.pull.primary = pullKind(served.pull)
         /\ served.pull.primary \in {"erc3009", "permit2"}
<1> DEFINE pull == served.pull
           intent == served.intent
           r == quoteAsk.request
<1>1. pull.primary \in pull.types /\ pull.types \in SUBSET Dialects
  BY DEF VerifyInv, encodes, Quotes, Pulls
<1>2. CASE quoteAsk.caller # "client"
  <2>1. PICK kind \in {"erc3009", "permit2"} : pull.types = {kind}
    BY <1>2 DEF VerifyInv, matchesSchema
  <2> QED BY <1>1, <2>1 DEF pullKind
<1>3. CASE quoteAsk.caller = "client"
  <2>1. validateSolverPin(quoteAsk, pull) BY <1>3 DEF VerifyInv
  <2>2. pull.primary \in {"erc3009", "permit2"} BY <2>1 DEF validateSolverPin
  <2>3. CASE pull.primary = "erc3009" BY <1>1, <2>3 DEF pullKind
  <2>4. CASE pull.primary = "permit2" /\ "erc3009" \notin pull.types BY <1>1, <2>4 DEF pullKind
  <2>5. CASE pull.primary = "permit2" /\ "erc3009" \in pull.types
    <3>1. sameAddressish(pull.verifyingContract, Permit2Address)
      BY <2>1, <2>5 DEF validateSolverPin
    <3>2. pullKind(pull) = "erc3009" BY <2>5 DEF pullKind
    <3>3. r.fromToken # NoAddress /\ ~sameAddressish(r.fromToken, Permit2Address)
      BY <1>3, QuoteVerifyAssumption DEF VerifyInv
    <3>4. sameAddressish(intent.fromToken, r.fromToken)
      BY <3>3 DEF VerifyInv, assertIntentMatchesRequest
    <3>5. intent.fromToken # NoAddress => sameAddressish(pull.verifyingContract, intent.fromToken)
      BY <3>2 DEF VerifyInv, assertPullMatchesIntent, tokenIn
    <3>6. intent.fromToken # NoAddress BY DEF VerifyInv, encodes
    <3> QED BY <3>1, <3>3, <3>4, <3>5, <3>6 DEF sameAddressish
  <2> QED BY <2>2, <2>3, <2>4, <2>5
<1> QED BY <1>2, <1>3

\* What the request names are addresses.
LEMMA AskedAreAddresses ==
  ASSUME NEW ask \in QuoteAsks
  PROVE  IsAddress(ask.request.fromToken) /\ IsAddress(recipientOf(ask.request))
BY QuoteVerifyAssumption DEF recipientOf

\* A signed pull expires within its buffer of a deadline that is itself bounded.
LEMMA BoundedPull ==
  ASSUME VerifyInv, quoteStage = "signed"
  PROVE  pulled.until <= MaxIntentAhead
           + (IF quoteAsk.buffer \in 0..MaxPullAfter THEN quoteAsk.buffer ELSE MaxPullAfter)
<1> DEFINE deadline == served.intent.deadline
           until == expiryIn(served.pull, served.pull.primary)
           buffer == IF quoteAsk.buffer \in 0..MaxPullAfter THEN quoteAsk.buffer ELSE MaxPullAfter
<1>1. until \in Int /\ deadline \in Int
  BY DEF VerifyInv, Quotes, Intents, Pulls, expiryIn
<1>2. deadline # NoNumber /\ until # NoNumber BY DEF VerifyInv, encodes
<1>3. until <= deadline + pullExpiryBoundSeconds(quoteAsk.buffer)
  BY <1>2, OneDialect DEF VerifyInv, assertPullMatchesIntent
<1>4. deadline <= MaxIntentAhead
  BY <1>2 DEF VerifyInv, assertPullMatchesIntent, assertDeadlineWithinWallClockBound
<1>5. MaxIntentAhead \in Nat /\ MaxPullAfter \in Nat /\ quoteAsk.buffer \in Int
  BY QuoteVerifyAssumption DEF VerifyInv
<1>6. pullExpiryBoundSeconds(quoteAsk.buffer) = buffer /\ buffer \in Nat
  BY <1>5 DEF pullExpiryBoundSeconds
<1>7. pulled.until = until BY DEF pulled
<1> HIDE DEF deadline, until, buffer
<1>8. until <= MaxIntentAhead + buffer BY <1>1, <1>3, <1>4, <1>5, <1>6
<1> QED BY <1>7, <1>8 DEF buffer

\* A signed pull pays one of the pinned payees, where any are pinned, and no pinned escrow.
LEMMA PinnedPull ==
  ASSUME VerifyInv, quoteStage = "signed"
  PROVE  /\ (pulled.chain \in DOMAIN quoteAsk.pins) =>
            \E a \in quoteAsk.pins[pulled.chain][served.pull.primary] : sameAccount(pulled.payee, a)
         /\ (pulled.chain \in DOMAIN quoteAsk.escrows) =>
              ~sameAccount(pulled.payee, quoteAsk.escrows[pulled.chain])
<1> DEFINE intent == served.intent
           kind == served.pull.primary
           payee == payeeIn(served.pull, kind)
           chain == intent.fromChainId
<1>1. pulled.chain = chain /\ pulled.payee = payee
  BY DEF VerifyInv, assertPullMatchesIntent, chainMatches, sameNumeric, pulled
<1>2. kind = pullKind(served.pull) /\ kind \in {"erc3009", "permit2"} BY OneDialect
<1>3. payee \in Named BY DEF VerifyInv, Quotes, Pulls, payeeIn
<1>4. IsAddress(payee) /\ payee # NoAddress BY <1>3, NamedAreAddresses DEF VerifyInv, encodes
<1>5. quoteAsk \in QuoteAsks BY DEF VerifyInv
<1>6. ASSUME chain \in DOMAIN quoteAsk.pins
      PROVE  \E a \in quoteAsk.pins[chain][kind] : sameAccount(payee, a)
  <2>1. pullRecipientMatches(intent, served.pull, kind, quoteAsk.pins)
    BY <1>2 DEF VerifyInv, assertPullMatchesIntent
  <2>2. /\ ~pinRefuses(intent, kind, quoteAsk.pins)
        /\ pinnedFor(intent, kind, quoteAsk.pins) # {} =>
             pinAccepts(pinnedFor(intent, kind, quoteAsk.pins), payee)
    BY <1>6, <2>1 DEF pullRecipientMatches
  <2>3. pinAccepts(quoteAsk.pins[chain][kind], payee)
    BY <1>6, <2>2 DEF pinRefuses, pinnedFor
  <2>4. PICK a \in quoteAsk.pins[chain][kind] : sameAddressish(payee, a)
    BY <2>3 DEF pinAccepts
  <2>5. IsAddress(a) BY <1>2, <1>5, <1>6, QuoteVerifyAssumption
  <2> QED BY <1>4, <2>4, <2>5, SameIsOne
<1>7. ASSUME chain \in DOMAIN quoteAsk.escrows
      PROVE  ~sameAccount(payee, quoteAsk.escrows[chain])
  <2>1. assertPullNotToPinnedEscrow(intent, served.pull, kind, quoteAsk.escrows)
    BY <1>2 DEF VerifyInv, assertPullMatchesIntent
  <2>2. IsAddress(quoteAsk.escrows[chain]) BY <1>5, <1>7, QuoteVerifyAssumption
  <2>3. CASE quoteAsk.escrows[chain] = NoAddress BY <1>4, <2>3, NoOther
  <2>4. CASE quoteAsk.escrows[chain] # NoAddress
    <3>1. ~sameAddressish(payee, quoteAsk.escrows[chain])
      BY <1>7, <2>1, <2>4 DEF assertPullNotToPinnedEscrow, resolvePinnedEscrow
    <3> QED BY <1>4, <2>2, <3>1, SameIsOne
  <2> QED BY <2>3, <2>4
<1> QED BY <1>1, <1>6, <1>7

\* What has passed every check is what was asked for.
LEMMA OnlyAsked == VerifyInv => SignsOnlyAsked
<1> SUFFICES ASSUME VerifyInv, quoteStage = "signed" PROVE SignsOnlyAsked
  BY DEF SignsOnlyAsked
<1> DEFINE r == quoteAsk.request
           intent == served.intent
           kind == served.pull.primary
<1>1. kind = pullKind(served.pull) /\ kind \in {"erc3009", "permit2"} BY OneDialect
<1>2. quoteAsk \in QuoteAsks /\ served \in Quotes BY DEF VerifyInv
<1>3. assertIntentMatchesRequest(r, intent) /\ assertPullMatchesIntent(served, quoteAsk)
      /\ encodes(intent, served.pull)
  BY DEF VerifyInv
<1>4. pulled.chain = intent.fromChainId
  BY <1>3 DEF assertPullMatchesIntent, chainMatches, sameNumeric, pulled
<1>5. /\ r.fromChainId # NoNumber => intent.fromChainId = r.fromChainId
      /\ r.toChainId # NoNumber => intent.toChainId = r.toChainId
  BY <1>3 DEF assertIntentMatchesRequest, sameNumeric
<1>6. r.fromToken # NoAddress => sameAccount(pulled.token, r.fromToken)
  <2>1. /\ intent.fromToken # NoAddress
        /\ sameAddressish(tokenIn(served.pull, kind), intent.fromToken)
        /\ r.fromToken # NoAddress => sameAddressish(intent.fromToken, r.fromToken)
    BY <1>1, <1>3 DEF encodes, assertPullMatchesIntent, assertIntentMatchesRequest
  <2>2. IsAddress(pulled.token) /\ pulled.token = tokenIn(served.pull, kind)
    <3>1. tokenIn(served.pull, kind) \in Named BY <1>2 DEF Quotes, Pulls, tokenIn
    <3> QED BY <3>1, NamedAreAddresses DEF pulled
  <2>3. r.fromToken # NoAddress => sameAddressish(pulled.token, r.fromToken)
    BY <2>1, <2>2 DEF sameAddressish
  <2> QED BY <1>2, <2>2, <2>3, SameIsOne, AskedAreAddresses
<1>7. IF r.swapKind = "exact_output" THEN pulled.amount <= r.max
      ELSE r.fromAmount # NoNumber => pulled.amount = r.fromAmount
  <2>1. intent.fromAmount # NoNumber /\ amountIn(served.pull, kind) # NoNumber
    BY <1>3 DEF encodes
  <2>2. amountIn(served.pull, kind) = intent.fromAmount
    BY <1>1, <1>3, <2>1 DEF assertPullMatchesIntent, sameNumeric
  <2>3. amountsMatch(r, intent) BY <1>3 DEF assertIntentMatchesRequest
  <2> QED BY <2>2, <2>3 DEF amountsMatch, assertFromAmountWithinMax, sameNumeric, pulled
<1>8. kind = "permit2" => sameAccount(served.pull.verifyingContract, Permit2Address)
  <2>1. kind = "permit2" => sameAddressish(served.pull.verifyingContract, Permit2Address)
    BY <1>1, <1>3 DEF assertPullMatchesIntent
  <2>2. IsAddress(served.pull.verifyingContract) /\ IsAddress(Permit2Address)
    BY <1>2, NamedAreAddresses, NamedHold DEF Quotes, Pulls
  <2> QED BY <2>1, <2>2, SameIsOne
<1>9. ~served.escrow BY <1>3 DEF assertPullMatchesIntent, assertNoEscrowEnvelope
<1>10. recipientOf(r) # NoAddress => sameAccount(intent.recipient, recipientOf(r))
  <2>1. recipientOf(r) # NoAddress => sameAddressish(intent.recipient, recipientOf(r))
    BY <1>3 DEF assertIntentMatchesRequest, recipientMatches
  <2>2. IsAddress(intent.recipient) BY <1>2, NamedAreAddresses DEF Quotes, Intents
  <2> QED BY <1>2, <2>1, <2>2, SameIsOne, AskedAreAddresses
<1>11. ASSUME quoteAsk.caller = "client"
       PROVE  /\ intent.toAmount = served.shown
              /\ kind = "permit2" => foldCase(pulled.payee) \in quoteAsk.allow.permit2
  <2>1. validatePayoutPin(quoteAsk, served) /\ validateSolverPin(quoteAsk, served.pull)
    BY <1>11 DEF VerifyInv
  <2>2. intent.toAmount = served.shown BY <2>1 DEF validatePayoutPin, sameNumeric
  <2>3. ASSUME kind = "permit2" PROVE foldCase(pulled.payee) \in quoteAsk.allow.permit2
    <3>1. checkRecipient(quoteAsk, "permit2", pulled.payee)
      BY <2>1, <2>3 DEF validateSolverPin, pulled
    <3>2. lowercased(pulled.payee) \in quoteAsk.allow.permit2
      BY <3>1 DEF checkRecipient, allowlist
    <3>3. IsAddress(pulled.payee)
      <4>1. payeeIn(served.pull, kind) \in Named BY <1>2 DEF Quotes, Pulls, payeeIn
      <4> QED BY <4>1, NamedAreAddresses DEF pulled
    <3>4. lowercased(pulled.payee).kind = "hex" BY <1>2, <3>2, QuoteVerifyAssumption
    <3>5. pulled.payee.kind = "hex" BY <3>3, <3>4, Lowered, Built DEF lowercased
    <3> QED BY <3>2, <3>5 DEF foldCase, lowercased
  <2> QED BY <2>2, <2>3
<1> HIDE DEF r, intent, kind
<1> QED BY <1>4, <1>5, <1>6, <1>7, <1>8, <1>9, <1>10, <1>11, BoundedPull, PinnedPull
        DEF SignsOnlyAsked, r, intent, kind

\* Whatever the venue serves, the pull that is signed is of the token, chain, amount, recipient and expiry
\* asked for, to a payee that was pinned.  Code: assertIntentMatchesRequest, assertPullMatchesIntent
\* (signer/src/intent-verify.ts) and validateSolverPin (machine/solverPin.ts).
THEOREM VerifyTheorem == VerifyInit /\ [][VerifyNext]_verifyVars => []SignsOnlyAsked
BY VerifyStarts, VerifySteps, OnlyAsked, PTL

-----------------------------------------------------------------------------
(* A prepared claim. *)

\* The addresses an operation may name.
ClaimParties == {Counterfactual, TokenA, TokenB, Recipient, RecipientUpper, Factory, Key, Wallet}

\* What an operation may be.
Operations ==
  [sender : ClaimParties, call : {"transfer", "other"}, token : ClaimParties, to : ClaimParties,
   amount : Int, value : Int, sponsored : BOOLEAN, factory : ClaimParties, deploys : BOOLEAN,
   owner : ClaimParties, salt : Int]

\* A signed claim has passed its checker.
ClaimInv ==
  /\ claimAsk \in ClaimAsks
  /\ prepared.op \in Operations
  /\ prepared.entryPoint \in {NoAddress, EntryPoint, Proxy}
  /\ claimStage \in {"asked", "prepared", "signed", "refused"}
  /\ claimStage = "signed" =>
       IF claimAsk.by = "client" THEN checkPreparedClaim(prepared, claimAsk)
       ELSE verifyClaimUserOp(prepared, claimAsk)

\* The parties of a claim are addresses.
LEMMA PartiesAreAddresses ==
  /\ \A a \in ClaimParties : IsAddress(a)
  /\ IsAddress(EntryPoint) /\ IsAddress(Proxy) /\ IsAddress(NoAddress)
<1>1. /\ IsAddress(Counterfactual) /\ IsAddress(TokenA) /\ IsAddress(TokenB) /\ IsAddress(Recipient)
      /\ IsAddress(RecipientUpper) /\ IsAddress(Factory) /\ IsAddress(Key) /\ IsAddress(Wallet)
  BY Built DEF Counterfactual, TokenA, TokenB, Recipient, RecipientUpper, Factory, Key, Wallet
<1>2. IsAddress(EntryPoint) /\ IsAddress(Proxy) /\ IsAddress(NoAddress)
  BY Built DEF EntryPoint, Proxy, NoAddress
<1> QED BY <1>1, <1>2 DEF ClaimParties

\* The operations a bundler may prepare are operations.
LEMMA OpsTyped == ops \subseteq Operations
<1>1. honestOp \in Operations BY DEF honestOp, Operations, ClaimParties
<1>2. ASSUME NEW lie \in opLies PROVE [honestOp EXCEPT ![lie.field] = lie.value] \in Operations
  <2> DEFINE into(fields, values) == lie.field \in fields /\ lie.value \in values
  <2>1. \/ into({"sender", "to", "owner", "factory"}, {Wallet, RecipientUpper, Counterfactual})
        \/ into({"token"}, {TokenA})
        \/ into({"call"}, {"other"})
        \/ into({"value", "amount", "salt"}, {1})
        \/ into({"sponsored", "deploys"}, {FALSE})
    BY DEF opLies
  <2>2. CASE into({"sender", "to", "owner", "factory"}, {Wallet, RecipientUpper, Counterfactual})
    BY <1>1, <2>2 DEF Operations, ClaimParties
  <2>3. CASE into({"token"}, {TokenA}) BY <1>1, <2>3 DEF Operations, ClaimParties
  <2>4. CASE into({"call"}, {"other"}) BY <1>1, <2>4 DEF Operations
  <2>5. CASE into({"value", "amount", "salt"}, {1}) BY <1>1, <2>5 DEF Operations
  <2>6. CASE into({"sponsored", "deploys"}, {FALSE}) BY <1>1, <2>6 DEF Operations
  <2> QED BY <2>1, <2>2, <2>3, <2>4, <2>5, <2>6
<1> QED BY <1>1, <1>2 DEF ops

\* Nothing is signed at the start.
LEMMA ClaimStarts == ClaimInit => ClaimInv
BY OpsTyped DEF ClaimInit, ClaimInv, noClaim, ops

\* A claim is signed only past its checker, and is not prepared again.
LEMMA ClaimSteps == ClaimInv /\ [ClaimNext]_claimVars => ClaimInv'
<1> SUFFICES ASSUME ClaimInv, [ClaimNext]_claimVars PROVE ClaimInv'
  OBVIOUS
<1>1. CASE PrepareClaim BY <1>1, OpsTyped DEF PrepareClaim, ClaimInv
<1>2. CASE SignClaim BY <1>2 DEF SignClaim, ClaimInv
<1>3. CASE UNCHANGED claimVars BY <1>3 DEF claimVars, ClaimInv
<1> QED BY <1>1, <1>2, <1>3 DEF ClaimNext

\* What has passed is the transfer that was asked for.
LEMMA ClaimAsked == ClaimInv => ClaimsAreTheAsk
<1> SUFFICES ASSUME ClaimInv, claimStage = "signed" PROVE ClaimsAreTheAsk
  BY DEF ClaimsAreTheAsk
<1> DEFINE p == prepared
           op == prepared.op
           token == IF claimAsk.by = "client" THEN claimAsk.expectedToken ELSE TokenB
<1>1. assertPreparedClaimMatchesRequest(p, claimAsk.settlementChainId, token)
  BY DEF ClaimInv, checkPreparedClaim, verifyClaimUserOp
<1>2. p.hash.op = op /\ p.hash.chain = p.chainId /\ p.hash.entryPoint = p.entryPoint
  BY <1>1 DEF assertPreparedClaimMatchesRequest, hashMatches, computeUserOpHash
<1>3. op \in Operations /\ IsAddress(p.entryPoint) BY PartiesAreAddresses DEF ClaimInv
<1>4. /\ IsAddress(op.sender) /\ IsAddress(op.to) /\ IsAddress(op.token)
      /\ IsAddress(op.factory) /\ IsAddress(op.owner)
  BY <1>3, PartiesAreAddresses DEF Operations
<1>5. IsAddress(claimAsk.expectedToken) BY ClaimVerifyAssumption DEF ClaimInv
<1>6. p.chainId = claimAsk.settlementChainId
  BY <1>1 DEF assertPreparedClaimMatchesRequest, chainBound, sameNumeric
<1>7. sameAccount(p.entryPoint, EntryPoint) /\ sameAccount(op.sender, Counterfactual)
      /\ sameAccount(op.to, Recipient)
  BY <1>1, <1>3, <1>4, SameIsOne, PartiesAreAddresses
     DEF assertPreparedClaimMatchesRequest, ClaimParties
<1>8. op.call = "transfer" /\ op.value = 0 /\ op.sponsored
  BY <1>1 DEF assertPreparedClaimMatchesRequest, decodeErc20TransferExecute, spendsOnlyToken
<1>9. TokenB # NoAddress
  <2>1. TokenB.kind = "hex" /\ NoAddress.kind = "none" BY DEF TokenB, NoAddress, Address
  <2> QED BY <2>1
<1>10. token # NoAddress => sameAddressish(op.token, token)
  BY <1>1 DEF assertPreparedClaimMatchesRequest
<1> HIDE DEF op
<1>11. ASSUME claimAsk.by = "client", claimAsk.expectedToken # NoAddress
       PROVE  sameAccount(op.token, claimAsk.expectedToken)
  BY <1>4, <1>5, <1>10, <1>11, SameIsOne DEF token
<1>12. ASSUME claimAsk.by # "client"
       PROVE  /\ sameAccount(op.token, TokenB) /\ sameAccount(op.factory, Factory)
              /\ op.deploys /\ sameAccount(op.owner, Key) /\ op.salt = 0
  <2>1. verifyClaimUserOp(p, claimAsk) BY <1>12 DEF ClaimInv
  <2>2. sameAddressish(op.token, TokenB) BY <1>9, <1>10, <1>12 DEF token
  <2>3. sameAddressish(op.factory, Factory) /\ sameAddressish(op.owner, Key)
    BY <2>1 DEF verifyClaimUserOp, ownAccount, op
  <2>4. op.deploys /\ op.salt = 0
    BY <2>1 DEF verifyClaimUserOp, ownAccount, decodeCreateAccountCall, op
  <2>5. IsAddress(TokenB) /\ IsAddress(Factory) /\ IsAddress(Key)
    BY PartiesAreAddresses DEF ClaimParties
  <2> QED BY <1>4, <2>2, <2>3, <2>4, <2>5, SameIsOne
<1> QED BY <1>2, <1>6, <1>7, <1>8, <1>11, <1>12 DEF ClaimsAreTheAsk, op

\* Whatever the bundler prepares, a signed claim hashes to the operation it shows, on the chain and the
\* entry point of the ask, from the own account to the own recipient, and spends nothing else.
\* Code: assertPreparedClaimMatchesRequest, verifyClaimUserOp (signer/src/claim-verify.ts).
THEOREM ClaimTheorem == ClaimInit /\ [][ClaimNext]_claimVars => []ClaimsAreTheAsk
BY ClaimStarts, ClaimSteps, ClaimAsked, PTL

-----------------------------------------------------------------------------
(* A deposit address. *)

\* The addresses a deal may name.
DepositParties ==
  {Wallet, Bob, Alice, AliceLower, TokenA, TokenB, DepositA, DepositAUpper, DepositB}
  \cup UNION {{request.wallet, request.recipient, request.refund} : request \in DepositRequests}

\* What a deal may be.
DealsTyped ==
  [intent : {1, 2}, wallet : DepositParties, fromChainId : Int, fromToken : DepositParties, fromAmount : Int,
   address : {DepositA, DepositAUpper, DepositB}, deadline : Int, refund : DepositParties, toChainId : Int,
   toToken : {TokenA, TokenB}, toAmount : Int, settlement : {"public", "stealth"}, recipient : DepositParties]

\* The message built of a deal, field by field.
LEMMA MessageOf ==
  ASSUME NEW f \in DealsTyped
  PROVE  LET m == buildDepositAttestationMessage(f)
         IN /\ m.wallet = normalizeAddress(f.wallet) /\ m.fromToken = normalizeAddress(f.fromToken)
            /\ m.address = normalizeAddress(f.address) /\ m.refund = normalizeAddress(f.refund)
            /\ m.toToken = normalizePartyCapable(f.toToken)
            /\ m.recipient = normalizePartyCapable(f.recipient)
            /\ m.intent = f.intent /\ m.fromChainId = f.fromChainId /\ m.fromAmount = f.fromAmount
            /\ m.deadline = f.deadline /\ m.toChainId = f.toChainId /\ m.toAmount = f.toAmount
            /\ m.settlement = f.settlement
BY DEF DealsTyped, buildDepositAttestationMessage

\* What the venue signs of a deal, field by field.
LEMMA AttestedOf ==
  ASSUME NEW d \in DealsTyped
  PROVE  LET m == attested(d)
         IN /\ m.wallet = normalizeAddress(d.wallet) /\ m.fromToken = normalizeAddress(d.fromToken)
            /\ m.address = normalizeAddress(d.address) /\ m.refund = normalizeAddress(d.refund)
            /\ m.toToken \in {normalizePartyCapable(d.toToken), normalizeAddress(normalizePartyCapable(d.toToken))}
            /\ m.recipient \in {normalizePartyCapable(d.recipient),
                                normalizeAddress(normalizePartyCapable(d.recipient))}
            /\ m.intent = d.intent /\ m.fromChainId = d.fromChainId /\ m.fromAmount = d.fromAmount
            /\ m.deadline = d.deadline /\ m.toChainId = d.toChainId /\ m.toAmount = d.toAmount
            /\ m.settlement = d.settlement
BY DEF DealsTyped, attested, buildDepositAttestationMessage

\* What the two normalisations do to an address.
LEMMA Normalized ==
  ASSUME NEW a, IsAddress(a)
  PROVE  /\ normalizeAddress(a) =
              Address(a.kind, a.letters, IF a.kind \in {"hex", "party"} THEN "lower" ELSE a.case)
         /\ normalizePartyCapable(a) =
              Address(a.kind, a.letters, IF a.kind = "hex" THEN "lower" ELSE a.case)
BY Lowered DEF normalizeAddress, normalizePartyCapable, IsAddress

\* Normalising tells two accounts apart, but two spellings of a party.
LEMMA NormalizedOnce ==
  ASSUME NEW a, NEW b, IsAddress(a), IsAddress(b)
  PROVE  /\ normalizePartyCapable(a) = normalizePartyCapable(b) <=> sameAccount(a, b)
         /\ normalizeAddress(a) = normalizeAddress(b) /\ b.kind # "party" => sameAccount(a, b)
         /\ sameAccount(a, b) => normalizeAddress(a) = normalizeAddress(b)
         /\ (normalizePartyCapable(a) = normalizeAddress(normalizePartyCapable(b)) /\ a.kind # "party")
               => sameAccount(a, b)
<1>1. /\ normalizePartyCapable(a) = normalizePartyCapable(b) <=>
           /\ a.kind = b.kind /\ a.letters = b.letters
           /\ (IF a.kind = "hex" THEN "lower" ELSE a.case) = (IF b.kind = "hex" THEN "lower" ELSE b.case)
      /\ normalizeAddress(a) = normalizeAddress(b) <=>
           /\ a.kind = b.kind /\ a.letters = b.letters
           /\ (IF a.kind \in {"hex", "party"} THEN "lower" ELSE a.case)
                = (IF b.kind \in {"hex", "party"} THEN "lower" ELSE b.case)
  BY Normalized, Fields
<1>2. normalizePartyCapable(b) = Address(b.kind, b.letters, IF b.kind = "hex" THEN "lower" ELSE b.case)
  BY Normalized
<1>3. normalizeAddress(normalizePartyCapable(b)) =
        Address(b.kind, b.letters,
                IF b.kind \in {"hex", "party"} THEN "lower" ELSE IF b.kind = "hex" THEN "lower" ELSE b.case)
  BY <1>2, Built, Normalized
<1>4. normalizePartyCapable(a) = normalizeAddress(normalizePartyCapable(b)) =>
        /\ a.kind = b.kind /\ a.letters = b.letters
        /\ (IF a.kind = "hex" THEN "lower" ELSE a.case)
             = (IF b.kind \in {"hex", "party"} THEN "lower" ELSE IF b.kind = "hex" THEN "lower" ELSE b.case)
  BY <1>3, Normalized, Fields
<1> QED BY <1>1, <1>4 DEF sameAccount

\* Every address a deal may name is one.
LEMMA DepositAddresses ==
  /\ \A a \in DepositParties : IsAddress(a)
  /\ \A a \in {DepositA, DepositAUpper, DepositB} : a \in DepositParties /\ a.kind \in {"hex", "text"}
  /\ \A a \in {TokenA, TokenB} : a \in DepositParties /\ a.kind = "hex"
<1>1. /\ IsAddress(Wallet) /\ IsAddress(Bob) /\ IsAddress(Alice) /\ IsAddress(AliceLower)
      /\ IsAddress(TokenA) /\ IsAddress(TokenB) /\ IsAddress(DepositA) /\ IsAddress(DepositAUpper)
      /\ IsAddress(DepositB)
  BY Built DEF Wallet, Bob, Alice, AliceLower, TokenA, TokenB, DepositA, DepositAUpper, DepositB
<1>2. /\ DepositA.kind = "hex" /\ DepositAUpper.kind = "hex" /\ DepositB.kind = "text"
      /\ TokenA.kind = "hex" /\ TokenB.kind = "hex"
  BY Built DEF DepositA, DepositAUpper, DepositB, TokenA, TokenB
<1> QED BY <1>1, <1>2, DepositVerifyAssumption DEF DepositParties

\* The deals a venue may make for a request are deals.
LEMMA DealTyped ==
  ASSUME NEW request \in DepositRequests
  PROVE  Deals(request) \subseteq DealsTyped
<1>1. request.wallet \in DepositParties /\ request.recipient \in DepositParties
      /\ request.refund \in DepositParties /\ request.fromAmount \in Int
      /\ TokenA \in DepositParties
  BY DepositVerifyAssumption DEF DepositParties
<1>2. ASSUME NEW i \in {1, 2}, NEW a \in {DepositA, DepositAUpper, DepositB}
      PROVE  dealFor(request, i, a) \in DealsTyped
  BY <1>1 DEF dealFor, DealsTyped
<1>3. ASSUME NEW d \in DealsTyped, NEW lie \in dealLies
      PROVE  [d EXCEPT ![lie.field] = lie.value] \in DealsTyped
  <2> DEFINE into(fields, values) == lie.field \in fields /\ lie.value \in values
  <2>1. \/ into({"wallet", "refund", "recipient"}, {Wallet, Bob, Alice, AliceLower})
        \/ into({"fromAmount", "deadline", "toChainId"}, {NoNumber, 0, 3})
        \/ into({"toToken", "fromToken"}, {TokenA, TokenB})
        \/ into({"settlement"}, {"stealth"})
    BY DEF dealLies
  <2>2. CASE into({"wallet", "refund", "recipient"}, {Wallet, Bob, Alice, AliceLower})
    BY <2>2 DEF DealsTyped, DepositParties
  <2>3. CASE into({"fromAmount", "deadline", "toChainId"}, {NoNumber, 0, 3})
    BY <2>3 DEF DealsTyped, NoNumber
  <2>4. CASE into({"toToken", "fromToken"}, {TokenA, TokenB})
    BY <2>4, DepositAddresses DEF DealsTyped
  <2>5. CASE into({"settlement"}, {"stealth"}) BY <2>5 DEF DealsTyped
  <2> QED BY <2>1, <2>2, <2>3, <2>4, <2>5
<1> QED BY <1>2, <1>3 DEF Deals

\* An attestation covers the deal it was made of, and what is shown is the own deal.
DepositInv ==
  /\ depositRequest \in DepositRequests
  /\ depositStage \in {"idle", "served", "stored"}
  /\ depositStage # "idle" =>
       /\ depositQuote.deal \in DealsTyped /\ depositQuote.fields \in DealsTyped
       /\ depositQuote.attestation.over = attested(depositQuote.deal)
  /\ \A a \in DOMAIN seenAddresses : IsAddress(a) /\ normalizeAddress(a) = a
  /\ DepositsAreTheDeal

\* Nothing is shown at the start.
LEMMA DepositStarts == DepositInit => DepositInv
BY DEF DepositInit, DepositInv, DepositsAreTheDeal, NoDisplay

\* A delivered quote carries deals of their types and shows nothing yet.
LEMMA DeliverStep ==
  ASSUME DepositInv, NEW stage \in {"served", "stored"}, deliver(stage)
  PROVE  DepositInv'
<1>1. PICK deal \in Deals(depositRequest), by \in {"venue", "other", "none"}, escrow \in BOOLEAN,
           shown \in {NoAddress, Bob, depositRequest.recipient},
           change \in {"none", "address", "amount", "asked"} :
        /\ depositStage' = stage
        /\ depositQuote' =
             [deal |-> deal, escrow |-> escrow, shown |-> shown,
              attestation |-> [by |-> by, over |-> attested(deal)],
              fields |-> misdealt(deal, change)]
        /\ UNCHANGED <<depositRequest, seenAddresses, displayed>>
  BY DEF deliver
<1>2. deal \in DealsTyped BY DealTyped DEF DepositInv
<1>3. misdealt(deal, change) \in DealsTyped
  <2>1. [deal EXCEPT !.address = DepositB] \in DealsTyped BY <1>2 DEF DealsTyped
  <2>2. [deal EXCEPT !.toAmount = 9] \in DealsTyped BY <1>2 DEF DealsTyped
  <2>3. [deal EXCEPT !.toAmount = 9, !.fromAmount = 9] \in DealsTyped BY <2>2 DEF DealsTyped
  <2>4. depositRequest.wallet \in DepositParties /\ Bob \in DepositParties
    BY DEF DepositInv, DepositParties
  <2>5. [deal EXCEPT !.wallet = depositRequest.wallet] \in DealsTyped BY <1>2, <2>4 DEF DealsTyped
  <2>6. [deal EXCEPT !.wallet = depositRequest.wallet, !.recipient = Bob] \in DealsTyped
    BY <2>4, <2>5 DEF DealsTyped
  <2>7. [deal EXCEPT !.wallet = depositRequest.wallet, !.recipient = Bob, !.intent = 1] \in DealsTyped
    BY <2>6 DEF DealsTyped
  <2> QED BY <1>2, <2>1, <2>3, <2>7 DEF misdealt
<1>6. depositQuote'.fields \in DealsTyped BY <1>1, <1>3
<1>7. depositQuote'.deal = deal /\ depositQuote'.attestation.over = attested(deal) BY <1>1
<1> QED BY <1>1, <1>2, <1>6, <1>7 DEF DepositInv, DepositsAreTheDeal

\* What the client rebuilds is typed, and its own half is the request's.
LEMMA Rebuilt ==
  ASSUME NEW request \in DepositRequests, NEW q \in DealsTyped
  PROVE  LET f == depositAttestationFields(request, q)
         IN /\ f \in DealsTyped
            /\ f.wallet = request.wallet /\ f.fromToken = TokenA /\ f.toChainId = 2
            /\ f.toToken = TokenB /\ f.refund = request.refund /\ f.settlement = "public"
            /\ f.recipient = IF request.recipient = NoAddress THEN request.wallet ELSE request.recipient
<1> DEFINE recipient == IF request.recipient = NoAddress THEN request.wallet ELSE request.recipient
           amount == IF request.by = "client" THEN request.fromAmount ELSE q.fromAmount
<1>1. /\ request.wallet \in DepositParties /\ recipient \in DepositParties
      /\ request.refund \in DepositParties /\ TokenA \in DepositParties /\ amount \in Int
  BY DepositVerifyAssumption DEF DepositParties, DealsTyped
<1> HIDE DEF recipient, amount
<1> DEFINE f1 == [q EXCEPT !.wallet = request.wallet]
           f2 == [f1 EXCEPT !.fromChainId = 1]
           f3 == [f2 EXCEPT !.fromToken = TokenA]
           f4 == [f3 EXCEPT !.toChainId = 2]
           f5 == [f4 EXCEPT !.toToken = TokenB]
           f6 == [f5 EXCEPT !.refund = request.refund]
           f7 == [f6 EXCEPT !.settlement = "public"]
           f8 == [f7 EXCEPT !.recipient = recipient]
           f9 == [f8 EXCEPT !.fromAmount = amount]
<1>2. f1 \in DealsTyped BY <1>1 DEF DealsTyped
<1> HIDE DEF f1
<1>3. f2 \in DealsTyped BY <1>2 DEF DealsTyped
<1> HIDE DEF f2
<1>4. f3 \in DealsTyped BY <1>1, <1>3 DEF DealsTyped
<1> HIDE DEF f3
<1>5. f4 \in DealsTyped BY <1>4 DEF DealsTyped
<1> HIDE DEF f4
<1>6. f5 \in DealsTyped BY <1>5 DEF DealsTyped
<1> HIDE DEF f5
<1>7. f6 \in DealsTyped BY <1>1, <1>6 DEF DealsTyped
<1> HIDE DEF f6
<1>8. f7 \in DealsTyped BY <1>7 DEF DealsTyped
<1> HIDE DEF f7
<1>9. f8 \in DealsTyped BY <1>1, <1>8 DEF DealsTyped
<1> HIDE DEF f8
<1>10. f9 \in DealsTyped BY <1>1, <1>9 DEF DealsTyped
<1>11. depositAttestationFields(request, q) = f9
  BY DEF depositAttestationFields, recipient, amount, f1, f2, f3, f4, f5, f6, f7, f8
<1>12. depositAttestationFields(request, q) \in DealsTyped BY <1>10, <1>11
<1>13. LET f == depositAttestationFields(request, q)
       IN /\ f.wallet = request.wallet /\ f.fromToken = TokenA /\ f.toChainId = 2
          /\ f.toToken = TokenB /\ f.refund = request.refund /\ f.settlement = "public"
          /\ f.recipient = recipient
  BY <1>11, <1>10 DEF DealsTyped, f1, f2, f3, f4, f5, f6, f7, f8
<1> QED BY <1>12, <1>13 DEF recipient

\* What the bytes of a deal bind: every field, up to the spelling of an address.
LEMMA OneDeal ==
  ASSUME NEW f \in DealsTyped, NEW d \in DealsTyped, buildDepositAttestationMessage(f) = attested(d)
  PROVE  /\ f.intent = d.intent /\ f.fromAmount = d.fromAmount /\ f.deadline = d.deadline
         /\ f.toChainId = d.toChainId /\ f.settlement = d.settlement
         /\ sameAccount(f.address, d.address) /\ addressKey(f.address) = normalizeAddress(d.address)
         /\ sameAccount(f.toToken, d.toToken)
         /\ normalizeAddress(f.wallet) = normalizeAddress(d.wallet)
         /\ f.wallet.kind # "party" => sameAccount(f.wallet, d.wallet)
         /\ f.refund.kind # "party" => sameAccount(f.refund, d.refund)
         /\ f.fromToken.kind # "party" => sameAccount(f.fromToken, d.fromToken)
         /\ f.recipient.kind = d.recipient.kind
         /\ f.recipient.kind # "party" => sameAccount(f.recipient, d.recipient)
<1>1. /\ IsAddress(f.wallet) /\ IsAddress(f.fromToken) /\ IsAddress(f.refund) /\ IsAddress(f.recipient)
      /\ IsAddress(d.wallet) /\ IsAddress(d.fromToken) /\ IsAddress(d.refund) /\ IsAddress(d.recipient)
      /\ IsAddress(f.address) /\ IsAddress(d.address) /\ IsAddress(f.toToken) /\ IsAddress(d.toToken)
      /\ f.address.kind # "party" /\ d.address.kind # "party" /\ f.toToken.kind # "party"
  BY DepositAddresses DEF DealsTyped
<1>2. /\ f.intent = d.intent /\ f.fromAmount = d.fromAmount /\ f.deadline = d.deadline
      /\ f.toChainId = d.toChainId /\ f.settlement = d.settlement
      /\ normalizeAddress(f.wallet) = normalizeAddress(d.wallet)
      /\ normalizeAddress(f.fromToken) = normalizeAddress(d.fromToken)
      /\ normalizeAddress(f.address) = normalizeAddress(d.address)
      /\ normalizeAddress(f.refund) = normalizeAddress(d.refund)
      /\ normalizePartyCapable(f.toToken)
           \in {normalizePartyCapable(d.toToken), normalizeAddress(normalizePartyCapable(d.toToken))}
      /\ normalizePartyCapable(f.recipient)
           \in {normalizePartyCapable(d.recipient), normalizeAddress(normalizePartyCapable(d.recipient))}
  BY MessageOf, AttestedOf
<1>3. ASSUME NEW a, NEW b, IsAddress(a), IsAddress(b), a.kind # "party", normalizeAddress(a) = normalizeAddress(b)
      PROVE  sameAccount(a, b)
  <2>1. normalizeAddress(a).kind = a.kind /\ normalizeAddress(b).kind = b.kind
    BY <1>3, Normalized, Built
  <2> QED BY <1>3, <2>1, NormalizedOnce
<1>4. ASSUME NEW a, NEW b, IsAddress(a), IsAddress(b),
             normalizePartyCapable(a) \in {normalizePartyCapable(b), normalizeAddress(normalizePartyCapable(b))}
      PROVE  a.kind = b.kind /\ (a.kind # "party" => sameAccount(a, b))
  <2>1. /\ normalizePartyCapable(b) = Address(b.kind, b.letters, IF b.kind = "hex" THEN "lower" ELSE b.case)
        /\ normalizePartyCapable(a).kind = a.kind
    BY <1>4, Normalized, Built
  <2>2. IsAddress(normalizePartyCapable(b)) /\ normalizePartyCapable(b).kind = b.kind BY <2>1, Built
  <2>3. normalizeAddress(normalizePartyCapable(b)).kind = b.kind BY <2>2, Normalized, Built
  <2> QED BY <1>4, <2>1, <2>2, <2>3, NormalizedOnce
<1> QED BY <1>1, <1>2, <1>3, <1>4 DEF addressKey

\* The rebuilt message is the deal's, so the route shown is the request's.
LEMMA CheckDepositStep == ASSUME DepositInv, CheckDeposit PROVE DepositInv'
<1> DEFINE r == depositRequest
           f == depositAttestationFields(depositRequest, depositQuote.fields)
           d == depositQuote.deal
           ok == /\ verifyDepositAttestation(f, depositQuote.attestation)
                 /\ assertDepositQuoteMatchesRequest(depositRequest, f, depositQuote)
                 /\ recordDepositAddress(seenAddresses, f.address, f.intent)
           asked == IF r.recipient = NoAddress THEN r.wallet ELSE r.recipient
<1>1. /\ r \in DepositRequests /\ depositQuote.fields \in DealsTyped /\ d \in DealsTyped
      /\ depositQuote.attestation.over = attested(d)
  BY DEF CheckDeposit, DepositInv
<1>2. /\ f \in DealsTyped
      /\ f.wallet = r.wallet /\ f.fromToken = TokenA /\ f.toChainId = 2 /\ f.toToken = TokenB
      /\ f.refund = r.refund /\ f.settlement = "public" /\ f.recipient = asked
  BY <1>1, Rebuilt
<1>3. UNCHANGED depositRequest /\ depositStage' = "idle" BY DEF CheckDeposit
<1>4. CASE ~ok
  <2>1. UNCHANGED <<seenAddresses, displayed>> BY <1>4 DEF CheckDeposit
  <2> QED BY <1>3, <2>1 DEF DepositInv, DepositsAreTheDeal
<1>5. CASE ok
  <2> DEFINE key == addressKey(f.address)
  <2>1. /\ seenAddresses' = [a \in DOMAIN seenAddresses \cup {key} |->
                               IF a = key THEN f.intent ELSE seenAddresses[a]]
        /\ displayed' = [by |-> "live", address |-> f.address, intent |-> f.intent, deal |-> d]
    BY <1>5 DEF CheckDeposit
  <2>2. /\ buildDepositAttestationMessage(f) = attested(d)
        /\ depositAmountMatches(r, f) /\ assertDepositPartiesCaseBindable(f)
        /\ ~recipientIsDestinationToken(f.recipient, f.toToken)
        /\ f.deadline >= MinDepositWindow
    BY <1>1, <1>5 DEF verifyDepositAttestation, recovers, assertDepositQuoteMatchesRequest
  <2> HIDE DEF f, ok
  <2>3. f.wallet.kind # "party" /\ f.refund.kind # "party" /\ f.recipient.kind # "party"
    BY <2>2 DEF assertDepositPartiesCaseBindable
  <2>4. /\ IsAddress(f.recipient) /\ IsAddress(d.recipient) /\ IsAddress(f.toToken) /\ IsAddress(f.address)
        /\ IsAddress(d.address) /\ IsAddress(d.toToken)
        /\ f.toToken.kind = "hex" /\ d.address.kind # "party" /\ f.fromToken.kind # "party"
    BY <1>1, <1>2, DepositAddresses DEF DealsTyped
  <2>5. /\ f.intent = d.intent /\ f.fromAmount = d.fromAmount /\ f.deadline = d.deadline
        /\ f.toChainId = d.toChainId /\ f.settlement = d.settlement
        /\ sameAccount(f.address, d.address) /\ key = normalizeAddress(d.address)
        /\ sameAccount(f.toToken, d.toToken) /\ sameAccount(f.wallet, d.wallet)
        /\ sameAccount(f.refund, d.refund) /\ sameAccount(f.fromToken, d.fromToken)
        /\ sameAccount(f.recipient, d.recipient)
    BY <1>1, <1>2, <2>2, <2>3, <2>4, OneDeal
  <2>6. ~sameAccount(d.recipient, d.toToken)
    <3> SUFFICES ASSUME sameAccount(d.recipient, d.toToken) PROVE FALSE
      OBVIOUS
    <3>1. sameAccount(f.recipient, f.toToken) BY <2>5 DEF sameAccount
    <3>2. f.recipient # NoAddress
      <4>1. NoAddress.kind = "none" BY DEF NoAddress, Address
      <4> QED BY <2>4, <3>1, <4>1 DEF sameAccount
    <3> QED BY <2>2, <2>4, <3>1, <3>2, NormalizedOnce DEF recipientIsDestinationToken
  <2>7. /\ sameAccount(d.wallet, r.wallet) /\ sameAccount(d.recipient, asked) /\ sameAccount(d.refund, r.refund)
        /\ sameAccount(d.toToken, TokenB) /\ sameAccount(d.fromToken, TokenA)
    BY <1>2, <2>5 DEF sameAccount
  <2>8. IF r.swapKind = "exact_output" THEN d.fromAmount <= r.max
        ELSE r.fromAmount # NoNumber => d.fromAmount = r.fromAmount
    BY <2>2, <2>5 DEF depositAmountMatches, assertFromAmountWithinMax
  <2>9. d.toChainId = 2 /\ d.settlement = "public" /\ d.deadline >= MinDepositWindow BY <1>2, <2>2, <2>5
  <2>10. IsAddress(key) /\ normalizeAddress(key) = key
    <3>1. key = Address(f.address.kind, f.address.letters,
                        IF f.address.kind \in {"hex", "party"} THEN "lower" ELSE f.address.case)
      BY <2>4, Normalized DEF addressKey
    <3>2. /\ IsAddress(key) /\ key.kind = f.address.kind /\ key.letters = f.address.letters
          /\ key.case = IF f.address.kind \in {"hex", "party"} THEN "lower" ELSE f.address.case
      BY <3>1, Built
    <3> HIDE DEF key
    <3>3. normalizeAddress(key) = Address(key.kind, key.letters,
                                          IF key.kind \in {"hex", "party"} THEN "lower" ELSE key.case)
      BY <3>2, Normalized
    <3> QED BY <3>1, <3>2, <3>3
  <2>11. \A a \in DOMAIN seenAddresses' : IsAddress(a) /\ normalizeAddress(a) = a
    BY <2>1, <2>10 DEF DepositInv
  <2>12. ASSUME NEW a \in DOMAIN seenAddresses', sameAccount(a, d.address)
         PROVE  seenAddresses'[a] = d.intent
    <3>1. normalizeAddress(a) = normalizeAddress(d.address) BY <2>4, <2>11, <2>12, NormalizedOnce
    <3>2. a = key BY <2>5, <2>11, <3>1
    <3> QED BY <2>1, <2>5, <3>2
  <2> HIDE DEF key
  <2>13. DepositsAreTheDeal'
    BY <1>3, <2>1, <2>5, <2>6, <2>7, <2>8, <2>9, <2>12 DEF DepositsAreTheDeal
  <2> QED BY <1>1, <1>3, <2>11, <2>13 DEF DepositInv
<1> QED BY <1>4, <1>5

\* A stored record is the deal its signature covers, of its own intent and owner.
LEMMA StoredDepositStep == ASSUME DepositInv, verifyStoredDeposit PROVE DepositInv'
<1> DEFINE r == depositRequest
           f == depositQuote.fields
           d == depositQuote.deal
           ok == /\ readStoredDeposit(f, depositQuote.attestation)
                 /\ boundToRecord(f, 1, depositRequest.wallet)
                 /\ ~recipientIsDestinationToken(f.recipient, f.toToken)
                 /\ verifyDepositAttestation(f, depositQuote.attestation)
<1>1. /\ r \in DepositRequests /\ f \in DealsTyped /\ d \in DealsTyped
      /\ depositQuote.attestation.over = attested(d)
  BY DEF verifyStoredDeposit, DepositInv
<1>2. UNCHANGED <<depositRequest, seenAddresses>> /\ depositStage' = "idle" BY DEF verifyStoredDeposit
<1>3. CASE ~ok
  <2>1. UNCHANGED displayed BY <1>3 DEF verifyStoredDeposit
  <2> QED BY <1>2, <2>1 DEF DepositInv, DepositsAreTheDeal
<1>4. CASE ok
  <2>1. displayed' = [by |-> "stored", address |-> f.address, intent |-> f.intent, deal |-> d]
    BY <1>4 DEF verifyStoredDeposit
  <2>2. /\ buildDepositAttestationMessage(f) = attested(d)
        /\ f.intent = 1 /\ normalizeAddress(f.wallet) = normalizeAddress(r.wallet)
        /\ ~recipientIsDestinationToken(f.recipient, f.toToken)
    BY <1>1, <1>4 DEF verifyDepositAttestation, recovers, boundToRecord
  <2> HIDE DEF f, ok
  <2>3. /\ IsAddress(f.recipient) /\ IsAddress(f.toToken) /\ IsAddress(d.wallet) /\ IsAddress(r.wallet)
        /\ IsAddress(d.recipient) /\ f.toToken.kind = "hex" /\ r.wallet.kind # "party"
    BY <1>1, DepositAddresses, DepositVerifyAssumption DEF DealsTyped
  <2>4. /\ f.intent = d.intent /\ sameAccount(f.address, d.address) /\ sameAccount(f.toToken, d.toToken)
        /\ normalizeAddress(f.wallet) = normalizeAddress(d.wallet)
        /\ f.recipient.kind = d.recipient.kind
        /\ f.recipient.kind # "party" => sameAccount(f.recipient, d.recipient)
    BY <1>1, <2>2, OneDeal
  <2>5. sameAccount(d.wallet, r.wallet) BY <2>2, <2>3, <2>4, NormalizedOnce
  <2>6. ~sameAccount(d.recipient, d.toToken)
    <3> SUFFICES ASSUME sameAccount(d.recipient, d.toToken) PROVE FALSE
      OBVIOUS
    <3>1. f.recipient.kind = "hex" BY <2>3, <2>4 DEF sameAccount
    <3>2. sameAccount(f.recipient, f.toToken) BY <2>4, <3>1 DEF sameAccount
    <3>3. f.recipient # NoAddress
      <4>1. NoAddress.kind = "none" BY DEF NoAddress, Address
      <4> QED BY <3>1, <4>1
    <3> QED BY <2>2, <2>3, <3>2, <3>3, NormalizedOnce DEF recipientIsDestinationToken
  <2>7. DepositsAreTheDeal' BY <1>2, <2>1, <2>2, <2>4, <2>5, <2>6 DEF DepositsAreTheDeal
  <2> QED BY <1>1, <1>2, <2>7 DEF DepositInv
<1> QED BY <1>3, <1>4

\* Every step keeps it.
LEMMA DepositSteps == DepositInv /\ [DepositNext]_depositVars => DepositInv'
<1> SUFFICES ASSUME DepositInv, [DepositNext]_depositVars PROVE DepositInv'
  OBVIOUS
<1>1. CASE ServeDeposit BY <1>1, DeliverStep DEF ServeDeposit
<1>2. CASE CheckDeposit BY <1>2, CheckDepositStep
<1>3. CASE RestoreDeposit BY <1>3, DeliverStep DEF RestoreDeposit
<1>4. CASE verifyStoredDeposit BY <1>4, StoredDepositStep
<1>5. CASE UNCHANGED depositVars BY <1>5 DEF depositVars, DepositInv, DepositsAreTheDeal
<1> QED BY <1>1, <1>2, <1>3, <1>4, <1>5 DEF DepositNext

\* Whatever deal is attested and whatever is sent beside the attestation, the deposit address shown is
\* of a deal the venue signed for this request, or for this record when it is restored.
\* Code: verifyDepositAttestation, assertDepositQuoteMatchesRequest (signer/src/deposit-verify.ts),
\* the client's deposit checks (machine/deposit.ts).
THEOREM DepositTheorem == DepositInit /\ [][DepositNext]_depositVars => []DepositsAreTheDeal
<1>1. DepositInv => DepositsAreTheDeal BY DEF DepositInv
<1> QED BY <1>1, DepositStarts, DepositSteps, PTL

\* Both verifiers and the readiness check together hold of what the user receives through, for every ask,
\* deal, operation and descriptor.  Code: deposit-verify, claim-verify, shielded-readiness.
THEOREM ReceiptsTheorem ==
  (DepositInit /\ [][DepositNext]_depositVars) /\ (ClaimInit /\ [][ClaimNext]_claimVars) /\ ReadinessSpec
  => []ReceiptsSound
<1>1. DepositsAreTheDeal /\ ClaimsAreTheAsk /\ ReadinessSound => ReceiptsSound BY DEF ReceiptsSound
<1> QED BY <1>1, DepositTheorem, ClaimTheorem, ReadinessTheorem, PTL

-----------------------------------------------------------------------------
(* An escrowed order. *)

\* The accounts an order may name where it names a contract or a signer, and where it pays.
Folded(S) == S \cup {foldCase(a) : a \in S}
EvmParties ==
  Folded({Venue, TokenA, TokenB, Wallet, Escrow, EscrowUpper, Solver, SolverUpper, Bond, Filler}
         \cup {ask.signer : ask \in EscrowAsks})
PaidParties ==
  EvmParties \cup Folded({AliceLower} \cup UNION {{ask.recipient, ask.toToken} : ask \in EscrowAsks})

\* What the venue, the contract and the solver may hold of an order.
Openings ==
  [recipient : PaidParties, toToken : PaidParties, toAmount : Int, blinding : Int, intentId : {"i", "j"}]
EscrowOrders ==
  [depositor : EvmParties, fromChainId : Int, fromToken : EvmParties, fromAmount : Int, toChainId : Int,
   fillDeadline : Int, escrow : EvmParties, opening : Openings]
EscrowTerms ==
  [depositor : EvmParties, fromChainId : Int, fromToken : EvmParties, fromAmount : Int, toChainId : Int,
   fillDeadline : Int, escrow : EvmParties, destCommitment : Openings]
EscrowPulls ==
  [kind : {ask.kind : ask \in EscrowAsks}, payee : EvmParties, token : EvmParties, amount : Int,
   orderId : EscrowTerms]
EscrowQuotes ==
  [terms : EscrowTerms, opening : Openings, quotedOrderId : EscrowTerms, pull : EscrowPulls, falsities : Int]
LockTerms ==
  [depositor : EvmParties, token : EvmParties, amount : Int, toChainId : Int, refundableAt : Int]
Locks == [id : EscrowTerms, lock : LockTerms, final : BOOLEAN]
Announcements ==
  [orderId : EscrowTerms, intentId : {"i", "j"}, fromChainId : Int, toChainId : Int, fromToken : EvmParties,
   fromAmount : Int, toToken : PaidParties]
FillAuths ==
  [fillId : Int, filler : EvmParties, to : PaidParties, token : PaidParties, amount : Int, deadline : Int,
   chainId : Int, fillerContract : EvmParties, by : {"authorizer", "stranger"}]
Awards ==
  [complete : BOOLEAN, intentRef : EscrowTerms, intentId : {"i", "j"}, address : EvmParties,
   orderTerms : EscrowTerms \cup {None}, opening : Openings, fillId : Int, output : Int, bond : EvmParties,
   bondChainId : Int, payee : EvmParties, acceptBy : Int, auth : FillAuths]

\* The case of an address is folded once, and folding it makes no other account of it.
LEMMA FoldedAddress ==
  ASSUME NEW a, IsAddress(a)
  PROVE  /\ IsAddress(foldCase(a)) /\ foldCase(a).kind = a.kind /\ foldCase(foldCase(a)) = foldCase(a)
         /\ sameAccount(foldCase(a), a) /\ sameAccount(a, foldCase(a))
<1>1. CASE a.kind = "hex"
  <2>1. foldCase(a) = Address("hex", a.letters, "lower") BY <1>1, Lowered DEF foldCase
  <2>2. /\ foldCase(a).kind = "hex" /\ foldCase(a).letters = a.letters /\ foldCase(a).case = "lower"
        /\ IsAddress(foldCase(a))
    BY <2>1, Built
  <2>3. foldCase(foldCase(a)) = Address("hex", a.letters, "lower") BY <2>2, Lowered DEF foldCase
  <2> QED BY <1>1, <2>1, <2>2, <2>3 DEF sameAccount
<1>2. CASE a.kind # "hex" BY <1>2 DEF foldCase, sameAccount
<1> QED BY <1>1, <1>2

\* An account is the same as itself, whichever way it is asked and through whichever third.
LEMMA OneAccount ==
  /\ \A a : sameAccount(a, a)
  /\ \A a, b : sameAccount(a, b) => sameAccount(b, a)
  /\ \A a, b, c : sameAccount(a, b) /\ sameAccount(b, c) => sameAccount(a, c)
BY DEF sameAccount

\* Two addresses that differ in case only are one account if either is an EVM address.
LEMMA EqIsOne ==
  ASSUME NEW a, NEW b, IsAddress(a), IsAddress(b), eqAddr(a, b), a.kind = "hex" \/ b.kind = "hex"
  PROVE  sameAccount(a, b)
<1>1. Address(a.kind, a.letters, "lower") = Address(b.kind, b.letters, "lower")
  BY Lowered DEF eqAddr, lowercased
<1>2. a.kind = b.kind /\ a.letters = b.letters BY <1>1, Fields
<1> QED BY <1>2 DEF sameAccount

\* The parties are addresses, and their folded forms are parties.
LEMMA EvmPartiesAre ==
  /\ \A a \in EvmParties : IsAddress(a) /\ a.kind = "hex" /\ foldCase(a) \in EvmParties
  /\ {Venue, TokenA, TokenB, Wallet, Escrow, EscrowUpper, Solver, SolverUpper, Bond, Filler} \subseteq EvmParties
  /\ \A ask \in EscrowAsks : ask.signer \in EvmParties
<1> DEFINE S == {Venue, TokenA, TokenB, Wallet, Escrow, EscrowUpper, Solver, SolverUpper, Bond, Filler}
               \cup {ask.signer : ask \in EscrowAsks}
<1>1. \A a \in S : IsAddress(a) /\ a.kind = "hex"
  <2>1. \A a \in {Venue, TokenA, TokenB, Wallet, Escrow, EscrowUpper, Solver, SolverUpper, Bond, Filler} :
           IsAddress(a) /\ a.kind = "hex"
    BY Built DEF Venue, TokenA, TokenB, Wallet, Escrow, EscrowUpper, Solver, SolverUpper, Bond, Filler
  <2> QED BY <2>1, BindingAssumption
<1>2. EvmParties = S \cup {foldCase(a) : a \in S} BY DEF EvmParties, Folded
<1>3. /\ {Venue, TokenA, TokenB, Wallet, Escrow, EscrowUpper, Solver, SolverUpper, Bond, Filler} \subseteq S
      /\ \A ask \in EscrowAsks : ask.signer \in S
  OBVIOUS
<1> HIDE DEF S
<1>4. ASSUME NEW a \in EvmParties PROVE IsAddress(a) /\ a.kind = "hex" /\ foldCase(a) \in EvmParties
  <2>1. CASE a \in S BY <1>1, <1>2, <2>1
  <2>2. CASE \E b \in S : a = foldCase(b) BY <1>1, <1>2, <2>2, FoldedAddress
  <2> QED BY <1>2, <2>1, <2>2
<1> QED BY <1>2, <1>3, <1>4

\* The same of the parties an order pays.
LEMMA PaidPartiesAre ==
  /\ \A a \in PaidParties : IsAddress(a) /\ foldCase(a) \in PaidParties
  /\ AliceLower \in PaidParties /\ EvmParties \subseteq PaidParties
  /\ \A ask \in EscrowAsks : ask.recipient \in PaidParties /\ ask.toToken \in PaidParties
<1> DEFINE S == {AliceLower} \cup UNION {{ask.recipient, ask.toToken} : ask \in EscrowAsks}
<1>1. \A a \in S : IsAddress(a)
  BY Built, BindingAssumption DEF AliceLower
<1>2. PaidParties = EvmParties \cup (S \cup {foldCase(a) : a \in S}) BY DEF PaidParties, Folded
<1>3. AliceLower \in S /\ \A ask \in EscrowAsks : ask.recipient \in S /\ ask.toToken \in S
  OBVIOUS
<1> HIDE DEF S
<1>4. ASSUME NEW a \in PaidParties PROVE IsAddress(a) /\ foldCase(a) \in PaidParties
  <2>1. CASE a \in S BY <1>1, <1>2, <2>1
  <2>2. CASE \E b \in S : a = foldCase(b) BY <1>1, <1>2, <2>2, FoldedAddress
  <2>3. CASE a \in EvmParties BY <1>2, <2>3, EvmPartiesAre
  <2> QED BY <1>2, <2>1, <2>2, <2>3
<1> QED BY <1>2, <1>3, <1>4

\* The hashes of what an order may be.
LEMMA Hashed ==
  /\ \A o \in Openings : computeDestCommitment(o) \in Openings
  /\ \A o \in Openings : /\ computeDestCommitment(o).recipient = foldCase(o.recipient)
                           /\ computeDestCommitment(o).toToken = foldCase(o.toToken)
                           /\ computeDestCommitment(o).toAmount = o.toAmount
  /\ \A t \in EscrowTerms : computeOrderId(t) \in EscrowTerms
  /\ \A t \in EscrowTerms :
       /\ computeOrderId(t).depositor = foldCase(t.depositor)
       /\ computeOrderId(t).fromToken = foldCase(t.fromToken)
       /\ computeOrderId(t).escrow = foldCase(t.escrow)
       /\ computeOrderId(t).fromChainId = t.fromChainId /\ computeOrderId(t).toChainId = t.toChainId
       /\ computeOrderId(t).fromAmount = t.fromAmount /\ computeOrderId(t).fillDeadline = t.fillDeadline
       /\ computeOrderId(t).destCommitment = t.destCommitment
<1>1. \A a \in EvmParties : foldCase(a) \in EvmParties BY EvmPartiesAre
<1>2. \A a \in PaidParties : foldCase(a) \in PaidParties BY PaidPartiesAre
<1>3. \A o \in Openings :
         /\ computeDestCommitment(o) \in Openings
         /\ computeDestCommitment(o).recipient = foldCase(o.recipient)
         /\ computeDestCommitment(o).toToken = foldCase(o.toToken)
         /\ computeDestCommitment(o).toAmount = o.toAmount
  BY <1>2 DEF Openings, computeDestCommitment, canonicalKey
<1>4. \A t \in EscrowTerms : computeOrderId(t) \in EscrowTerms
  BY <1>1 DEF EscrowTerms, computeOrderId
<1>5. \A t \in EscrowTerms :
       /\ computeOrderId(t).depositor = foldCase(t.depositor)
       /\ computeOrderId(t).fromToken = foldCase(t.fromToken)
       /\ computeOrderId(t).escrow = foldCase(t.escrow)
       /\ computeOrderId(t).fromChainId = t.fromChainId /\ computeOrderId(t).toChainId = t.toChainId
       /\ computeOrderId(t).fromAmount = t.fromAmount /\ computeOrderId(t).fillDeadline = t.fillDeadline
       /\ computeOrderId(t).destCommitment = t.destCommitment
  BY DEF EscrowTerms, computeOrderId
<1> QED BY <1>3, <1>4, <1>5

\* The terms of an order, and the venue's own order.
LEMMA TermsTyped ==
  /\ \A o \in EscrowOrders : termsOf(o) \in EscrowTerms /\ o.opening \in Openings
  /\ \A ask \in EscrowAsks : orderFor(ask) \in EscrowOrders
  /\ venueOrder \in EscrowOrders
<1>1. \A o \in EscrowOrders : o.opening \in Openings BY DEF EscrowOrders
<1>2. \A o \in EscrowOrders : termsOf(o) \in EscrowTerms
  <2> TAKE o \in EscrowOrders
  <2>1. computeDestCommitment(o.opening) \in Openings BY <1>1, Hashed
  <2> QED BY <2>1 DEF EscrowOrders, EscrowTerms, termsOf
<1>3. ASSUME NEW ask, ask.signer \in EvmParties, ask.recipient \in PaidParties, ask.toToken \in PaidParties,
             ask.toChainId \in Int, ask.minOut \in Int
      PROVE  orderFor(ask) \in EscrowOrders
  <2> DEFINE opening == [recipient |-> ask.recipient, toToken |-> ask.toToken, toAmount |-> ask.minOut,
                         blinding |-> 1, intentId |-> "i"]
  <2>1. opening \in Openings BY <1>3 DEF Openings
  <2>2. orderFor(ask) = [depositor |-> ask.signer, fromChainId |-> 1, fromToken |-> TokenA, fromAmount |-> 2,
           toChainId |-> ask.toChainId, fillDeadline |-> 4, escrow |-> Escrow, opening |-> opening]
    BY DEF orderFor
  <2> HIDE DEF opening
  <2>3. TokenA \in EvmParties /\ Escrow \in EvmParties BY EvmPartiesAre
  <2> QED BY <1>3, <2>1, <2>2, <2>3 DEF EscrowOrders
<1>4. \A ask \in EscrowAsks : orderFor(ask) \in EscrowOrders
  BY <1>3, EvmPartiesAre, PaidPartiesAre, BindingAssumption
<1>5. venueOrder \in EscrowOrders
  <2> DEFINE ask == [signer |-> Venue, recipient |-> Venue, toToken |-> TokenB, toChainId |-> 2, minOut |-> 1]
  <2>1. ask.signer \in EvmParties /\ ask.recipient \in PaidParties /\ ask.toToken \in PaidParties
        /\ ask.toChainId \in Int /\ ask.minOut \in Int
    BY EvmPartiesAre, PaidPartiesAre
  <2>2. venueOrder = [orderFor(ask) EXCEPT !.fromAmount = 1] BY DEF venueOrder
  <2> HIDE DEF ask
  <2>3. orderFor(ask) \in EscrowOrders BY <1>3, <2>1
  <2> QED BY <2>2, <2>3 DEF EscrowOrders
<1> QED BY <1>1, <1>2, <1>4, <1>5

\* A changed order is an order.
LEMMA ChangedTyped ==
  ASSUME NEW o \in EscrowOrders, NEW lie \in orderLies
  PROVE  changed(o, lie.field, lie.value) \in EscrowOrders
<1>1. o.opening \in Openings /\ DOMAIN o = {"depositor", "fromChainId", "fromToken", "fromAmount", "toChainId",
                                             "fillDeadline", "escrow", "opening"}
  BY DEF EscrowOrders
<1>2. \A f \in {"fromChainId", "toChainId", "fromAmount", "fillDeadline"}, v \in Int :
         [o EXCEPT ![f] = v] \in EscrowOrders
  BY DEF EscrowOrders
<1>3. \A f \in {"depositor", "fromToken", "escrow"}, v \in EvmParties : [o EXCEPT ![f] = v] \in EscrowOrders
  BY DEF EscrowOrders
<1>4. \A p \in Openings : [o EXCEPT !.opening = p] \in EscrowOrders BY DEF EscrowOrders
<1>5. \A p \in Openings :
         /\ \A f \in {"toAmount", "blinding"}, v \in Int : [p EXCEPT ![f] = v] \in Openings
         /\ \A f \in {"recipient", "toToken"}, v \in PaidParties : [p EXCEPT ![f] = v] \in Openings
         /\ \A f \in {"intentId"}, v \in {"i", "j"} : [p EXCEPT ![f] = v] \in Openings
  BY DEF Openings
<1>6. \A f, v : [o EXCEPT !.opening[f] = v] = [o EXCEPT !.opening = [o.opening EXCEPT ![f] = v]] BY <1>1
<1>7. /\ {Venue, TokenB, Wallet} \subseteq EvmParties /\ {Venue, TokenB, Wallet, AliceLower} \subseteq PaidParties
      /\ {1, 2, 3} \subseteq Int /\ {0, 2} \subseteq Int
  BY EvmPartiesAre, PaidPartiesAre
<1> DEFINE f == lie.field  v == lie.value
<1>8. \/ f \in {"fromChainId", "toChainId", "fromAmount", "fillDeadline"} /\ v \in Int
      \/ f \in {"depositor", "fromToken", "escrow"} /\ v \in EvmParties
      \/ f \in {"toAmount", "blinding"} /\ v \in Int
      \/ f \in {"recipient", "toToken"} /\ v \in PaidParties
      \/ f \in {"intentId"} /\ v \in {"i", "j"}
  BY <1>7 DEF orderLies
<1> HIDE DEF f, v
<1>9. CASE f \in {"fromChainId", "toChainId", "fromAmount", "fillDeadline"} /\ v \in Int
  <2>1. f \in DOMAIN o BY <1>1, <1>9
  <2> QED BY <1>2, <1>9, <2>1 DEF changed, f, v
<1>10. CASE f \in {"depositor", "fromToken", "escrow"} /\ v \in EvmParties
  <2>1. f \in DOMAIN o BY <1>1, <1>10
  <2> QED BY <1>3, <1>10, <2>1 DEF changed, f, v
<1>11. CASE \/ f \in {"toAmount", "blinding"} /\ v \in Int
            \/ f \in {"recipient", "toToken"} /\ v \in PaidParties
            \/ f \in {"intentId"} /\ v \in {"i", "j"}
  <2>1. f \notin DOMAIN o BY <1>1, <1>11
  <2>2. [o.opening EXCEPT ![f] = v] \in Openings BY <1>1, <1>5, <1>11
  <2>3. changed(o, f, v) = [o EXCEPT !.opening = [o.opening EXCEPT ![f] = v]] BY <1>6, <2>1 DEF changed
  <2> QED BY <1>4, <2>2, <2>3 DEF f, v
<1> QED BY <1>8, <1>9, <1>10, <1>11

\* What an honest venue quotes of an order, and what it may quote beside it.
LEMMA QuoteTyped ==
  ASSUME NEW o \in EscrowOrders, NEW kind \in {ask.kind : ask \in EscrowAsks}
  PROVE  quoteFor(o, kind) \in EscrowQuotes
<1>1. termsOf(o) \in EscrowTerms /\ o.opening \in Openings BY TermsTyped
<1>2. computeOrderId(termsOf(o)) \in EscrowTerms BY <1>1, Hashed
<1>3. [kind |-> kind, payee |-> o.escrow, token |-> o.fromToken, amount |-> o.fromAmount,
       orderId |-> computeOrderId(termsOf(o))] \in EscrowPulls
  BY <1>2 DEF EscrowOrders, EscrowPulls
<1> QED BY <1>1, <1>2, <1>3 DEF quoteFor, EscrowQuotes

\* What the venue quotes beside it is a quote too.
LEMMA BesidesTyped ==
  ASSUME NEW q \in EscrowQuotes, NEW other \in EscrowQuotes
  PROVE  besides(q, other) \subseteq EscrowQuotes
<1>1. q.pull \in EscrowPulls /\ q.terms \in EscrowTerms /\ other.quotedOrderId \in EscrowTerms
      /\ other.terms.destCommitment \in Openings
  BY DEF EscrowQuotes, EscrowTerms
<1>2. /\ \A p \in EscrowPulls : [q EXCEPT !.pull = p] \in EscrowQuotes
      /\ \A t \in EscrowTerms : [q EXCEPT !.quotedOrderId = t] \in EscrowQuotes
      /\ \A p \in EscrowPulls, t \in EscrowTerms : [q EXCEPT !.quotedOrderId = t, !.pull = p] \in EscrowQuotes
      /\ \A t \in EscrowTerms : [q EXCEPT !.terms = t] \in EscrowQuotes
  BY DEF EscrowQuotes
<1>3. /\ \A a \in EvmParties : [q.pull EXCEPT !.payee = a] \in EscrowPulls /\ [q.pull EXCEPT !.token = a] \in EscrowPulls
      /\ [q.pull EXCEPT !.amount = 3] \in EscrowPulls
      /\ \A t \in EscrowTerms : [q.pull EXCEPT !.orderId = t] \in EscrowPulls
  BY <1>1 DEF EscrowPulls
<1>4. \A c \in Openings : [q.terms EXCEPT !.destCommitment = c] \in EscrowTerms BY <1>1 DEF EscrowTerms
<1>5. {Venue, EscrowUpper, TokenB} \subseteq EvmParties BY EvmPartiesAre
<1>6. /\ \A v : [q EXCEPT !.pull.payee = v] = [q EXCEPT !.pull = [q.pull EXCEPT !.payee = v]]
      /\ \A v : [q EXCEPT !.pull.token = v] = [q EXCEPT !.pull = [q.pull EXCEPT !.token = v]]
      /\ \A v : [q EXCEPT !.pull.amount = v] = [q EXCEPT !.pull = [q.pull EXCEPT !.amount = v]]
      /\ \A v : [q EXCEPT !.pull.orderId = v] = [q EXCEPT !.pull = [q.pull EXCEPT !.orderId = v]]
      /\ \A v : [q EXCEPT !.terms.destCommitment = v] = [q EXCEPT !.terms = [q.terms EXCEPT !.destCommitment = v]]
      /\ \A u, v : [q EXCEPT !.quotedOrderId = u, !.pull.orderId = v]
                    = [q EXCEPT !.quotedOrderId = u, !.pull = [q.pull EXCEPT !.orderId = v]]
  BY DEF EscrowQuotes
<1>7. [q EXCEPT !.pull.payee = Venue] \in EscrowQuotes /\ [q EXCEPT !.pull.payee = EscrowUpper] \in EscrowQuotes
      /\ [q EXCEPT !.pull.token = TokenB] \in EscrowQuotes /\ [q EXCEPT !.pull.amount = 3] \in EscrowQuotes
  BY <1>2, <1>3, <1>5, <1>6
<1>8. [q EXCEPT !.quotedOrderId = other.quotedOrderId] \in EscrowQuotes
      /\ [q EXCEPT !.pull.orderId = other.quotedOrderId] \in EscrowQuotes
      /\ [q EXCEPT !.quotedOrderId = other.quotedOrderId, !.pull.orderId = other.quotedOrderId] \in EscrowQuotes
      /\ [q EXCEPT !.terms.destCommitment = other.terms.destCommitment] \in EscrowQuotes
  BY <1>1, <1>2, <1>3, <1>4, <1>6
<1> QED BY <1>7, <1>8 DEF besides

\* Whatever is quoted is a quote.
LEMMA QuotedTyped ==
  ASSUME escrowAsk \in EscrowAsks, QuoteEscrow
  PROVE  escrowQuote' \in EscrowQuotes
<1>1. PICK n \in 0..MaxFalse, a \in orderLies, b \in orderLies :
        LET zero == orderFor(escrowAsk)
            one == changed(zero, a.field, a.value)
            two == changed(one, b.field, b.value)
            kind == escrowAsk.kind
            quotes == CASE n = 0 -> {quoteFor(zero, kind)}
                        [] n = 1 -> {quoteFor(one, kind)} \cup besides(quoteFor(zero, kind), quoteFor(one, kind))
                        [] OTHER -> {quoteFor(two, kind)} \cup besides(quoteFor(one, kind), quoteFor(two, kind))
        IN \E q \in quotes : escrowQuote' = [q EXCEPT !.falsities = n]
  BY DEF QuoteEscrow
<1> DEFINE zero == orderFor(escrowAsk)
           one == changed(zero, a.field, a.value)
           two == changed(one, b.field, b.value)
           kind == escrowAsk.kind
<1>2. zero \in EscrowOrders BY TermsTyped
<1>3. one \in EscrowOrders BY <1>2, ChangedTyped
<1>4. two \in EscrowOrders BY <1>3, ChangedTyped
<1>5. kind \in {ask.kind : ask \in EscrowAsks} OBVIOUS
<1> HIDE DEF zero, one, two, kind
<1>6. quoteFor(zero, kind) \in EscrowQuotes /\ quoteFor(one, kind) \in EscrowQuotes /\ quoteFor(two, kind) \in EscrowQuotes
  BY <1>2, <1>3, <1>4, <1>5, QuoteTyped
<1>7. besides(quoteFor(zero, kind), quoteFor(one, kind)) \subseteq EscrowQuotes
      /\ besides(quoteFor(one, kind), quoteFor(two, kind)) \subseteq EscrowQuotes
  BY <1>6, BesidesTyped
<1>8. \E q \in EscrowQuotes : escrowQuote' = [q EXCEPT !.falsities = n]
  BY <1>1, <1>6, <1>7 DEF zero, one, two, kind
<1> QED BY <1>8 DEF EscrowQuotes

\* The orders a pull can open.
OpenOrders == {signedOrder, ownOrder}

\* The locks and announcements made of them are of their types.
LEMMA OpenedTyped ==
  ASSUME escrowQuote \in EscrowQuotes, NEW order \in OpenOrders
  PROVE  /\ order.terms \in EscrowTerms /\ order.opening \in Openings
         /\ lockOf(order.terms) \in LockTerms /\ announcementOf(order) \in Announcements
<1>1. escrowQuote.pull.orderId \in EscrowTerms /\ escrowQuote.pull.orderId.destCommitment \in Openings
  BY DEF EscrowQuotes, EscrowPulls, EscrowTerms
<1>2. computeOrderId(termsOf(venueOrder)) \in EscrowTerms /\ venueOrder.opening \in Openings
  BY TermsTyped, Hashed
<1>3. order.terms \in EscrowTerms /\ order.opening \in Openings
  BY <1>1, <1>2 DEF OpenOrders, signedOrder, ownOrder
<1>4. lockOf(order.terms) \in LockTerms
  BY <1>3, BindingAssumption DEF lockOf, EscrowTerms, LockTerms
<1>5. announcementOf(order) \in Announcements
  BY <1>3, PaidPartiesAre DEF announcementOf, EscrowTerms, Openings, Announcements
<1> QED BY <1>3, <1>4, <1>5

\* An announcement with a field changed is one.
LEMMA AnnouncedTyped ==
  ASSUME NEW ann \in Announcements, NEW lie \in rfqLies
  PROVE  [ann EXCEPT ![lie.field] = lie.value] \in Announcements
<1>1. /\ \A f \in {"fromAmount", "toChainId"}, v \in Int : [ann EXCEPT ![f] = v] \in Announcements
      /\ \A f \in {"fromToken"}, v \in EvmParties : [ann EXCEPT ![f] = v] \in Announcements
      /\ \A f \in {"toToken"}, v \in PaidParties : [ann EXCEPT ![f] = v] \in Announcements
      /\ \A f \in {"intentId"}, v \in {"i", "j"} : [ann EXCEPT ![f] = v] \in Announcements
  BY DEF Announcements
<1>2. Venue \in EvmParties /\ Venue \in PaidParties /\ NoNumber \in Int /\ 3 \in Int
  BY EvmPartiesAre, PaidPartiesAre DEF NoNumber
<1>3. \/ lie.field \in {"fromAmount", "toChainId"} /\ lie.value \in Int
      \/ lie.field = "fromToken" /\ lie.value \in EvmParties
      \/ lie.field = "toToken" /\ lie.value \in PaidParties
      \/ lie.field = "intentId" /\ lie.value \in {"i", "j"}
  BY <1>2 DEF rfqLies
<1> QED BY <1>1, <1>3

\* An award of an order is one.
LEMMA AwardTyped ==
  ASSUME escrowQuote \in EscrowQuotes, NEW order \in OpenOrders, NEW terms \in BOOLEAN
  PROVE  awardOf(order, terms) \in Awards
<1>1. order.terms \in EscrowTerms /\ order.opening \in Openings BY OpenedTyped
<1> DEFINE auth == [fillId |-> 1, filler |-> Solver, to |-> order.opening.recipient,
                    token |-> order.opening.toToken, amount |-> order.opening.toAmount, deadline |-> 4,
                    chainId |-> order.terms.toChainId, fillerContract |-> Filler, by |-> "authorizer"]
<1>2. /\ order.opening.recipient \in PaidParties /\ order.opening.toToken \in PaidParties
      /\ order.opening.toAmount \in Int /\ order.terms.toChainId \in Int /\ order.opening.intentId \in {"i", "j"}
  BY <1>1 DEF EscrowTerms, Openings
<1>3. {Solver, Filler, Bond, Escrow} \subseteq EvmParties BY EvmPartiesAre
<1>4. auth \in FillAuths BY <1>2, <1>3 DEF FillAuths
<1>5. awardOf(order, terms) =
        [complete |-> TRUE, intentRef |-> order.terms, intentId |-> order.opening.intentId, address |-> Escrow,
         orderTerms |-> IF terms THEN order.terms ELSE None,
         opening |-> order.opening, fillId |-> 1, output |-> BidOutput, bond |-> Bond, bondChainId |-> 1,
         payee |-> Solver, acceptBy |-> AcceptBudget, auth |-> auth]
  BY DEF awardOf
<1> HIDE DEF auth
<1>6. (IF terms THEN order.terms ELSE None) \in EscrowTerms \cup {None} BY <1>1
<1> QED BY <1>1, <1>2, <1>3, <1>4, <1>5, <1>6, BindingAssumption DEF Awards

\* A misstated award is one.
LEMMA MisstatedTyped ==
  ASSUME NEW a \in Awards, NEW lie \in awardLies
  PROVE  misstate(a, lie) \in Awards
<1>1. /\ \A f \in {"address", "bond", "payee"}, v \in EvmParties : [a EXCEPT ![f] = v] \in Awards
      /\ \A f \in {"bondChainId", "fillId", "output", "acceptBy"}, v \in Int : [a EXCEPT ![f] = v] \in Awards
      /\ \A f \in {"complete"}, v \in BOOLEAN : [a EXCEPT ![f] = v] \in Awards
      /\ \A f \in {"intentId"}, v \in {"i", "j"} : [a EXCEPT ![f] = v] \in Awards
      /\ \A o \in Openings : [a EXCEPT !["opening"] = o] \in Awards
      /\ \A u \in FillAuths : [a EXCEPT !["auth"] = u] \in Awards
  BY DEF Awards
<1>2. a.opening \in Openings /\ a.auth \in FillAuths BY DEF Awards
<1>3. \A o \in Openings :
         /\ \A f \in {"toAmount"}, v \in Int : [o EXCEPT ![f] = v] \in Openings
         /\ \A f \in {"recipient", "toToken"}, v \in PaidParties : [o EXCEPT ![f] = v] \in Openings
         /\ \A f \in {"intentId"}, v \in {"i", "j"} : [o EXCEPT ![f] = v] \in Openings
  BY DEF Openings
<1>4. \A u \in FillAuths :
         /\ \A f \in {"amount", "deadline", "fillId", "chainId"}, v \in Int : [u EXCEPT ![f] = v] \in FillAuths
         /\ \A f \in {"filler", "fillerContract"}, v \in EvmParties : [u EXCEPT ![f] = v] \in FillAuths
         /\ \A f \in {"to", "token"}, v \in PaidParties : [u EXCEPT ![f] = v] \in FillAuths
         /\ \A f \in {"by"}, v \in {"authorizer", "stranger"} : [u EXCEPT ![f] = v] \in FillAuths
  BY DEF FillAuths
<1>5. /\ {Venue, SolverUpper} \subseteq EvmParties /\ {Venue, AliceLower} \subseteq PaidParties
      /\ BidOutput \in Int /\ BidOutput + 1 \in Int
  BY EvmPartiesAre, PaidPartiesAre, BindingAssumption
<1> DEFINE p == lie.part  f == lie.field  v == lie.value
<1>6. \/ p = "award" /\ f \in {"address", "bond", "payee"} /\ v \in EvmParties
      \/ p = "award" /\ f \in {"bondChainId", "fillId", "output", "acceptBy"} /\ v \in Int
      \/ p = "award" /\ f \in {"complete"} /\ v \in BOOLEAN
      \/ p = "award" /\ f \in {"intentId"} /\ v \in {"i", "j"}
      \/ p = "opening" /\ f \in {"toAmount"} /\ v \in Int
      \/ p = "opening" /\ f \in {"recipient", "toToken"} /\ v \in PaidParties
      \/ p = "opening" /\ f \in {"intentId"} /\ v \in {"i", "j"}
      \/ p = "auth" /\ f \in {"amount", "deadline", "fillId", "chainId"} /\ v \in Int
      \/ p = "auth" /\ f \in {"filler", "fillerContract"} /\ v \in EvmParties
      \/ p = "auth" /\ f \in {"to", "token"} /\ v \in PaidParties
      \/ p = "auth" /\ f \in {"by"} /\ v \in {"authorizer", "stranger"}
  <2>1. \A P, F, V : lie \in [part : P, field : F, value : V] => p \in P /\ f \in F /\ v \in V OBVIOUS
  <2>2. \/ lie \in [part : {"award"}, field : {"address", "bond", "payee"}, value : {Venue}]
        \/ lie \in [part : {"award"}, field : {"bondChainId", "fillId"}, value : {2}]
        \/ lie \in [part : {"award"}, field : {"output"}, value : {BidOutput + 1}]
        \/ lie \in [part : {"award"}, field : {"acceptBy"}, value : {0}]
        \/ lie \in [part : {"award"}, field : {"complete"}, value : {FALSE}]
        \/ lie \in [part : {"award"}, field : {"intentId"}, value : {"j"}]
        \/ lie \in [part : {"opening"}, field : {"recipient", "toToken"}, value : {Venue, AliceLower}]
        \/ lie \in [part : {"opening"}, field : {"toAmount"}, value : {0, BidOutput + 1}]
        \/ lie \in [part : {"opening"}, field : {"intentId"}, value : {"j"}]
        \/ lie \in [part : {"auth"}, field : {"filler", "to", "token", "fillerContract"}, value : {Venue}]
        \/ lie \in [part : {"auth"}, field : {"filler"}, value : {SolverUpper}]
        \/ lie \in [part : {"auth"}, field : {"amount"}, value : {0, BidOutput, BidOutput + 1}]
        \/ lie \in [part : {"auth"}, field : {"deadline"}, value : {1}]
        \/ lie \in [part : {"auth"}, field : {"fillId"}, value : {2}]
        \/ lie \in [part : {"auth"}, field : {"chainId"}, value : {3}]
        \/ lie \in [part : {"auth"}, field : {"by"}, value : {"stranger"}]
    BY DEF awardLies
  <2> HIDE DEF p, f, v
  <2>3. \/ p \in {"award"} /\ f \in {"address", "bond", "payee"} /\ v \in {Venue}
        \/ p \in {"award"} /\ f \in {"bondChainId", "fillId"} /\ v \in {2}
        \/ p \in {"award"} /\ f \in {"output"} /\ v \in {BidOutput + 1}
        \/ p \in {"award"} /\ f \in {"acceptBy"} /\ v \in {0}
        \/ p \in {"award"} /\ f \in {"complete"} /\ v \in {FALSE}
        \/ p \in {"award"} /\ f \in {"intentId"} /\ v \in {"j"}
        \/ p \in {"opening"} /\ f \in {"recipient", "toToken"} /\ v \in {Venue, AliceLower}
        \/ p \in {"opening"} /\ f \in {"toAmount"} /\ v \in {0, BidOutput + 1}
        \/ p \in {"opening"} /\ f \in {"intentId"} /\ v \in {"j"}
        \/ p \in {"auth"} /\ f \in {"filler", "to", "token", "fillerContract"} /\ v \in {Venue}
        \/ p \in {"auth"} /\ f \in {"filler"} /\ v \in {SolverUpper}
        \/ p \in {"auth"} /\ f \in {"amount"} /\ v \in {0, BidOutput, BidOutput + 1}
        \/ p \in {"auth"} /\ f \in {"deadline"} /\ v \in {1}
        \/ p \in {"auth"} /\ f \in {"fillId"} /\ v \in {2}
        \/ p \in {"auth"} /\ f \in {"chainId"} /\ v \in {3}
        \/ p \in {"auth"} /\ f \in {"by"} /\ v \in {"stranger"}
    BY <2>1, <2>2, Zenon
  <2>4. CASE p \in {"award"} /\ f \in {"address", "bond", "payee"} /\ v \in {Venue} BY <1>5, <2>4
  <2>5. CASE p \in {"award"} /\ f \in {"bondChainId", "fillId"} /\ v \in {2} BY <1>5, <2>5
  <2>6. CASE p \in {"award"} /\ f \in {"output"} /\ v \in {BidOutput + 1} BY <1>5, <2>6
  <2>7. CASE p \in {"award"} /\ f \in {"acceptBy"} /\ v \in {0} BY <1>5, <2>7
  <2>8. CASE p \in {"award"} /\ f \in {"complete"} /\ v \in {FALSE} BY <1>5, <2>8
  <2>9. CASE p \in {"award"} /\ f \in {"intentId"} /\ v \in {"j"} BY <1>5, <2>9
  <2>10. CASE p \in {"opening"} /\ f \in {"recipient", "toToken"} /\ v \in {Venue, AliceLower} BY <1>5, <2>10
  <2>11. CASE p \in {"opening"} /\ f \in {"toAmount"} /\ v \in {0, BidOutput + 1} BY <1>5, <2>11
  <2>12. CASE p \in {"opening"} /\ f \in {"intentId"} /\ v \in {"j"} BY <1>5, <2>12
  <2>13. CASE p \in {"auth"} /\ f \in {"filler", "to", "token", "fillerContract"} /\ v \in {Venue} BY <1>5, <2>13
  <2>14. CASE p \in {"auth"} /\ f \in {"filler"} /\ v \in {SolverUpper} BY <1>5, <2>14
  <2>15. CASE p \in {"auth"} /\ f \in {"amount"} /\ v \in {0, BidOutput, BidOutput + 1} BY <1>5, <2>15
  <2>16. CASE p \in {"auth"} /\ f \in {"deadline"} /\ v \in {1} BY <1>5, <2>16
  <2>17. CASE p \in {"auth"} /\ f \in {"fillId"} /\ v \in {2} BY <1>5, <2>17
  <2>18. CASE p \in {"auth"} /\ f \in {"chainId"} /\ v \in {3} BY <1>5, <2>18
  <2>19. CASE p \in {"auth"} /\ f \in {"by"} /\ v \in {"stranger"} BY <1>5, <2>19
  <2> QED
    BY <2>3, <2>4, <2>5, <2>6, <2>7, <2>8, <2>9, <2>10, <2>11, <2>12, <2>13, <2>14, <2>15, <2>16, <2>17, <2>18, <2>19
<1> HIDE DEF p, f, v
<1>7. CASE p = "award" BY <1>1, <1>6, <1>7 DEF misstate, p, f, v
<1>8. \A h, w : \A g \in {"opening", "auth"} : [a EXCEPT ![g][h] = w] = [a EXCEPT ![g] = [a[g] EXCEPT ![h] = w]]
  BY DEF Awards
<1>9. CASE p = "opening"
  <2>1. [a.opening EXCEPT ![f] = v] \in Openings BY <1>2, <1>3, <1>6, <1>9
  <2>2. misstate(a, lie) = [a EXCEPT !["opening"] = [a["opening"] EXCEPT ![f] = v]]
    BY <1>8, <1>9 DEF misstate, p, f, v
  <2> QED BY <1>1, <2>1, <2>2
<1>10. CASE p = "auth"
  <2>1. [a.auth EXCEPT ![f] = v] \in FillAuths BY <1>2, <1>4, <1>6, <1>10
  <2>2. misstate(a, lie) = [a EXCEPT !["auth"] = [a["auth"] EXCEPT ![f] = v]]
    BY <1>8, <1>10 DEF misstate, p, f, v
  <2> QED BY <1>1, <2>1, <2>2
<1> QED BY <1>6, <1>7, <1>9, <1>10

\* Two addresses folded alike are one account.
LEMMA FoldedAlike ==
  ASSUME NEW a, NEW b, IsAddress(a), IsAddress(b), canonicalKey(a) = canonicalKey(b)
  PROVE  sameAccount(a, b)
<1>1. sameAccount(a, foldCase(a)) /\ sameAccount(foldCase(b), b) BY FoldedAddress
<1>2. foldCase(a) = foldCase(b) BY DEF canonicalKey
<1> QED BY <1>1, <1>2, OneAccount

\* The order a pull opens is the one that was asked for.
AskBinds(ask, q) ==
  LET t == q.pull.orderId
      escrow == pinnedEscrowFor(ask, t.fromChainId)
  IN /\ escrow # NoAddress
     /\ sameAccount(q.pull.payee, escrow) /\ sameAccount(t.escrow, escrow)
     /\ sameAccount(t.depositor, ask.signer)
     /\ sameAccount(t.fromToken, q.pull.token) /\ t.fromAmount = q.pull.amount
     /\ t.toChainId = ask.toChainId
     /\ sameAccount(t.destCommitment.recipient, ask.recipient)
     /\ sameAccount(t.destCommitment.toToken, ask.toToken)
     /\ t.destCommitment.toAmount >= ask.minOut

\* What assertEscrowBinding passes binds the order to what was asked.
LEMMA AssertedBinds ==
  ASSUME NEW ask \in EscrowAsks, NEW q \in EscrowQuotes, assertEscrowBinding(ask, q)
  PROVE  AskBinds(ask, q)
<1> DEFINE t == q.pull.orderId
<1>1. q.terms \in EscrowTerms /\ q.opening \in Openings /\ q.pull \in EscrowPulls BY DEF EscrowQuotes
<1>2. /\ q.terms.depositor \in EvmParties /\ q.terms.fromToken \in EvmParties /\ q.terms.escrow \in EvmParties
      /\ q.pull.payee \in EvmParties /\ q.pull.token \in EvmParties
      /\ q.opening.recipient \in PaidParties /\ q.opening.toToken \in PaidParties
  BY <1>1 DEF EscrowTerms, EscrowPulls, Openings
<1>3. /\ IsAddress(q.terms.depositor) /\ IsAddress(q.terms.fromToken) /\ IsAddress(q.terms.escrow)
      /\ q.terms.depositor.kind = "hex" /\ q.terms.fromToken.kind = "hex" /\ q.terms.escrow.kind = "hex"
      /\ IsAddress(q.pull.payee) /\ IsAddress(q.pull.token)
      /\ q.pull.payee.kind = "hex" /\ q.pull.token.kind = "hex"
  BY <1>2, EvmPartiesAre
<1>4. IsAddress(q.opening.recipient) /\ IsAddress(q.opening.toToken) BY <1>2, PaidPartiesAre
<1>5. /\ canonicalKey(q.opening.recipient) = canonicalKey(ask.recipient)
      /\ canonicalKey(q.opening.toToken) = canonicalKey(ask.toToken)
      /\ q.opening.toAmount >= ask.minOut /\ q.terms.toChainId = ask.toChainId
      /\ q.terms.destCommitment = computeDestCommitment(q.opening)
      /\ t = computeOrderId(q.terms)
      /\ escrowIsPinned(ask, q)
      /\ eqAddr(q.terms.depositor, ask.signer) /\ eqAddr(q.terms.fromToken, q.pull.token)
      /\ q.terms.fromAmount = q.pull.amount
  BY DEF assertEscrowBinding, openingIsAsked, hashesMatch
<1>6. /\ t.depositor = foldCase(q.terms.depositor) /\ t.fromToken = foldCase(q.terms.fromToken)
      /\ t.escrow = foldCase(q.terms.escrow) /\ t.fromChainId = q.terms.fromChainId
      /\ t.toChainId = q.terms.toChainId /\ t.fromAmount = q.terms.fromAmount
      /\ t.destCommitment = computeDestCommitment(q.opening)
  BY <1>1, <1>5, Hashed
<1>7. /\ t.destCommitment.recipient = foldCase(q.opening.recipient)
      /\ t.destCommitment.toToken = foldCase(q.opening.toToken)
      /\ t.destCommitment.toAmount = q.opening.toAmount
  BY <1>1, <1>6, Hashed
<1>8. /\ IsAddress(ask.signer) /\ ask.signer.kind = "hex" /\ IsAddress(ask.recipient) /\ IsAddress(ask.toToken)
      /\ \A chain \in DOMAIN ask.escrows : IsAddress(ask.escrows[chain]) /\ ask.escrows[chain].kind = "hex"
  BY BindingAssumption
<1> HIDE DEF t
<1>9. /\ sameAccount(t.depositor, q.terms.depositor) /\ sameAccount(t.fromToken, q.terms.fromToken)
      /\ sameAccount(t.escrow, q.terms.escrow)
  BY <1>3, <1>6, FoldedAddress
<1>10. sameAccount(t.depositor, ask.signer) /\ sameAccount(t.fromToken, q.pull.token)
  <2>1. sameAccount(q.terms.depositor, ask.signer) /\ sameAccount(q.terms.fromToken, q.pull.token)
    BY <1>3, <1>5, <1>8, EqIsOne
  <2> QED BY <1>9, <2>1, OneAccount
<1>11. /\ sameAccount(t.destCommitment.recipient, ask.recipient)
       /\ sameAccount(t.destCommitment.toToken, ask.toToken)
  BY <1>4, <1>5, <1>7, <1>8, FoldedAddress DEF canonicalKey
<1> DEFINE escrow == pinnedEscrowFor(ask, t.fromChainId)
<1>12. escrow # NoAddress /\ eqAddr(q.terms.escrow, escrow) /\ eqAddr(q.pull.payee, escrow)
  BY <1>5, <1>6 DEF escrowIsPinned
<1>13. IsAddress(escrow) BY <1>8, <1>12 DEF pinnedEscrowFor, resolvePinnedEscrow
<1> HIDE DEF escrow
<1>14. sameAccount(q.terms.escrow, escrow) /\ sameAccount(q.pull.payee, escrow)
  BY <1>3, <1>12, <1>13, EqIsOne
<1>15. sameAccount(t.escrow, escrow) BY <1>9, <1>14, OneAccount
<1> QED BY <1>5, <1>6, <1>7, <1>10, <1>11, <1>12, <1>14, <1>15 DEF AskBinds, t, escrow

\* What the solver owes under a lock once it has prepared an award.
Owed(e, a, ann, by) ==
  /\ e.id = a.intentRef /\ e.final
  /\ e.id.toChainId = a.auth.chainId
  /\ sameAccount(e.id.destCommitment.recipient, a.auth.to)
  /\ sameAccount(e.id.destCommitment.toToken, a.auth.token)
  /\ e.id.destCommitment.toAmount <= a.auth.amount
  /\ a.auth.amount <= BidOutput
  /\ sameAccount(a.auth.filler, Solver) /\ sameAccount(a.auth.fillerContract, Filler)
  /\ a.auth.by = "authorizer"
  /\ sameAccount(a.bond, Bond) /\ a.bondChainId = 1
  /\ ann.orderId = e.id
  /\ by = "announcement" =>
       /\ sameAccount(e.lock.token, ann.fromToken)
       /\ ann.fromAmount \in {NoNumber, e.lock.amount}
       /\ sameAccount(a.auth.token, ann.toToken)

\* What prepare checks of an award under a final lock is what the solver owes.
LEMMA PreparedOwes ==
  ASSUME NEW a \in Awards, NEW e \in Locks, NEW ann \in Announcements, NEW announcement \in {ann, None},
         NEW origin, NEW terms \in EscrowTerms \cup {originTermsFromLock(e.lock, origin, c) : c \in Int},
         e.id = a.intentRef, e.final, ann.orderId = a.intentRef,
         checkAwardBond(a), verifyAward(a, origin, terms, announcement),
         checkLockMatchesTerms(e.lock, terms), isFillAuthorizer(a)
  PROVE  Owed(e, a, ann, IF announcement = None THEN "order" ELSE "announcement")
<1>1. a.opening \in Openings /\ a.auth \in FillAuths /\ a.bond \in EvmParties BY DEF Awards
<1>2. /\ a.opening.recipient \in PaidParties /\ a.opening.toToken \in PaidParties
      /\ a.auth.to \in PaidParties /\ a.auth.token \in PaidParties
      /\ a.auth.filler \in EvmParties /\ a.auth.fillerContract \in EvmParties
  BY <1>1 DEF Openings, FillAuths
<1>3. IsAddress(a.opening.recipient) /\ IsAddress(a.opening.toToken) /\ IsAddress(a.auth.to) /\ IsAddress(a.auth.token)
  BY <1>2, PaidPartiesAre
<1>4. /\ IsAddress(a.auth.filler) /\ IsAddress(a.auth.fillerContract) /\ IsAddress(a.bond)
      /\ IsAddress(Solver) /\ IsAddress(Filler) /\ IsAddress(Bond)
      /\ Solver.kind = "hex" /\ Filler.kind = "hex" /\ Bond.kind = "hex"
  BY <1>1, <1>2, EvmPartiesAre
<1> DEFINE hashed == [terms EXCEPT !.destCommitment = computeDestCommitment(a.opening)]
<1>5. /\ computeOrderId(hashed) = a.intentRef /\ terms.toChainId = a.auth.chainId
      /\ announcement # None => checkAnnouncement(a, hashed, computeOrderId(hashed), announcement)
      /\ a.opening.recipient.kind = "hex" /\ a.opening.toToken.kind = "hex"
      /\ authMatches(a) /\ withinBid(a)
  BY DEF verifyAward
<1>6. /\ DOMAIN terms = {"depositor", "fromChainId", "fromToken", "fromAmount", "toChainId", "fillDeadline",
                         "escrow", "destCommitment"}
      /\ terms = [x \in DOMAIN terms |-> terms[x]]
  BY DEF EscrowTerms, originTermsFromLock
<1>7. hashed.toChainId = terms.toChainId /\ hashed.fromToken = terms.fromToken /\ hashed.fromAmount = terms.fromAmount
      /\ hashed.destCommitment = computeDestCommitment(a.opening) /\ DOMAIN hashed = DOMAIN terms
  BY <1>6
<1>8. e.id.toChainId = terms.toChainId /\ e.id.destCommitment = computeDestCommitment(a.opening)
  <2> HIDE DEF hashed
  <2>1. computeOrderId(hashed).toChainId = hashed.toChainId
        /\ computeOrderId(hashed).destCommitment = hashed.destCommitment
    BY <1>6, <1>7 DEF computeOrderId
  <2> QED BY <1>5, <1>7, <2>1
<1>9. /\ e.id.destCommitment.recipient = foldCase(a.opening.recipient)
      /\ e.id.destCommitment.toToken = foldCase(a.opening.toToken)
      /\ e.id.destCommitment.toAmount = a.opening.toAmount
  BY <1>1, <1>8, Hashed
<1>10. /\ eqAddr(a.auth.filler, Solver) /\ eqAddr(a.auth.fillerContract, Filler)
       /\ eqAddr(a.auth.to, a.opening.recipient) /\ eqAddr(a.auth.token, a.opening.toToken)
       /\ a.auth.amount >= a.opening.toAmount /\ a.auth.amount <= BidOutput
       /\ eqAddr(a.bond, Bond) /\ a.bondChainId = 1 /\ a.auth.by = "authorizer"
  BY <1>5 DEF authMatches, withinBid, checkAwardBond, isFillAuthorizer
<1>11. /\ sameAccount(a.auth.filler, Solver) /\ sameAccount(a.auth.fillerContract, Filler)
       /\ sameAccount(a.bond, Bond)
  BY <1>4, <1>10, EqIsOne
<1>12. sameAccount(a.auth.to, a.opening.recipient) /\ sameAccount(a.auth.token, a.opening.toToken)
  BY <1>3, <1>5, <1>10, EqIsOne
<1>13. /\ sameAccount(foldCase(a.opening.recipient), a.opening.recipient)
       /\ sameAccount(foldCase(a.opening.toToken), a.opening.toToken)
  BY <1>3, FoldedAddress
<1>14. /\ sameAccount(e.id.destCommitment.recipient, a.auth.to)
       /\ sameAccount(e.id.destCommitment.toToken, a.auth.token)
  BY <1>9, <1>12, <1>13, OneAccount
<1>15. ASSUME announcement # None
       PROVE  /\ sameAccount(e.lock.token, ann.fromToken)
              /\ ann.fromAmount \in {NoNumber, e.lock.amount}
              /\ sameAccount(a.auth.token, ann.toToken)
  <2>1. announcement = ann BY <1>15
  <2>2. /\ eqAddr(ann.fromToken, terms.fromToken)
        /\ ann.fromAmount # NoNumber => ann.fromAmount = terms.fromAmount
        /\ canonicalKey(ann.toToken) = canonicalKey(a.opening.toToken)
    BY <1>5, <1>7, <1>15, <2>1 DEF checkAnnouncement
  <2>3. eqAddr(e.lock.token, terms.fromToken) /\ e.lock.amount = terms.fromAmount
    BY DEF checkLockMatchesTerms
  <2>4. e.lock.token \in EvmParties /\ ann.fromToken \in EvmParties /\ ann.toToken \in PaidParties
    BY DEF Locks, LockTerms, Announcements
  <2>5. /\ IsAddress(e.lock.token) /\ e.lock.token.kind = "hex" /\ IsAddress(ann.fromToken)
        /\ IsAddress(ann.toToken)
    BY <2>4, EvmPartiesAre, PaidPartiesAre
  <2>6. eqAddr(e.lock.token, ann.fromToken) BY <2>2, <2>3 DEF eqAddr
  <2>7. sameAccount(e.lock.token, ann.fromToken) BY <2>5, <2>6, EqIsOne
  <2>8. sameAccount(a.opening.toToken, ann.toToken) BY <1>3, <2>2, <2>5, FoldedAlike
  <2>9. sameAccount(a.auth.token, ann.toToken) BY <1>12, <2>8, OneAccount
  <2> QED BY <2>2, <2>3, <2>7, <2>9
<1>16. e.id.destCommitment.toAmount <= a.auth.amount
  BY <1>1, <1>9, <1>10 DEF Openings, FillAuths
<1> DEFINE by == IF announcement = None THEN "order" ELSE "announcement"
<1>17. by = "announcement" => announcement # None OBVIOUS
<1> HIDE DEF by
<1>18. Owed(e, a, ann, by) BY <1>5, <1>8, <1>10, <1>11, <1>14, <1>15, <1>16, <1>17 DEF Owed
<1> QED BY <1>18 DEF by

\* The stages an order passes from its asking to its claim.
SignedStages == {"signed", "announced", "awarded", "prepared", "accepted", "claimed", "dropped"}
FillStages == {"prepared", "accepted", "claimed"}

\* Every document is of its type from the stage that writes it on.
BindTyped ==
  /\ bindStage \in SignedStages \cup {"asked", "quoted", "refused"}
  /\ escrowAsk \in EscrowAsks
  /\ bindStage # "asked" => escrowQuote \in EscrowQuotes
  /\ locks \subseteq Locks
  /\ bindStage \in FillStages \cup {"announced", "awarded"} => rfq.ann \in Announcements
  /\ bindStage \in FillStages \cup {"awarded"} => award \in Awards

\* A fill under way is owed under a lock, which is final and so stays; once accepted its window fits
\* and the acceptance signed is of that award.
Binding ==
  /\ bindStage \in SignedStages => AskBinds(escrowAsk, escrowQuote)
  /\ bindStage \in FillStages =>
       \E e \in locks :
         /\ Owed(e, award, rfq.ann, acceptedFill.by)
         /\ bindStage # "prepared" => landsBy + AttestationLatency + SafetyMargin < e.lock.refundableAt
  /\ bindStage \in {"accepted", "claimed"} => acceptedFill.acceptance = fillAcceptanceOf(award)
  /\ bindStage = "claimed" => payout = [orderId |-> award.intentRef, payee |-> Solver]

BindInv == BindTyped /\ Binding

\* The invariant holds at the start.
LEMMA BindStarts == BindingInit => BindInv
<1> SUFFICES ASSUME BindingInit PROVE BindInv OBVIOUS
<1>1. bindStage = "asked" /\ escrowAsk \in EscrowAsks /\ locks = {} BY DEF BindingInit
<1> QED BY <1>1 DEF BindInv, BindTyped, Binding, SignedStages, FillStages

\* The venue's quote.
LEMMA BindQuoted ==
  ASSUME BindInv, QuoteEscrow
  PROVE  BindInv'
<1>1. /\ bindStage = "asked" /\ bindStage' = "quoted" /\ escrowAsk' = escrowAsk /\ locks' = locks
  BY DEF QuoteEscrow
<1>2. escrowAsk \in EscrowAsks /\ locks \subseteq Locks BY DEF BindInv, BindTyped
<1>3. escrowQuote' \in EscrowQuotes BY <1>2, QuotedTyped
<1> QED BY <1>1, <1>2, <1>3 DEF BindInv, BindTyped, Binding, SignedStages, FillStages

\* assertEscrowBinding, before the signature.
LEMMA BindBound ==
  ASSUME BindInv, BindEscrow
  PROVE  BindInv'
<1>1. /\ bindStage = "quoted" /\ escrowAsk' = escrowAsk /\ escrowQuote' = escrowQuote /\ locks' = locks
      /\ bindStage' = IF assertEscrowBinding(escrowAsk, escrowQuote) THEN "signed" ELSE "refused"
  BY DEF BindEscrow
<1>2. escrowAsk \in EscrowAsks /\ escrowQuote \in EscrowQuotes /\ locks \subseteq Locks
  BY <1>1 DEF BindInv, BindTyped
<1>3. bindStage' \in {"signed", "refused"} BY <1>1
<1>4. bindStage' = "signed" => assertEscrowBinding(escrowAsk, escrowQuote) BY <1>1
<1>5. bindStage' = "signed" => AskBinds(escrowAsk, escrowQuote) BY <1>2, <1>4, AssertedBinds
<1>6. AskBinds(escrowAsk', escrowQuote') <=> AskBinds(escrowAsk, escrowQuote) BY <1>1
<1> QED BY <1>1, <1>2, <1>3, <1>5, <1>6 DEF BindInv, BindTyped, Binding, SignedStages, FillStages

\* The contract: what is final stays.
LEMMA LocksMove ==
  ASSUME BindInv, locks' \subseteq Locks, \A e \in locks : e.final => e \in locks',
         UNCHANGED <<bindStage, escrowAsk, escrowQuote, rfq, award, acceptedFill, payout>>
  PROVE  BindInv'
<1>1. BindTyped' BY DEF BindInv, BindTyped
<1>2. bindStage \in FillStages =>
        \E e \in locks' :
          /\ Owed(e, award, rfq.ann, acceptedFill.by)
          /\ bindStage # "prepared" => landsBy + AttestationLatency + SafetyMargin < e.lock.refundableAt
  BY DEF BindInv, Binding, Owed
<1>3. Binding' BY <1>2 DEF BindInv, Binding, AskBinds, pinnedEscrowFor, fillAcceptanceOf, fillAuthDigest, Owed, landsBy
<1> QED BY <1>1, <1>3 DEF BindInv

\* A lock opens, turns final or is reorganised away.
LEMMA BindLocked ==
  ASSUME BindInv, OpenLock \/ Finalize \/ Reorg
  PROVE  BindInv'
<1>1. locks \subseteq Locks BY DEF BindInv, BindTyped
<1>2. CASE OpenLock
  <2>1. escrowQuote \in EscrowQuotes BY <1>2 DEF OpenLock, BindInv, BindTyped
  <2>2. PICK order \in OpenOrders :
          locks' = locks \cup {[id |-> order.terms, lock |-> lockOf(order.terms), final |-> FALSE]}
    BY <1>2 DEF OpenLock, OpenOrders
  <2>3. order.terms \in EscrowTerms /\ lockOf(order.terms) \in LockTerms BY <2>1, OpenedTyped
  <2>4. locks' \subseteq Locks
    <3> DEFINE opened == [id |-> order.terms, lock |-> lockOf(order.terms), final |-> FALSE]
    <3>1. opened \in Locks BY <2>3 DEF Locks
    <3>2. locks' = locks \cup {opened} BY <2>2
    <3> HIDE DEF opened
    <3> QED BY <1>1, <3>1, <3>2
  <2>5. \A e \in locks : e.final => e \in locks' BY <2>2
  <2>6. UNCHANGED <<bindStage, escrowAsk, escrowQuote, rfq, award, acceptedFill, payout>> BY <1>2 DEF OpenLock
  <2> QED BY <2>4, <2>5, <2>6, LocksMove
<1>3. CASE Finalize
  <2>1. PICK e \in locks : ~e.final /\ locks' = (locks \ {e}) \cup {[e EXCEPT !.final = TRUE]}
    BY <1>3 DEF Finalize
  <2>2. [e EXCEPT !.final = TRUE] \in Locks BY <1>1, <2>1 DEF Locks
  <2>3. locks' \subseteq Locks /\ \A d \in locks : d.final => d \in locks' BY <1>1, <2>1, <2>2
  <2>4. UNCHANGED <<bindStage, escrowAsk, escrowQuote, rfq, award, acceptedFill, payout>> BY <1>3 DEF Finalize
  <2> QED BY <2>3, <2>4, LocksMove
<1>4. CASE Reorg
  <2>1. PICK e \in locks : ~e.final /\ locks' = locks \ {e} BY <1>4 DEF Reorg
  <2>2. locks' \subseteq Locks /\ \A d \in locks : d.final => d \in locks' BY <1>1, <2>1
  <2>3. UNCHANGED <<bindStage, escrowAsk, escrowQuote, rfq, award, acceptedFill, payout>> BY <1>4 DEF Reorg
  <2> QED BY <2>2, <2>3, LocksMove
<1> QED BY <1>2, <1>3, <1>4

\* The announcement the solver bids on.
LEMMA BindAnnounced ==
  ASSUME BindInv, AnnounceOrder
  PROVE  BindInv'
<1>1. /\ bindStage = "signed" /\ bindStage' = "announced" /\ escrowAsk' = escrowAsk
      /\ escrowQuote' = escrowQuote /\ locks' = locks
  BY DEF AnnounceOrder
<1>2. /\ escrowAsk \in EscrowAsks /\ escrowQuote \in EscrowQuotes /\ locks \subseteq Locks
      /\ AskBinds(escrowAsk, escrowQuote)
  BY <1>1 DEF BindInv, BindTyped, Binding, SignedStages
<1>3. PICK order \in OpenOrders, lie \in rfqLies, n \in {0, 1} :
        rfq' = [ann |-> IF n = 0 THEN announcementOf(order)
                        ELSE [announcementOf(order) EXCEPT ![lie.field] = lie.value],
                falsities |-> escrowQuote.falsities + n]
  BY DEF AnnounceOrder, OpenOrders
<1>4. announcementOf(order) \in Announcements BY <1>2, OpenedTyped
<1>5. [announcementOf(order) EXCEPT ![lie.field] = lie.value] \in Announcements BY <1>4, AnnouncedTyped
<1>6. rfq'.ann \in Announcements BY <1>3, <1>4, <1>5
<1>7. AskBinds(escrowAsk', escrowQuote') BY <1>1, <1>2
<1> QED BY <1>1, <1>2, <1>6, <1>7 DEF BindInv, BindTyped, Binding, SignedStages, FillStages

\* The award, true or misstated.
LEMMA BindAwarded ==
  ASSUME BindInv, AwardFill
  PROVE  BindInv'
<1>1. /\ bindStage = "announced" /\ bindStage' = "awarded" /\ escrowAsk' = escrowAsk
      /\ escrowQuote' = escrowQuote /\ locks' = locks /\ rfq' = rfq
  BY DEF AwardFill
<1>2. /\ escrowAsk \in EscrowAsks /\ escrowQuote \in EscrowQuotes /\ locks \subseteq Locks
      /\ rfq.ann \in Announcements /\ AskBinds(escrowAsk, escrowQuote)
  BY <1>1 DEF BindInv, BindTyped, Binding, SignedStages
<1>3. PICK order \in OpenOrders, terms \in BOOLEAN, lie \in awardLies, other \in awardLies,
           n \in 0..(MaxFalse - rfq.falsities) :
        LET one == IF n = 0 THEN awardOf(order, terms) ELSE misstate(awardOf(order, terms), lie)
        IN award' = IF n < 2 THEN one ELSE misstate(one, other)
  BY DEF AwardFill, OpenOrders
<1> DEFINE one == IF n = 0 THEN awardOf(order, terms) ELSE misstate(awardOf(order, terms), lie)
<1>4. awardOf(order, terms) \in Awards BY <1>2, AwardTyped
<1>5. misstate(awardOf(order, terms), lie) \in Awards BY <1>4, MisstatedTyped
<1>6. one \in Awards BY <1>4, <1>5
<1>7. award' = IF n < 2 THEN one ELSE misstate(one, other) BY <1>3
<1> HIDE DEF one
<1>8. misstate(one, other) \in Awards BY <1>6, MisstatedTyped
<1>9. award' \in Awards BY <1>6, <1>7, <1>8
<1>10. AskBinds(escrowAsk', escrowQuote') BY <1>1, <1>2
<1> QED BY <1>1, <1>2, <1>9, <1>10 DEF BindInv, BindTyped, Binding, SignedStages, FillStages

\* The fill is prepared under a final lock.
LEMMA BindPrepared ==
  ASSUME BindInv, PrepareFill
  PROVE  BindInv'
<1>1. /\ bindStage = "awarded" /\ escrowAsk' = escrowAsk /\ escrowQuote' = escrowQuote
      /\ locks' = locks /\ rfq' = rfq /\ award' = award
  BY DEF PrepareFill
<1>2. /\ escrowAsk \in EscrowAsks /\ escrowQuote \in EscrowQuotes /\ locks \subseteq Locks
      /\ rfq.ann \in Announcements /\ award \in Awards /\ AskBinds(escrowAsk, escrowQuote)
  BY <1>1 DEF BindInv, BindTyped, Binding, SignedStages, FillStages
<1>3. PICK announcement \in {rfq.ann, None}, claimWindow \in {ClaimWindow, ClaimWindow + 1} :
       LET origin == resolveOrigin(award, announcement)
           ok == /\ requireFillableEscrow(award)
                 /\ rfq.ann.orderId = award.intentRef
                 /\ checkAwardBond(award)
                 /\ origin \in Origins
                 /\ award.auth.chainId \in Destinations
                 /\ \E e \in readFinalLock(award.intentRef) :
                      LET terms == IF award.orderTerms # None THEN award.orderTerms
                                   ELSE originTermsFromLock(e.lock, origin, claimWindow)
                      IN /\ verifyAward(award, origin, terms, announcement)
                         /\ checkLockMatchesTerms(e.lock, terms)
                         /\ isFillAuthorizer(award)
       IN /\ bindStage' = IF ok THEN "prepared" ELSE "dropped"
          /\ acceptedFill' = IF ok THEN [by |-> IF announcement = None THEN "order" ELSE "announcement"]
                             ELSE None
  BY DEF PrepareFill
<1> DEFINE origin == resolveOrigin(award, announcement)
           termsFor(e) == IF award.orderTerms # None THEN award.orderTerms
                          ELSE originTermsFromLock(e.lock, origin, claimWindow)
           by == IF announcement = None THEN "order" ELSE "announcement"
           ok == /\ requireFillableEscrow(award)
                 /\ rfq.ann.orderId = award.intentRef
                 /\ checkAwardBond(award)
                 /\ origin \in Origins
                 /\ award.auth.chainId \in Destinations
                 /\ \E e \in readFinalLock(award.intentRef) :
                         /\ verifyAward(award, origin, termsFor(e), announcement)
                         /\ checkLockMatchesTerms(e.lock, termsFor(e))
                         /\ isFillAuthorizer(award)
<1>4. bindStage' = (IF ok THEN "prepared" ELSE "dropped") /\ acceptedFill' = (IF ok THEN [by |-> by] ELSE None)
  BY <1>3
<1>5. ok => /\ rfq.ann.orderId = award.intentRef /\ checkAwardBond(award)
            /\ \E e \in locks : /\ e.id = award.intentRef /\ e.final
                                 /\ verifyAward(award, origin, termsFor(e), announcement)
                                 /\ checkLockMatchesTerms(e.lock, termsFor(e))
                                 /\ isFillAuthorizer(award)
  BY DEF readFinalLock
<1> HIDE DEF ok
<1>6. AskBinds(escrowAsk', escrowQuote') BY <1>1, <1>2
<1>7. CASE ~ok
  <2>1. bindStage' = "dropped" BY <1>4, <1>7
  <2> QED BY <1>1, <1>2, <1>6, <2>1 DEF BindInv, BindTyped, Binding, SignedStages, FillStages
<1>8. CASE ok
  <2>1. bindStage' = "prepared" /\ acceptedFill'.by = by BY <1>4, <1>8
  <2>2. PICK e \in locks : /\ e.id = award.intentRef /\ e.final
                           /\ verifyAward(award, origin, termsFor(e), announcement)
                           /\ checkLockMatchesTerms(e.lock, termsFor(e))
                           /\ isFillAuthorizer(award)
    BY <1>5, <1>8
  <2>3. claimWindow \in Int BY BindingAssumption
  <2>4. termsFor(e) \in EscrowTerms \cup {originTermsFromLock(e.lock, origin, c) : c \in Int}
    BY <1>2, <2>3 DEF Awards
  <2>5. e \in Locks /\ rfq.ann.orderId = award.intentRef /\ checkAwardBond(award) BY <1>2, <1>5, <1>8
  <2> HIDE DEF origin, termsFor
  <2>6. Owed(e, award, rfq.ann, by) BY <1>2, <2>2, <2>4, <2>5, PreparedOwes
  <2> HIDE DEF by
  <2>7. \E d \in locks' : Owed(d, award', rfq'.ann, acceptedFill'.by) BY <1>1, <2>1, <2>6
  <2>8. BindTyped' BY <1>1, <1>2, <2>1 DEF BindTyped, SignedStages, FillStages
  <2>9. Binding' BY <1>6, <2>1, <2>7 DEF Binding, SignedStages, FillStages
  <2> QED BY <2>8, <2>9 DEF BindInv
<1> QED BY <1>7, <1>8

\* It is accepted when its window fits that lock.
LEMMA BindAccepted ==
  ASSUME BindInv, AcceptFill
  PROVE  BindInv'
<1>1. /\ bindStage = "prepared" /\ escrowAsk' = escrowAsk /\ escrowQuote' = escrowQuote
      /\ locks' = locks /\ rfq' = rfq /\ award' = award
  BY DEF AcceptFill
<1>2. /\ escrowAsk \in EscrowAsks /\ escrowQuote \in EscrowQuotes /\ locks \subseteq Locks
      /\ rfq.ann \in Announcements /\ award \in Awards /\ AskBinds(escrowAsk, escrowQuote)
  BY <1>1 DEF BindInv, BindTyped, Binding, SignedStages, FillStages
<1>3. PICK e \in locks : Owed(e, award, rfq.ann, acceptedFill.by)
  BY <1>1 DEF BindInv, Binding, FillStages
<1> DEFINE ok == /\ AcceptBudget <= award.acceptBy
                 /\ \A d \in readFinalLock(award.intentRef) : checkFillWindow(d.lock, award.auth.deadline)
<1>4. /\ bindStage' = IF ok THEN "accepted" ELSE "dropped"
      /\ acceptedFill' = IF ok THEN [acceptance |-> fillAcceptanceOf(award), by |-> acceptedFill.by] ELSE None
  BY DEF AcceptFill
<1>5. ok => checkFillWindow(e.lock, award.auth.deadline)
  BY <1>3 DEF readFinalLock, Owed
<1> HIDE DEF ok
<1>6. AskBinds(escrowAsk', escrowQuote') BY <1>1, <1>2
<1>7. CASE ~ok
  <2>1. bindStage' = "dropped" BY <1>4, <1>7
  <2> QED BY <1>1, <1>2, <1>6, <2>1 DEF BindInv, BindTyped, Binding, SignedStages, FillStages
<1>8. CASE ok
  <2>1. /\ bindStage' = "accepted" /\ acceptedFill'.by = acceptedFill.by
        /\ acceptedFill'.acceptance = fillAcceptanceOf(award)
    BY <1>4, <1>8
  <2>2. landsBy + AttestationLatency + SafetyMargin < e.lock.refundableAt
    BY <1>5, <1>8 DEF checkFillWindow
  <2>3. \E d \in locks' : /\ Owed(d, award', rfq'.ann, acceptedFill'.by)
                          /\ landsBy + AttestationLatency + SafetyMargin < d.lock.refundableAt
    BY <1>1, <1>3, <2>1, <2>2
  <2>4. acceptedFill'.acceptance = fillAcceptanceOf(award') BY <1>1, <2>1
  <2>5. BindTyped' BY <1>1, <1>2, <2>1 DEF BindTyped, SignedStages, FillStages
  <2>6. Binding' BY <1>6, <2>1, <2>3, <2>4 DEF Binding, SignedStages, FillStages, landsBy
  <2> QED BY <2>5, <2>6 DEF BindInv
<1> QED BY <1>7, <1>8

\* The claim: of the solver and the venue only the solver is the solver.
LEMMA BindClaimed ==
  ASSUME BindInv, ClaimFill
  PROVE  BindInv'
<1>1. /\ bindStage = "accepted" /\ bindStage' = "claimed" /\ escrowAsk' = escrowAsk
      /\ escrowQuote' = escrowQuote /\ locks' = locks /\ rfq' = rfq /\ award' = award
      /\ acceptedFill' = acceptedFill
  BY DEF ClaimFill
<1>2. PICK orderId \in {award.intentRef, computeOrderId(termsOf(venueOrder))}, payee \in {Solver, Venue}, signed \in {Solver, Venue}, by \in {"attester", "stranger"} :
       LET wire == [orderId |-> orderId, payee |-> payee, proofPayee |-> signed, chainId |-> 1,
                    verifier |-> Verifier,
                    signature |-> [by |-> by, over |-> fillAttestationDigest(orderId, signed)]]
       IN /\ verifyAttestation(wire, award.intentRef)
          /\ payout' = [orderId |-> wire.orderId, payee |-> wire.proofPayee]
  BY DEF ClaimFill
<1>3. orderId = award.intentRef /\ eqAddr(payee, Solver) /\ eqAddr(signed, payee)
      /\ payout' = [orderId |-> orderId, payee |-> signed]
  BY <1>2 DEF verifyAttestation
<1>4. ~eqAddr(Venue, Solver)
  <2>1. /\ lowercased(Venue) = Address(Venue.kind, Venue.letters, "lower")
        /\ lowercased(Solver) = Address(Solver.kind, Solver.letters, "lower")
    BY EvmPartiesAre, Lowered DEF lowercased
  <2>2. Venue.letters # Solver.letters BY Built DEF Venue, Solver
  <2> QED BY <2>1, <2>2, Fields DEF eqAddr
<1>5. eqAddr(signed, Solver) BY <1>3 DEF eqAddr
<1>6. payout' = [orderId |-> award.intentRef, payee |-> Solver]
  BY <1>2, <1>3, <1>4, <1>5
<1>7. BindTyped' BY <1>1 DEF BindInv, BindTyped, SignedStages, FillStages
<1>8. AskBinds(escrowAsk', escrowQuote') BY <1>1 DEF BindInv, Binding, SignedStages
<1>9. \E d \in locks' : /\ Owed(d, award', rfq'.ann, acceptedFill'.by)
                        /\ landsBy + AttestationLatency + SafetyMargin < d.lock.refundableAt
  BY <1>1 DEF BindInv, Binding, FillStages
<1>10. acceptedFill'.acceptance = fillAcceptanceOf(award') BY <1>1 DEF BindInv, Binding
<1>11. payout' = [orderId |-> award'.intentRef, payee |-> Solver] BY <1>1, <1>6
<1> QED BY <1>1, <1>7, <1>8, <1>9, <1>10, <1>11 DEF BindInv, Binding, SignedStages, FillStages, landsBy

\* Every step keeps the invariant.
LEMMA BindMoves == BindInv /\ [BindingNext]_bindingVars => BindInv'
<1> SUFFICES ASSUME BindInv, [BindingNext]_bindingVars PROVE BindInv' OBVIOUS
<1>1. CASE QuoteEscrow BY <1>1, BindQuoted
<1>2. CASE BindEscrow BY <1>2, BindBound
<1>3. CASE OpenLock \/ Finalize \/ Reorg BY <1>3, BindLocked
<1>4. CASE AnnounceOrder BY <1>4, BindAnnounced
<1>5. CASE AwardFill BY <1>5, BindAwarded
<1>6. CASE PrepareFill BY <1>6, BindPrepared
<1>7. CASE AcceptFill BY <1>7, BindAccepted
<1>8. CASE ClaimFill BY <1>8, BindClaimed
<1>9. CASE UNCHANGED bindingVars
  <2>1. /\ UNCHANGED <<bindStage, escrowAsk, escrowQuote, rfq, award, acceptedFill, payout>> /\ locks' = locks
    BY <1>9 DEF bindingVars
  <2>2. locks \subseteq Locks BY DEF BindInv, BindTyped
  <2> QED BY <2>1, <2>2, LocksMove
<1> QED BY <1>1, <1>2, <1>3, <1>4, <1>5, <1>6, <1>7, <1>8, <1>9 DEF BindingNext

\* The invariant is what EscrowBinds says, and what it rests on.
LEMMA BindInvBinds == BindInv => EscrowBinds
<1> SUFFICES ASSUME BindInv PROVE EscrowBinds OBVIOUS
<1>1. signedOrder.terms = escrowQuote.pull.orderId BY DEF signedOrder
<1>2. bindStage \notin {"asked", "quoted", "refused"} => AskBinds(escrowAsk, escrowQuote)
  BY DEF BindInv, BindTyped, Binding
<1>3. ASSUME bindStage \in {"accepted", "claimed"}
      PROVE  LET auth == award.auth
                 a == acceptedFill.acceptance
             IN \E e \in locks :
                  /\ e.id = a.orderId /\ e.final
                  /\ e.id.toChainId = auth.chainId
                  /\ sameAccount(e.id.destCommitment.recipient, auth.to)
                  /\ sameAccount(e.id.destCommitment.toToken, auth.token)
                  /\ e.id.destCommitment.toAmount <= auth.amount
                  /\ auth.amount <= BidOutput
                  /\ sameAccount(auth.filler, Solver) /\ sameAccount(auth.fillerContract, Filler)
                  /\ auth.by = "authorizer"
                  /\ sameAccount(a.filler, Solver) /\ sameAccount(a.bond, Bond) /\ a.bondChainId = 1
                  /\ landsBy + AttestationLatency + SafetyMargin < e.lock.refundableAt
                  /\ rfq.ann.orderId = e.id
                  /\ acceptedFill.by = "announcement" =>
                       /\ sameAccount(e.lock.token, rfq.ann.fromToken)
                       /\ rfq.ann.fromAmount \in {NoNumber, e.lock.amount}
                       /\ sameAccount(auth.token, rfq.ann.toToken)
                  /\ e.id = signedOrder.terms => sameAccount(auth.to, escrowAsk.recipient)
  <2>1. PICK e \in locks : /\ Owed(e, award, rfq.ann, acceptedFill.by)
                           /\ landsBy + AttestationLatency + SafetyMargin < e.lock.refundableAt
    BY <1>3 DEF BindInv, Binding, FillStages
  <2>2. acceptedFill.acceptance = fillAcceptanceOf(award) /\ award \in Awards /\ AskBinds(escrowAsk, escrowQuote)
    BY <1>3 DEF BindInv, BindTyped, Binding, FillStages, SignedStages
  <2> DEFINE a == acceptedFill.acceptance
  <2>3. a.orderId = award.intentRef /\ a.filler = award.auth.filler /\ a.bond = foldCase(award.bond)
        /\ a.bondChainId = award.bondChainId
    BY <2>2 DEF fillAcceptanceOf
  <2>4. sameAccount(a.bond, Bond)
    <3>1. IsAddress(award.bond) BY <2>2, EvmPartiesAre DEF Awards
    <3>2. sameAccount(a.bond, award.bond) BY <2>3, <3>1, FoldedAddress
    <3>3. sameAccount(award.bond, Bond) BY <2>1 DEF Owed
    <3> QED BY <3>2, <3>3, OneAccount
  <2>5. e.id = signedOrder.terms => sameAccount(award.auth.to, escrowAsk.recipient)
    <3> SUFFICES ASSUME e.id = escrowQuote.pull.orderId PROVE sameAccount(award.auth.to, escrowAsk.recipient)
      BY <1>1
    <3>1. sameAccount(e.id.destCommitment.recipient, escrowAsk.recipient) BY <2>2 DEF AskBinds
    <3>2. sameAccount(e.id.destCommitment.recipient, award.auth.to) BY <2>1 DEF Owed
    <3> QED BY <3>1, <3>2, OneAccount
  <2> HIDE DEF a
  <2>6. a.orderId = award.intentRef /\ a.bondChainId = 1 /\ sameAccount(a.filler, Solver)
    BY <2>1, <2>3 DEF Owed
  <2> QED BY <2>1, <2>3, <2>4, <2>5, <2>6 DEF Owed, a
<1>4. bindStage = "claimed" => payout = [orderId |-> award.intentRef, payee |-> Solver] BY DEF BindInv, Binding
<1>5. bindStage \notin {"asked", "quoted", "refused"} =>
       LET t == signedOrder.terms
           escrow == pinnedEscrowFor(escrowAsk, t.fromChainId)
       IN /\ escrow # NoAddress
          /\ sameAccount(escrowQuote.pull.payee, escrow) /\ sameAccount(t.escrow, escrow)
          /\ sameAccount(t.depositor, escrowAsk.signer)
          /\ sameAccount(t.fromToken, escrowQuote.pull.token) /\ t.fromAmount = escrowQuote.pull.amount
          /\ t.toChainId = escrowAsk.toChainId
          /\ sameAccount(t.destCommitment.recipient, escrowAsk.recipient)
          /\ sameAccount(t.destCommitment.toToken, escrowAsk.toToken)
          /\ t.destCommitment.toAmount >= escrowAsk.minOut
  BY <1>1, <1>2 DEF AskBinds
<1> QED BY <1>3, <1>4, <1>5 DEF EscrowBinds

\* Whatever the venue writes between the depositor's signature and the solver's claim, and however
\* the chain reorganises, the deal holds from end to end.  Code: assertEscrowBinding,
\* OnchainEscrowGateway.prepare and accept, verifyAttestation.
THEOREM EscrowTheorem == BindingInit /\ [][BindingNext]_bindingVars => []EscrowBinds
<1>1. BindingInit => BindInv BY BindStarts
<1>2. BindInv /\ [BindingNext]_bindingVars => BindInv' BY BindMoves
<1>3. BindInv => EscrowBinds BY BindInvBinds
<1> QED BY <1>1, <1>2, <1>3, PTL
=============================================================================
