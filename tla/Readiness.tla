------------------------------ MODULE Readiness ------------------------------
(***************************************************************************)
(* The verifier of the bridge's readiness attestations:                    *)
(* signer/src/shielded-readiness.ts.  The bridge attests what it sees: the *)
(* allowlist of a finalized block, whether a descriptor is on it, whether  *)
(* the recipient is deployed.  Its records reach the caller late, again,   *)
(* with a field changed, as another type, from another corridor (another   *)
(* domain) or under another key.                                           *)
(*                                                                         *)
(* A root is the set of the allowlist's members, so a root comes back when *)
(* they do; a signature is the type, the record and the domain it was made *)
(* over, and the key.  The caller builds its policy the way the file asks: *)
(* it pins the latest root it learned from a RootUpdate, or that update's  *)
(* block.                                                                  *)
(***************************************************************************)
EXTENDS Integers, Sequences, FiniteSets

CONSTANTS Descriptors,
          MaxAgeSeconds, MaxFutureSkewSeconds, \* the caller's bounds on an attestation's age
          BridgeLead,                          \* how far the bridge's clock leads the caller's
          MaxBlocks, MaxUnix, MaxAttested, MaxVerified

\* A descriptor is not the mark of a field that is not there.
ASSUME ReadinessConstants ==
  MaxAgeSeconds \in Nat /\ BridgeLead \in Nat /\ "unset" \notin Descriptors

VARIABLES allowlists,   \* per block: its members, and when it was final
          deployed,     \* the class the recipient is deployed with, or "none"
          attestations, \* what the bridge signed, and another corridor's
          verified,     \* what the caller accepted
          learned,      \* the block of the latest RootUpdate accepted, 0 before the first
          unix

readinessVars == <<allowlists, deployed, attestations, verified, learned, unix>>

ReadinessTypes == {"Membership", "RecipientDeployment", "RootUpdate"}

\* A record without any member that only some types have.
Unset == [descriptor |-> "unset", root |-> {"unset"}, recipient |-> "unset", class |-> "unset",
          positive |-> "unset", block |-> 0, attestedAt |-> 0]

\* The members a record of a type has.
READINESS_TYPE_STRINGS ==
  [Membership |-> {"descriptor", "root", "positive", "block", "attestedAt"},
   RecipientDeployment |-> {"descriptor", "recipient", "class", "positive", "block", "attestedAt"},
   RootUpdate |-> {"root", "block", "attestedAt"}]

readinessRecord(type, of) ==
  [f \in DOMAIN Unset |-> IF f \in READINESS_TYPE_STRINGS[type] THEN of[f] ELSE Unset[f]]

says(condition) == IF condition THEN "true" ELSE "false"

ReadinessInit ==
  /\ allowlists = <<[members |-> {}, since |-> 0]>>
  /\ deployed = "none" /\ attestations = {} /\ verified = {} /\ learned = 0 /\ unix = 0

(* ------------------------- the bridge (external) ------------------------ *)

toggled(members, d) == IF d \in members THEN members \ {d} ELSE members \cup {d}

\* The allowlist changes by one descriptor.
rootFinal(descriptor) ==
  /\ Len(allowlists) < MaxBlocks
  /\ allowlists' = Append(allowlists, [members |-> toggled(allowlists[Len(allowlists)].members, descriptor),
                                       since |-> unix])
  /\ UNCHANGED <<deployed, attestations, verified, learned, unix>>

deploys(class) ==
  /\ deployed = "none" /\ deployed' = class
  /\ UNCHANGED <<allowlists, attestations, verified, learned, unix>>

\* What the bridge sees of a descriptor at the head.
seen(type, descriptor) ==
  LET n == Len(allowlists)
  IN [descriptor |-> descriptor, root |-> allowlists[n].members, recipient |-> "own",
      class |-> IF deployed = "none" THEN "pinned" ELSE deployed, block |-> n,
      attestedAt |-> unix + BridgeLead,
      positive |-> says(IF type = "Membership" THEN descriptor \in allowlists[n].members
                        ELSE deployed # "none")]

attests(type, descriptor) ==
  /\ Cardinality(attestations) < MaxAttested
  /\ attestations' = attestations \cup
       {[type |-> type, domain |-> "own", record |-> readinessRecord(type, seen(type, descriptor))]}
  /\ UNCHANGED <<allowlists, deployed, verified, learned, unix>>

\* The same key attests another corridor, where everything may be ready.
attestsElsewhere(type, descriptor) ==
  /\ Cardinality(attestations) < MaxAttested
  /\ attestations' = attestations \cup
       {[type |-> type, domain |-> "other",
         record |-> readinessRecord(type, [descriptor |-> descriptor, root |-> Descriptors,
                                           recipient |-> "own", class |-> "pinned", positive |-> "true",
                                           block |-> MaxBlocks, attestedAt |-> unix])]}
  /\ UNCHANGED <<allowlists, deployed, verified, learned, unix>>

unixPasses ==
  /\ unix < MaxUnix /\ unix' = unix + 1
  /\ UNCHANGED <<allowlists, deployed, attestations, verified, learned>>

(* ------------------------------ the verifier ---------------------------- *)

\* One field changed, or the record cut to another type's members.
tampered(r) ==
  {r} \cup {readinessRecord(type, r) : type \in {"Membership", "RootUpdate"}}
      \cup {[r EXCEPT !.descriptor = d] : d \in Descriptors}
      \cup {[r EXCEPT !.positive = "true"], [r EXCEPT !.class = "pinned"], [r EXCEPT !.block = MaxBlocks],
            [r EXCEPT !.attestedAt = MaxUnix]}

\* Strict: every member of the type, and none besides.
parseReadinessRecord(type, r) ==
  \A f \in DOMAIN Unset \ {"block", "attestedAt"} : r[f] # Unset[f] <=> f \in READINESS_TYPE_STRINGS[type]

\* Mutant: the corridor's manifest is left out of the domain.
recoverReadinessAddress_AnyDomain(type, r, signature) ==
  signature.key = "bridge" /\ signature.over.type = type /\ signature.over.record = r

recoverReadinessAddress(type, r, signature) ==
  signature.key = "bridge" /\ signature.over = [type |-> type, record |-> r, domain |-> "own"]

\* Mutant: whatever the record says of the subject is taken for ready.
positive_Any(type, r) == TRUE

positive(type, r) == type = "RootUpdate" \/ r.positive = "true"

\* Mutant: the recipient's address is enough.
subjectMatches_AnyClass(type, r, expected) ==
  /\ type # "RootUpdate" => r.descriptor = expected.descriptor
  /\ type = "RecipientDeployment" => r.recipient = "own"
  /\ type # "RecipientDeployment" => expected.root \in {Unset.root, r.root}

subjectMatches(type, r, expected) ==
  /\ type # "RootUpdate" => r.descriptor = expected.descriptor
  /\ type = "RecipientDeployment" => r.recipient = "own" /\ r.class = "pinned"
  /\ type # "RecipientDeployment" => expected.root \in {Unset.root, r.root}

\* Mutant: only an attestation from the future is refused.
fresh_AnyAge(r) == r.attestedAt <= unix + MaxFutureSkewSeconds

fresh(r) == r.attestedAt <= unix + MaxFutureSkewSeconds /\ r.attestedAt + MaxAgeSeconds >= unix

\* Mutant: a membership's block is not compared.
reachesBlock_Unpinned(type, r, minBlock) == minBlock # 0 /\ (type # "Membership" => r.block >= minBlock)

reachesBlock(type, r, minBlock) == minBlock # 0 /\ r.block >= minBlock

verifyReadinessRecord(type, r, signature, policy) ==
  /\ parseReadinessRecord(type, r)
  /\ recoverReadinessAddress(type, r, signature)
  /\ positive(type, r)
  /\ subjectMatches(type, r, policy.expected)
  /\ fresh(r)
  /\ reachesBlock(type, r, policy.minBlock)

\* The policies a caller builds.  A root once learned is pinned for a membership, or its block is the
\* least one taken; before, and for the others, any block from the first will do, and no update undoes
\* a later one.
policies(type, descriptor) ==
  {[expected |-> [descriptor |-> descriptor, root |-> Unset.root],
    minBlock |-> IF type # "RecipientDeployment" /\ learned > 0 THEN learned ELSE 1]} \cup
  (IF type = "Membership" /\ learned > 0
   THEN {[expected |-> [descriptor |-> descriptor, root |-> allowlists[learned].members], minBlock |-> 1]}
   ELSE {})

\* The caller keeps what it accepted, with what it knew then.
accepts(type, r, signature, descriptor, policy) ==
  /\ verifyReadinessRecord(type, r, signature, policy)
  /\ IF type = "RootUpdate" THEN learned' = r.block /\ verified' = verified
     ELSE /\ Cardinality(verified) < MaxVerified /\ learned' = learned
          /\ verified' = verified \cup {[type |-> type, descriptor |-> descriptor, knew |-> learned,
                                         at |-> unix]}
  /\ UNCHANGED <<allowlists, deployed, attestations, unix>>

ReadinessNext ==
  \/ \E d \in Descriptors : rootFinal(d)
  \/ \E class \in {"pinned", "other"} : deploys(class)
  \/ \E type \in ReadinessTypes, d \in Descriptors : attests(type, d) \/ attestsElsewhere(type, d)
  \/ \E a \in attestations, key \in {"bridge", "other"}, type \in ReadinessTypes :
       \E r \in IF key = "bridge" THEN tampered(a.record) ELSE {a.record} :
         /\ parseReadinessRecord(type, r)
         /\ \E d \in Descriptors : \E policy \in policies(type, d) :
              accepts(type, r, [over |-> a, key |-> key], d, policy)
  \/ unixPasses

ReadinessSpec == ReadinessInit /\ [][ReadinessNext]_readinessVars

(* ------------------------------ properties ----------------------------- *)

\* The allowlist of block n was still in force within the allowed age of time t.
inForce(n, t) ==
  n = Len(allowlists) \/ allowlists[n + 1].since >= t - MaxAgeSeconds - BridgeLead

\* A membership accepted is one of an allowlist that was in force within the allowed age, and not one
\* older than the latest the caller had learned, unless that had the same members; a deployment
\* accepted is final, of the pinned class.  This holds whatever is changed, cut to another type,
\* brought from another corridor, delayed or sent again.  Code: verifyReadinessRecord.
ReadinessSound ==
  \A v \in verified :
    IF v.type = "RecipientDeployment" THEN deployed = "pinned"
    ELSE \E n \in DOMAIN allowlists :
           /\ v.descriptor \in allowlists[n].members
           /\ inForce(n, v.at)
           /\ v.knew > 0 => n >= v.knew \/ allowlists[n].members = allowlists[v.knew].members
=============================================================================
