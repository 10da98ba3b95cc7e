------------------------ MODULE TradeCeremonyProofs ------------------------
(***************************************************************************)
(* Whatever is asked, edited, signed, superseded and answered late, what   *)
(* the trade machine sends carries the signatures of the intent it sends   *)
(* (SignedForDispatched), the wallet of a ceremony is the one of its quote *)
(* (WalletHoldsCeremony), an allocation is answered once                   *)
(* (AllocationsAnswered) and a deposit address is one intent's             *)
(* (OneIntentPerAddress).                                                  *)
(*                                                                         *)
(* Kept says what these rest on: that a quote that can be signed names its *)
(* own order and account, that what a ceremony holds, and what its prompts *)
(* will answer with, is for the order on screen, and that every awaited    *)
(* allocation has its own quote in the air.  Most handlers are calm: they  *)
(* sign nothing, send nothing and put nothing in the air.  The others are  *)
(* taken one by one.                                                       *)
(*                                                                         *)
(* The second half is about the order in flight: what is shown of it, its  *)
(* poll, its request and the Worker's row go together (Sound), and every   *)
(* order that can still move funds is accounted for (Accounted).  It       *)
(* proves DoubtOnlyInFlight, NoSilentStop and, when the Worker does not    *)
(* lose what it has, OneLiveOrder and RetryOnlyIfNothingMoved.             *)
(***************************************************************************)
EXTENDS TradeProofs

\* The order on screen is the same one.
SameOrder(i, j) ==
    /\ j.intentId = i.intentId
    /\ j.quote = i.quote
    /\ j.quotedAddress = i.quotedAddress
    /\ j.quotedChainId = i.quotedChainId

\* The order is the same, or one that cannot be signed, and no ceremony starts.
CalmOrder(i, j) ==
    /\ SameOrder(i, j) \/ (~j.quote.canSolve /\ j.status # "signing")
    /\ j.status = "signing" => i.status = "signing"

\* No flight was added: none was touched, or all were superseded and answered.
CalmFlights(x, y) ==
    \/ y.flights = x.flights /\ y.allocs = x.allocs
    \/ y.flights = {} /\ y.allocs = x.allocs \ ({f.ref : f \in x.flights} \ {0})

\* The ceremony goes on as it was or ends, and nothing is asked to sign or send.
CalmCeremony(x, y) ==
    /\ y.sign = x.sign \/ y.sign.stage = "none"
    /\ y.pendingIntentSig \in {x.pendingIntentSig, None}
    /\ \A a \in y.asks : a \in x.asks \/ a.op \in {"session", "quote", "status"}

\* Nothing signed, nothing to sign and no other wallet.
Beside(x, y) ==
    /\ y.ctx = x.ctx /\ y.watched.wallet = x.watched.wallet
    /\ CalmOrder(x.intent, y.intent)
    /\ CalmCeremony(x, y)

\* Nor is a quote put in the air or an address shown.
Calm(x, y) ==
    /\ Beside(x, y)
    /\ y.seenDepositAddresses = x.seenDepositAddresses
    /\ CalmFlights(x, y)

-----------------------------------------------------------------------------
(* The inductive invariant, on a record. *)

\* A silent quote answers no allocation, and one to execute is for an account.
Flies(f) == (f.silent => f.ref = 0) /\ (~f.preview => f.ctx.address # None)

\* No two flights have an id or an allocation in common.
Apart(F) == \A f, g \in F : f.id = g.id \/ (f.ref = g.ref /\ f.ref # 0) => f = g

\* The allocations awaited are those of the flights, and no two flights share one.
Airborne(x) ==
    /\ x.allocs = {f.ref : f \in x.flights} \ {0}
    /\ Apart(x.flights)
    /\ \A f \in x.flights : Flies(f)

\* A deposit address was shown for one intent.
AddressesOnce(x) == \A p, r \in x.seenDepositAddresses : p[1] = r[1] => p[2] = r[2]

\* A quote that can be signed is the order's own, and was made for an account.
OrderQuoted(i) ==
    /\ i.quote.canSolve /\ ~i.quote.preview =>
          i.quotedAddress # None /\ i.quote.intent = i.intentId /\ i.intentId # None
    /\ i.status = "signing" => i.quote.canSolve /\ ~i.quote.preview

\* What the wallet's watcher compares, and when a ceremony may go on with it.
walletKey(x) ==
    [address |-> x.ctx.address, chainId |-> x.ctx.chainId,
     quotedAddress |-> x.intent.quotedAddress, quotedChainId |-> x.intent.quotedChainId]
Fits(k) == k.address # None /\ k.address = k.quotedAddress /\ k.quotedChainId \in {None, k.chainId}

\* A wallet the watcher has seen over a ceremony fits it.
WalletWatched(x) ==
    x.intent.status = "signing" /\ x.watched.wallet = walletKey(x) => Fits(walletKey(x))

\* A request carries the signatures of its own intent.
SignedFor(a) == a.intentId # None /\ a.sig = a.intentId /\ a.pullSig \in {None, a.intentId}

\* What a ceremony has collected, or its prompt will, is over its own intent.
Collected(x) ==
    x.intent.status = "signing" =>
        /\ x.pendingIntentSig \in {None, x.intent.intentId}
        /\ x.sign.stage \in {"approval", "pull"} => x.sign.sig = x.intent.intentId
        /\ x.sign.stage \in {"intent", "approval", "pull"} =>
              \A a \in x.asks : a.id = x.sign.id /\ a.op \in {"signIntent", "signPull"}
                                => a.intentId = x.intent.intentId

\* A request the sign flow may send again carries those of the intent it names.
Requested(f) ==
    f.stage = "execute" => f.request # None /\ f.sig = f.request /\ f.pullSig \in {None, f.request}

\* Everything signed is for the order it is signed for.
Bound(x) ==
    /\ OrderQuoted(x.intent)
    /\ WalletWatched(x)
    /\ Collected(x)
    /\ Requested(x.sign)
    /\ \A a \in x.asks : a.op = "execute" => SignedFor(a)

\* The invariant.
Kept(x) == Airborne(x) /\ AddressesOnce(x) /\ Bound(x)

\* Once the reactive rules have run, the watcher has seen the wallet.
WalletHolds(x) ==
    x.intent.status = "signing" => x.watched.wallet = walletKey(x) /\ Fits(walletKey(x))

-----------------------------------------------------------------------------
(* What leaves all that alone. *)

\* Steps beside one another compose.
LEMMA BesideTrans ==
    ASSUME NEW x, NEW y, NEW z, Beside(x, y), Beside(y, z)
    PROVE  Beside(x, z)
<1>1. CalmOrder(x.intent, z.intent)
  BY DEF Beside, CalmOrder, SameOrder
<1>2. CalmCeremony(x, z)
  BY DEF Beside, CalmCeremony
<1> QED BY <1>1, <1>2 DEF Beside

\* Calm steps compose.
LEMMA CalmTrans ==
    ASSUME NEW x, NEW y, NEW z, Calm(x, y), Calm(y, z)
    PROVE  Calm(x, z)
<1>1. CalmFlights(x, z)
  BY DEF Calm, CalmFlights
<1> QED BY <1>1, BesideTrans DEF Calm

\* Nothing changed is calm.
LEMMA CalmSelf ==
    ASSUME NEW x
    PROVE  Calm(x, x)
BY DEF Calm, Beside, CalmFlights, CalmOrder, SameOrder, CalmCeremony

\* What is beside a bound ceremony is bound.
LEMMA BesideBound ==
    ASSUME NEW x, Bound(x), NEW y, Beside(x, y)
    PROVE  Bound(y)
<1>1. OrderQuoted(y.intent)
  BY DEF Bound, Beside, CalmOrder, SameOrder, OrderQuoted
<1>2. Requested(y.sign) /\ \A a \in y.asks : a.op = "execute" => SignedFor(a)
  BY DEF Bound, Beside, CalmCeremony, Requested
<1>3. CASE y.intent.status # "signing"
  BY <1>1, <1>2, <1>3 DEF Bound, WalletWatched, Collected
<1>4. CASE y.intent.status = "signing"
  <2>1. x.intent.status = "signing" /\ SameOrder(x.intent, y.intent)
    BY <1>4 DEF Beside, CalmOrder
  <2>2. walletKey(y) = walletKey(x)
    BY <2>1 DEF Beside, SameOrder, walletKey
  <2>3. WalletWatched(y)
    BY <2>1, <2>2 DEF Bound, Beside, WalletWatched
  <2>4. Collected(y)
    BY <2>1 DEF Bound, Beside, SameOrder, Collected, CalmCeremony
  <2> QED BY <1>1, <1>2, <2>3, <2>4 DEF Bound
<1> QED BY <1>3, <1>4

\* So a calm step keeps the invariant.
LEMMA CalmKept ==
    ASSUME NEW x, Kept(x), NEW y, Calm(x, y)
    PROVE  Kept(y)
<1>1. Airborne(y)
  BY DEF Kept, Calm, CalmFlights, Airborne, Apart
<1> QED BY <1>1, BesideBound DEF Kept, Calm, AddressesOnce

\* A step that leaves flights, calls and ceremony alone, and at most patches the intent.
LEMMA CalmFrame ==
    ASSUME NEW x, NEW y, KeepsForm(x, y), KeepsCeremony(x, y), KeepsCalls(x, y),
           y.flights = x.flights, CalmOrder(x.intent, y.intent)
    PROVE  Calm(x, y)
BY DEF KeepsForm, KeepsCeremony, KeepsCalls, Calm, Beside, CalmFlights, CalmCeremony

\* Arming a timer is calm.
LEMMA SetTimerCalm ==
    ASSUME NEW x, Typed(x), NEW t \in TimerName, NEW d \in Times
    PROVE  Typed(setTimer(x, t, d)) /\ Calm(x, setTimer(x, t, d))
<1> DEFINE y == setTimer(x, t, d)
<1>1. /\ Typed(y) /\ KeepsForm(x, y) /\ KeepsCeremony(x, y) /\ KeepsCalls(x, y)
      /\ y.intent = x.intent /\ y.flights = x.flights
  BY SetTimerFrame
<1> QED BY <1>1, CalmFrame DEF CalmOrder, SameOrder

\* So is disarming one,
LEMMA ClearTimerCalm ==
    ASSUME NEW x, Typed(x), NEW t \in TimerName
    PROVE  Typed(clearTimer(x, t)) /\ Calm(x, clearTimer(x, t))
<1> DEFINE y == clearTimer(x, t)
<1>1. /\ Typed(y) /\ KeepsForm(x, y) /\ KeepsCeremony(x, y) /\ KeepsCalls(x, y)
      /\ y.intent = x.intent /\ y.flights = x.flights
  BY ClearTimerFrame
<1> QED BY <1>1, CalmFrame DEF CalmOrder, SameOrder

\* or several.
LEMMA ClearTimersCalm ==
    ASSUME NEW x, Typed(x), NEW ts
    PROVE  Typed(clearTimers(x, ts)) /\ Calm(x, clearTimers(x, ts))
<1> DEFINE y == clearTimers(x, ts)
<1>1. /\ Typed(y) /\ KeepsForm(x, y) /\ KeepsCeremony(x, y) /\ KeepsCalls(x, y)
      /\ y.intent = x.intent /\ y.flights = x.flights
  BY ClearTimersFrame
<1> QED BY <1>1, CalmFrame DEF CalmOrder, SameOrder

\* So is a patch that leaves the order on screen alone.
LEMMA PatchCalm ==
    ASSUME NEW x, Typed(x), NEW i \in Intent, CalmOrder(x.intent, i)
    PROVE  Typed(patch(x, i)) /\ Calm(x, patch(x, i))
<1> DEFINE y == patch(x, i)
<1>1. /\ Typed(y) /\ KeepsForm(x, y) /\ KeepsCeremony(x, y) /\ KeepsCalls(x, y)
      /\ y.intent = i /\ y.flights = x.flights
  BY PatchFrame
<1> QED BY <1>1, CalmFrame

\* Abandoning a ceremony is calm: nothing it signed is left.
LEMMA AbandonCalm ==
    ASSUME NEW x, Typed(x)
    PROVE  Typed(abandonSign(x)) /\ Calm(x, abandonSign(x))
<1> DEFINE y == abandonSign(x)
<1>1. /\ Typed(y) /\ KeepsForm(x, y) /\ KeepsCalls(x, y)
      /\ y.sign = NoSign /\ y.pendingIntentSig = None
      /\ y.intent = x.intent /\ y.flights = x.flights
  BY AbandonSignFrame
<1>2. NoSign.stage = "none"
  BY DEF NoSign
<1> QED BY <1>1, <1>2
  DEF Calm, Beside, KeepsForm, KeepsCalls, CalmFlights, CalmOrder, SameOrder, CalmCeremony

\* So is ending its sign flow,
LEMMA EndSignFlowCalm ==
    ASSUME NEW x, Typed(x), NEW f
    PROVE  Typed(endSignFlow(x, f)) /\ Calm(x, endSignFlow(x, f))
<1> DEFINE y == endSignFlow(x, f)
<1>1. /\ Typed(y) /\ KeepsForm(x, y) /\ KeepsCalls(x, y)
      /\ y.sign = NoSign /\ y.pendingIntentSig = x.pendingIntentSig
      /\ y.intent = x.intent /\ y.flights = x.flights
  BY EndSignFlowFrame
<1>2. NoSign.stage = "none"
  BY DEF NoSign
<1> QED BY <1>1, <1>2
  DEF Calm, Beside, KeepsForm, KeepsCalls, CalmFlights, CalmOrder, SameOrder, CalmCeremony

\* and superseding every quote in the air, whose allocations are refused.
LEMMA SupersedeCalm ==
    ASSUME NEW x, Typed(x)
    PROVE  Typed(supersedeFlights(x)) /\ Calm(x, supersedeFlights(x))
<1> DEFINE y == supersedeFlights(x)
           none == {}
           left == x.allocs \ ({f.ref : f \in x.flights} \ {0})
           told == IF {f.ref : f \in x.flights} \ {0} = {} THEN x.event ELSE "refused"
<1>1. /\ Typed(y) /\ KeepsForm(x, y) /\ KeepsCeremony(x, y)
      /\ y.intent = x.intent /\ y.asks = x.asks /\ y.flights = {}
  BY SupersedeFrame
<1>2. y.allocs = left
  <2>1. y = [x EXCEPT !.flights = none, !.allocs = left, !.event = told]
    BY DEF supersedeFlights, Typed, Model
  <2> HIDE DEF none, left, told, y
  <2> QED BY <2>1 DEF Typed, Model
<1> QED BY <1>1, <1>2
  DEF Calm, Beside, KeepsForm, KeepsCeremony, CalmFlights, CalmOrder, SameOrder, CalmCeremony

\* So is a call that neither signs nor sends.
LEMMA PerformCalm ==
    ASSUME NEW x, Typed(x), NEW a \in Ask, a.op \in {"session", "quote", "status"}
    PROVE  Typed(perform(x, a)) /\ Calm(x, perform(x, a))
<1> DEFINE y == perform(x, a)
<1>1. /\ Typed(y) /\ KeepsForm(x, y) /\ KeepsCeremony(x, y)
      /\ y.intent = x.intent /\ y.flights = x.flights /\ y.allocs = x.allocs
  BY PerformFrame
<1>2. y.asks = x.asks \cup {a}
  BY DEF perform, Typed, Model
<1> QED
  BY <1>1, <1>2 DEF Calm, Beside, KeepsForm, KeepsCeremony, CalmFlights, CalmOrder, SameOrder,
                    CalmCeremony

\* A status move but to a ceremony.
LEMMA TransitionCalm ==
    ASSUME NEW x, Typed(x), NEW to \in IntentStatus, to # "signing", NEW u \in Intent,
           SameOrder(x.intent, u) \/ ~u.quote.canSolve
    PROVE  Typed(transition(x, to, u)) /\ Calm(x, transition(x, to, u))
<1> DEFINE from == x.intent.status
           v == movedTo(u, to)
           moved == patch(x, v)
           next == IF to \in QUOTE_BUSY_STATES /\ from \notin QUOTE_BUSY_STATES
                   THEN supersedeFlights(moved) ELSE moved
           y == transition(x, to, u)
<1>1. y = IF ~canTransitionTo(from, to) THEN x
          ELSE IF leaves(x, to) THEN abandonSign(next) ELSE next
  BY DEF transition, leaves, movedTo
<1>2. v \in Intent /\ CalmOrder(x.intent, v)
  <2>1. /\ v \in Intent /\ v.status = to /\ v.quote = u.quote /\ v.intentId = u.intentId
        /\ v.quotedAddress = u.quotedAddress /\ v.quotedChainId = u.quotedChainId
    BY DEF Intent, movedTo
  <2> QED BY <2>1 DEF CalmOrder, SameOrder
<1> HIDE DEF v
<1>3. Typed(moved) /\ Calm(x, moved)
  BY <1>2, PatchCalm
<1> HIDE DEF moved
<1>4. Typed(next) /\ Calm(x, next)
  BY <1>3, SupersedeCalm, CalmTrans
<1> HIDE DEF next
<1>5. Typed(abandonSign(next)) /\ Calm(x, abandonSign(next))
  BY <1>4, AbandonCalm, CalmTrans
<1> HIDE DEF y
<1>6. Typed(y) /\ Calm(x, y)
  BY <1>1, <1>4, <1>5, CalmSelf
<1> QED BY <1>6 DEF y

\* The order as it is, moved to another status but a ceremony's.
LEMMA MoveCalm ==
    ASSUME NEW x, Typed(x), NEW to \in IntentStatus, to # "signing"
    PROVE  Typed(transition(x, to, x.intent)) /\ Calm(x, transition(x, to, x.intent))
<1>1. x.intent \in Intent
  BY DEF Typed, Model
<1> QED BY <1>1, TransitionCalm DEF SameOrder

-----------------------------------------------------------------------------
(* Flights and the allocations that wait for them. *)

\* The allocations once the one of ref is answered.
without(A, ref) == IF ref = 0 THEN A ELSE A \ {ref}

\* The flights but the one of the id of g.
Others(x, g) == {f \in x.flights : f.id # g.id}

\* All but the flight g, in the air or not yet, is as it should be, and its
\* allocation is awaited.
Pending(x, g) ==
    /\ x.allocs = ({f.ref : f \in Others(x, g)} \cup {g.ref}) \ {0}
    /\ \A f \in Others(x, g) : Flies(f) /\ (f.ref # g.ref \/ g.ref = 0)
    /\ Apart(Others(x, g))
    /\ Flies(g)

\* A flight of the invariant is pending.
LEMMA FlightPending ==
    ASSUME NEW x, Typed(x), Airborne(x), NEW g \in x.flights
    PROVE  Pending(x, g)
<1>1. \A f \in x.flights : f \in Others(x, g) \/ f = g
  BY DEF Airborne, Apart, Others
<1>2. x.allocs = ({f.ref : f \in Others(x, g)} \cup {g.ref}) \ {0}
  BY <1>1 DEF Airborne, Others
<1>3. \A f \in Others(x, g) : Flies(f) /\ (f.ref # g.ref \/ g.ref = 0)
  BY DEF Airborne, Apart, Others
<1> QED BY <1>2, <1>3 DEF Airborne, Apart, Others, Pending

\* The flight is over, and its allocation answered.
LEMMA Landed ==
    ASSUME NEW x, NEW g, Pending(x, g), NEW y, y.flights = Others(x, g),
           y.allocs = without(x.allocs, g.ref)
    PROVE  Airborne(y)
<1>1. y.allocs = {f.ref : f \in y.flights} \ {0}
  BY DEF Pending, without
<1> QED BY <1>1 DEF Pending, Airborne

\* The flight takes off, or goes on.
LEMMA TakenOff ==
    ASSUME NEW x, NEW g, Pending(x, g), NEW h, h.id = g.id, h.ref = g.ref, Flies(h),
           NEW y, y.flights = Others(x, g) \cup {h}, y.allocs = x.allocs
    PROVE  Airborne(y)
<1>1. y.allocs = {f.ref : f \in y.flights} \ {0}
  BY DEF Pending
<1>2. \A f \in Others(x, g) : f.id # h.id
  BY DEF Others
<1>3. Apart(y.flights)
  BY <1>2 DEF Pending, Apart
<1> QED BY <1>1, <1>3 DEF Pending, Airborne

\* y is beside x, and no address was shown.
Quiet(x, y) == Beside(x, y) /\ y.seenDepositAddresses = x.seenDepositAddresses

\* A step that leaves form, ceremony and calls alone is quiet.
LEMMA QuietFrame ==
    ASSUME NEW x, NEW y, KeepsForm(x, y), KeepsCeremony(x, y), y.asks = x.asks,
           CalmOrder(x.intent, y.intent)
    PROVE  Quiet(x, y)
BY DEF KeepsForm, KeepsCeremony, Quiet, Beside, CalmCeremony

\* Quiet steps compose.
LEMMA QuietTrans ==
    ASSUME NEW x, NEW y, NEW z, Quiet(x, y), Quiet(y, z)
    PROVE  Quiet(x, z)
BY BesideTrans DEF Quiet

\* An order is calm beside itself.
LEMMA SameCalmOrder == \A i : CalmOrder(i, i)
BY DEF CalmOrder, SameOrder

\* What is calm is quiet,
LEMMA CalmQuiet ==
    ASSUME NEW x, NEW y, Calm(x, y)
    PROVE  Quiet(x, y)
BY DEF Calm, Quiet

\* and keeps the allocations those of the flights.
LEMMA CalmAirborne ==
    ASSUME NEW x, Airborne(x), NEW y, Calm(x, y)
    PROVE  Airborne(y)
BY DEF Calm, CalmFlights, Airborne, Apart

\* An allocation that is answered is awaited no more.
LEMMA EndAllocationQuiet ==
    ASSUME NEW x, Typed(x), NEW ref, NEW ok
    PROVE  LET y == endAllocation(x, ref, ok)
           IN  /\ Typed(y) /\ Quiet(x, y) /\ y.intent = x.intent /\ y.flights = x.flights
               /\ y.allocs = without(x.allocs, ref)
<1> DEFINE y == endAllocation(x, ref, ok)
<1>1. /\ Typed(y) /\ KeepsForm(x, y) /\ KeepsCeremony(x, y)
      /\ y.intent = x.intent /\ y.flights = x.flights /\ y.asks = x.asks
  BY EndAllocationFrame
<1>2. y.allocs = without(x.allocs, ref)
  <2> DEFINE told == IF ok THEN "allocated" ELSE "refused"
             left == x.allocs \ {ref}
  <2>1. y = IF ref = 0 THEN x ELSE [x EXCEPT !.allocs = left, !.event = told]
    BY DEF endAllocation
  <2> HIDE DEF y, told, left
  <2>2. y.allocs = IF ref = 0 THEN x.allocs ELSE left
    BY <2>1 DEF Typed, Model
  <2> QED BY <2>2 DEF left, without
<1> HIDE DEF y
<1>3. Quiet(x, y)
  BY <1>1, QuietFrame, SameCalmOrder
<1> QED BY <1>1, <1>2, <1>3 DEF y

\* A flight that is dropped is in the air no more.
LEMMA WithoutFlightQuiet ==
    ASSUME NEW x, Typed(x), NEW id
    PROVE  LET y == withoutFlight(x, id)
           IN  /\ Typed(y) /\ Quiet(x, y) /\ y.intent = x.intent /\ y.allocs = x.allocs
               /\ y.flights = {f \in x.flights : f.id # id}
<1> DEFINE y == withoutFlight(x, id)
<1>1. /\ Typed(y) /\ KeepsForm(x, y) /\ KeepsCeremony(x, y) /\ KeepsCalls(x, y)
      /\ y.intent = x.intent
  BY WithoutFlightFrame
<1>2. y.flights = {f \in x.flights : f.id # id}
  BY DEF withoutFlight, Typed, Model
<1> HIDE DEF y
<1>3. Quiet(x, y)
  BY <1>1, QuietFrame, SameCalmOrder DEF KeepsCalls
<1> QED BY <1>1, <1>2, <1>3 DEF y, KeepsCalls

\* A flight that is put replaces the one of its id.
LEMMA PutFlightQuiet ==
    ASSUME NEW x, Typed(x), NEW g \in Flight
    PROVE  LET y == putFlight(x, g)
           IN  /\ Typed(y) /\ Quiet(x, y) /\ y.intent = x.intent /\ y.allocs = x.allocs
               /\ y.flights = Others(x, g) \cup {g}
<1> DEFINE y == putFlight(x, g)
<1>1. /\ Typed(y) /\ KeepsForm(x, y) /\ KeepsCeremony(x, y) /\ KeepsCalls(x, y)
      /\ y.intent = x.intent
  BY PutFlightFrame
<1>2. y.flights = Others(x, g) \cup {g}
  BY DEF putFlight, Typed, Model, Others
<1> HIDE DEF y
<1>3. Quiet(x, y)
  BY <1>1, QuietFrame, SameCalmOrder DEF KeepsCalls
<1> QED BY <1>1, <1>2, <1>3 DEF y, KeepsCalls

\* A flight dropped with its allocation answered.
LEMMA DroppedQuiet ==
    ASSUME NEW x, Typed(x), NEW g, Pending(x, g)
    PROVE  /\ LET y == withoutFlight(endAllocation(x, g.ref, FALSE), g.id)
              IN  Typed(y) /\ Quiet(x, y) /\ Airborne(y) /\ y.intent = x.intent
           /\ LET y == withoutFlight(x, g.id)
              IN  /\ Typed(y) /\ Quiet(x, y) /\ Pending(y, g) /\ y.intent = x.intent
                  /\ y.flights = Others(y, g)
<1> DEFINE e == endAllocation(x, g.ref, FALSE)
           y == withoutFlight(e, g.id)
           z == withoutFlight(x, g.id)
<1>1. /\ Typed(e) /\ Quiet(x, e) /\ e.intent = x.intent /\ e.flights = x.flights
      /\ e.allocs = without(x.allocs, g.ref)
  <2>1. \A ok : LET z1 == endAllocation(x, g.ref, ok)
                IN  /\ Typed(z1) /\ Quiet(x, z1) /\ z1.intent = x.intent
                    /\ z1.flights = x.flights /\ z1.allocs = without(x.allocs, g.ref)
    BY EndAllocationQuiet
  <2> QED BY <2>1, Zenon
<1> HIDE DEF e
<1>2. /\ Typed(y) /\ Quiet(e, y) /\ y.intent = e.intent /\ y.allocs = e.allocs
      /\ y.flights = {f \in e.flights : f.id # g.id}
  BY <1>1, WithoutFlightQuiet
<1>3. /\ Typed(z) /\ Quiet(x, z) /\ z.intent = x.intent /\ z.allocs = x.allocs
      /\ z.flights = {f \in x.flights : f.id # g.id}
  BY WithoutFlightQuiet
<1> HIDE DEF y, z
<1>4. Airborne(y)
  <2>1. y.flights = Others(x, g) /\ y.allocs = without(x.allocs, g.ref)
    BY <1>1, <1>2 DEF Others
  <2> QED BY <2>1, Landed
<1>5. Others(z, g) = Others(x, g) /\ z.flights = Others(z, g)
  BY <1>3 DEF Others
<1>6. Pending(z, g)
  BY <1>3, <1>5 DEF Pending
<1> QED BY <1>1, <1>2, <1>3, <1>4, <1>5, <1>6, QuietTrans DEF y, z, e

-----------------------------------------------------------------------------
(* Quoting. *)

\* A quote is sent, refused or dropped, with its allocation.
LEMMA SendQuoteKeeps ==
    ASSUME NEW x, Typed(x), NEW g \in Flight, Pending(x, g)
    PROVE  Quiet(x, sendQuote(x, g)) /\ Airborne(sendQuote(x, g))
<1> DEFINE told == endAllocation(x, g.ref, FALSE)
           dropped == withoutFlight(told, g.id)
           bare == [x.intent EXCEPT !.quote = NoQuote]
           failed == [x.intent EXCEPT !.status = "failed"]
           next == IF g.silent THEN x ELSE transition(x, "quoting", x.intent)
           sent == [g EXCEPT !.stage = "api"]
           ask == [NoAsk EXCEPT !.op = "quote", !.id = g.id]
           put == putFlight(next, sent)
           Fine(y) == Quiet(x, y) /\ Airborne(y)
<1>1. Typed(dropped) /\ Fine(dropped) /\ dropped.intent = x.intent
  BY DroppedQuiet
<1> HIDE DEF dropped
<1>2. x.intent \in Intent
  BY DEF Typed, Model
<1>3. /\ bare \in Intent /\ ~bare.quote.canSolve
      /\ failed \in Intent /\ CalmOrder(x.intent, failed)
  <2>1. bare \in Intent /\ bare.quote = NoQuote /\ ~NoQuote.canSolve
    BY <1>2, NoQuoteType DEF Intent, NoQuote
  <2>2. /\ failed \in Intent /\ failed.status = "failed" /\ failed.quote = x.intent.quote
        /\ failed.intentId = x.intent.intentId
        /\ failed.quotedAddress = x.intent.quotedAddress
        /\ failed.quotedChainId = x.intent.quotedChainId
    BY <1>2 DEF Intent, IntentStatus
  <2> QED BY <2>1, <2>2 DEF CalmOrder, SameOrder
<1> HIDE DEF bare, failed
<1>4. "quoting" \in IntentStatus /\ "quoting" \notin QUOTE_BUSY_STATES
  BY DEF IntentStatus, QUOTE_BUSY_STATES
<1>5. Fine(transition(dropped, "quoting", bare))
  <2>1. Calm(dropped, transition(dropped, "quoting", bare))
    BY <1>1, <1>3, <1>4, TransitionCalm
  <2> QED BY <1>1, <2>1, CalmQuiet, CalmAirborne, QuietTrans
<1>6. Fine(patch(dropped, failed))
  <2>1. Calm(dropped, patch(dropped, failed))
    BY <1>1, <1>3, PatchCalm
  <2> QED BY <1>1, <2>1, CalmQuiet, CalmAirborne, QuietTrans
<1>7. Typed(next) /\ Calm(x, next) /\ next.flights = x.flights
  <2> DEFINE moved == transition(x, "quoting", x.intent)
  <2>1. Typed(moved) /\ Calm(x, moved)
    BY <1>4, MoveCalm
  <2>2. moved.flights = x.flights
    BY <1>2, <1>4, TransitionFrame
  <2> HIDE DEF moved
  <2>3. next = x \/ next = moved
    BY DEF moved
  <2> QED BY <2>1, <2>2, <2>3, CalmSelf
<1>8. Pending(next, g)
  <2>1. next.allocs = x.allocs
    BY <1>7 DEF Calm, CalmFlights
  <2> QED BY <1>7, <2>1 DEF Pending, Others
<1>9. /\ sent \in Flight /\ sent.id = g.id /\ sent.ref = g.ref /\ sent.silent = g.silent
      /\ sent.preview = g.preview /\ sent.ctx = g.ctx
      /\ ask \in Ask /\ ask.op = "quote"
  BY DEF Flight, Ask, NoAsk, OrNone
<1> HIDE DEF next, sent, ask
<1>10. /\ Typed(put) /\ Quiet(next, put) /\ put.allocs = next.allocs
       /\ put.flights = Others(next, sent) \cup {sent}
  BY <1>7, <1>9, PutFlightQuiet
<1> HIDE DEF put
<1>11. Airborne(put)
  <2>1. Flies(sent)
    BY <1>8, <1>9 DEF Pending, Flies
  <2>2. put.flights = Others(next, g) \cup {sent}
    BY <1>9, <1>10 DEF Others
  <2> QED BY <1>8, <1>9, <1>10, <2>1, <2>2, TakenOff
<1>12. Calm(put, perform(put, ask))
  BY <1>9, <1>10, PerformCalm
<1>13. Fine(perform(put, ask))
  BY <1>7, <1>10, <1>11, <1>12, CalmQuiet, CalmAirborne, QuietTrans
<1>14. \/ sendQuote(x, g) = dropped
       \/ sendQuote(x, g) = transition(dropped, "quoting", bare)
       \/ sendQuote(x, g) = patch(dropped, failed)
       \/ sendQuote(x, g) = perform(put, ask)
  BY DEF sendQuote, dropped, told, bare, failed, put, next, sent, ask
<1> QED
  BY <1>1, <1>5, <1>6, <1>13, <1>14

\* A quote that can be executed is asked for with a wallet only.
LEMMA AccessNeedsWallet ==
    ASSUME NEW connected, NEW trade, NEW allocate,
           quoteAccessDecision(connected, trade, allocate) \notin {"preview", "needs_wallet"}
    PROVE  connected
<1>1. CASE trade.settlement # "public"
  BY <1>1 DEF quoteAccessDecision
<1>2. CASE trade.settlement = "public" /\ trade.deposit /\ ~allocate
  BY <1>2 DEF quoteAccessDecision
<1>3. CASE trade.settlement = "public" /\ trade.deposit /\ allocate
  BY <1>3 DEF quoteAccessDecision
<1>4. CASE trade.settlement = "public" /\ ~trade.deposit
  BY <1>4 DEF quoteAccessDecision
<1> QED BY <1>1, <1>2, <1>3, <1>4

\* The allocation ref is awaited, and no flight is there for it yet.
Waiting(x, ref) ==
    /\ x.allocs = ({f.ref : f \in x.flights} \cup {ref}) \ {0}
    /\ \A f \in x.flights : Flies(f) /\ (f.ref # ref \/ ref = 0)
    /\ Apart(x.flights)

\* startQuote puts one flight in the air, for the allocation it was called for,
\* or answers that allocation.
LEMMA StartQuoteKeeps ==
    ASSUME NEW x, Typed(x), NEW o \in QuoteOpts, Waiting(x, o.ref), o.silent => o.ref = 0
    PROVE  Quiet(x, startQuote(x, o)) /\ Airborne(startQuote(x, o))
<1> DEFINE access == quoteAccessDecision(x.ctx.address # None, x.ctx.trade, o.ref # 0)
           g == [id |-> nextId(x), stage |-> "session", amount |-> o.amount,
                 silent |-> o.silent, ref |-> o.ref, ctx |-> x.ctx,
                 preview |-> access = "preview"]
           ask == [NoAsk EXCEPT !.op = "session", !.id = g.id]
           put == putFlight(x, g)
           told == endAllocation(x, o.ref, FALSE)
           y == startQuote(x, o)
           Fine(z) == Quiet(x, z) /\ Airborne(z)
<1>1. nextId(x) \in Nat /\ \A f \in x.flights : f.id # nextId(x)
  BY NextIdFresh DEF idsHeld
<1>2. /\ g \in Flight /\ g.id = nextId(x) /\ g.ref = o.ref /\ g.silent = o.silent
      /\ g.ctx = x.ctx /\ g.preview = (access = "preview")
  <2> HIDE DEF access
  <2>1. x.ctx \in Context
    BY DEF Typed, Model
  <2> QED BY <1>1, <2>1 DEF QuoteOpts, Flight
<1>3. ask \in Ask /\ ask.op = "session"
  BY <1>1 DEF Ask, NoAsk, OrNone
<1>4. \/ y = told
      \/ access # "needs_wallet" /\ y = perform(put, ask)
      \/ access # "needs_wallet" /\ y = sendQuote(x, g)
  BY DEF startQuote
<1>5. access \notin {"preview", "needs_wallet"} => x.ctx.address # None
  BY AccessNeedsWallet
<1> HIDE DEF access, g, ask, y
<1>6. Fine(told)
  <2>1. \A ok : LET z == endAllocation(x, o.ref, ok)
                IN  /\ Quiet(x, z) /\ z.flights = x.flights
                    /\ z.allocs = without(x.allocs, o.ref)
    BY EndAllocationQuiet
  <2>2. Quiet(x, told) /\ told.flights = x.flights /\ told.allocs = without(x.allocs, o.ref)
    BY <2>1, Zenon
  <2> HIDE DEF told
  <2>3. told.allocs = {f.ref : f \in x.flights} \ {0}
    BY <2>2 DEF Waiting, without
  <2> QED BY <2>2, <2>3 DEF Waiting, Airborne
<1>7. CASE access # "needs_wallet"
  <2>1. Others(x, g) = x.flights
    BY <1>1, <1>2 DEF Others
  <2>2. Flies(g)
    BY <1>2, <1>5, <1>7 DEF Flies
  <2>3. Pending(x, g)
    BY <1>2, <2>1, <2>2 DEF Waiting, Pending
  <2>4. Fine(sendQuote(x, g))
    BY <1>2, <2>3, SendQuoteKeeps
  <2>5. Typed(put) /\ Fine(put)
    <3>1. /\ Typed(put) /\ Quiet(x, put) /\ put.allocs = x.allocs
          /\ put.flights = Others(x, g) \cup {g}
      BY <1>2, PutFlightQuiet
    <3> HIDE DEF put
    <3> QED BY <2>2, <2>3, <3>1, TakenOff
  <2> HIDE DEF put
  <2>6. Calm(put, perform(put, ask))
    BY <1>3, <2>5, PerformCalm
  <2>7. Fine(perform(put, ask))
    BY <2>5, <2>6, CalmQuiet, CalmAirborne, QuietTrans
  <2> QED BY <1>4, <1>6, <2>4, <2>7 DEF put, y
<1> QED BY <1>4, <1>6, <1>7 DEF y

\* A quote that failed answers its allocation,
LEMMA QuoteFailedKeeps ==
    ASSUME NEW x, Typed(x), NEW g, Pending(x, g), x.flights = Others(x, g)
    PROVE  Quiet(x, quoteFailed(x, g)) /\ Airborne(quoteFailed(x, g))
<1> DEFINE next == endAllocation(x, g.ref, FALSE)
           failed == [x.intent EXCEPT !.status = "failed", !.quote = NoQuote]
           quoted == [next.intent EXCEPT !.status = "quoted"]
           Fine(z) == Quiet(x, z) /\ Airborne(z)
<1>1. /\ Typed(next) /\ Quiet(x, next) /\ next.intent = x.intent
      /\ next.flights = x.flights /\ next.allocs = without(x.allocs, g.ref)
  <2>1. \A ok : LET z == endAllocation(x, g.ref, ok)
                IN  /\ Typed(z) /\ Quiet(x, z) /\ z.intent = x.intent
                    /\ z.flights = x.flights /\ z.allocs = without(x.allocs, g.ref)
    BY EndAllocationQuiet
  <2> QED BY <2>1, Zenon
<1> HIDE DEF next
<1>2. Fine(next)
  BY <1>1, Landed
<1>3. x.intent \in Intent
  BY DEF Typed, Model
<1>4. failed \in Intent /\ CalmOrder(next.intent, failed)
  <2>1. /\ failed \in Intent /\ failed.status = "failed" /\ failed.quote = NoQuote
        /\ ~NoQuote.canSolve
    BY <1>3, NoQuoteType DEF Intent, IntentStatus, NoQuote
  <2> QED BY <2>1 DEF CalmOrder
<1>5. quoted \in Intent /\ CalmOrder(next.intent, quoted)
  <2>1. /\ quoted \in Intent /\ quoted.status = "quoted" /\ quoted.quote = next.intent.quote
        /\ quoted.intentId = next.intent.intentId
        /\ quoted.quotedAddress = next.intent.quotedAddress
        /\ quoted.quotedChainId = next.intent.quotedChainId
    BY <1>1, <1>3 DEF Intent, IntentStatus
  <2> QED BY <2>1 DEF CalmOrder, SameOrder
<1> HIDE DEF failed, quoted
<1>6. Fine(patch(next, failed)) /\ Fine(patch(next, quoted))
  BY <1>1, <1>2, <1>4, <1>5, PatchCalm, CalmQuiet, CalmAirborne, QuietTrans
<1>7. \/ quoteFailed(x, g) = next
      \/ quoteFailed(x, g) = patch(next, failed)
      \/ quoteFailed(x, g) = patch(next, quoted)
  BY DEF quoteFailed, allocationFailed, next, failed, quoted
<1> QED BY <1>2, <1>6, <1>7

\* and so does one the client refuses.
LEMMA RefuseQuoteKeeps ==
    ASSUME NEW x, Typed(x), NEW g, Pending(x, g), x.flights = Others(x, g),
           NEW q \in Quote, ~q.canSolve
    PROVE  Quiet(x, refuseQuote(x, g, q)) /\ Airborne(refuseQuote(x, g, q))
<1> DEFINE next == endAllocation(x, g.ref, FALSE)
           with == [x.intent EXCEPT !.quote = q]
           Fine(z) == Quiet(x, z) /\ Airborne(z)
<1>1. /\ Typed(next) /\ Quiet(x, next) /\ next.intent = x.intent
      /\ next.flights = x.flights /\ next.allocs = without(x.allocs, g.ref)
  <2>1. \A ok : LET z == endAllocation(x, g.ref, ok)
                IN  /\ Typed(z) /\ Quiet(x, z) /\ z.intent = x.intent
                    /\ z.flights = x.flights /\ z.allocs = without(x.allocs, g.ref)
    BY EndAllocationQuiet
  <2> QED BY <2>1, Zenon
<1> HIDE DEF next
<1>2. Fine(next)
  BY <1>1, Landed
<1>3. with \in Intent /\ ~with.quote.canSolve
  BY DEF Typed, Model, Intent
<1>4. "failed" \in IntentStatus
  BY DEF IntentStatus
<1> HIDE DEF with
<1>5. Fine(transition(next, "failed", with))
  BY <1>1, <1>2, <1>3, <1>4, TransitionCalm, CalmQuiet, CalmAirborne, QuietTrans
<1>6. refuseQuote(x, g, q) = next \/ refuseQuote(x, g, q) = transition(next, "failed", with)
  BY DEF refuseQuote, next, with
<1> QED BY <1>2, <1>5, <1>6

\* So a quiet step keeps the invariant where it keeps the flights in order.
LEMMA QuietKept ==
    ASSUME NEW x, Kept(x), NEW y, Quiet(x, y), Airborne(y)
    PROVE  Kept(y)
BY BesideBound DEF Kept, Quiet, AddressesOnce

\* The answer of a session sends its quote, or fails it.
LEMMA OnSessionKeeps ==
    ASSUME NEW x, Typed(x), Kept(x), NEW id, NEW result
    PROVE  Kept(onSession(x, id, result))
<1> DEFINE found == {f \in x.flights : f.id = id /\ f.stage = "session"}
           g == CHOOSE f \in found : TRUE
<1>1. CASE found = {}
  BY <1>1 DEF onSession
<1>2. CASE found # {}
  <2>1. g \in x.flights /\ g.id = id
    BY <1>2
  <2> DEFINE y == onSession(x, id, result)
             w == withoutFlight(x, g.id)
  <2>2. y = dropStaleFlight(x, g) \/ y = sendQuote(x, g) \/ y = quoteFailed(w, g)
    BY <1>2, <2>1 DEF onSession
  <2> HIDE DEF g, found, y
  <2>3. g \in Flight /\ Pending(x, g)
    BY <2>1, FlightPending DEF Typed, Model, Kept
  <2>4. Quiet(x, dropStaleFlight(x, g)) /\ Airborne(dropStaleFlight(x, g))
    BY <2>3, DroppedQuiet DEF dropStaleFlight
  <2>5. Typed(w) /\ Quiet(x, w) /\ Pending(w, g) /\ w.flights = Others(w, g)
    BY <2>3, DroppedQuiet
  <2> HIDE DEF w
  <2>6. Quiet(x, quoteFailed(w, g)) /\ Airborne(quoteFailed(w, g))
    BY <2>5, QuoteFailedKeeps, QuietTrans
  <2>7. Quiet(x, sendQuote(x, g)) /\ Airborne(sendQuote(x, g))
    BY <2>3, SendQuoteKeeps
  <2> QED BY <2>2, <2>4, <2>6, <2>7, QuietKept DEF y
<1> QED BY <1>1, <1>2

-----------------------------------------------------------------------------
(* A quote lands on the order. *)

\* All but the order is as it was, or its ceremony is over.
Lands(x, y) ==
    /\ y.ctx = x.ctx /\ y.seenDepositAddresses = x.seenDepositAddresses
    /\ y.flights = x.flights /\ y.allocs = x.allocs
    /\ CalmCeremony(x, y)

\* Landings compose.
LEMMA LandsTrans ==
    ASSUME NEW x, NEW y, NEW z, Lands(x, y), Lands(y, z)
    PROVE  Lands(x, z)
BY DEF Lands, CalmCeremony

\* A step that leaves form, ceremony, calls and flights alone may land an order.
LEMMA LandsFrame ==
    ASSUME NEW x, NEW y, KeepsForm(x, y), KeepsCeremony(x, y), KeepsCalls(x, y),
           y.flights = x.flights
    PROVE  Lands(x, y)
BY DEF KeepsForm, KeepsCeremony, KeepsCalls, Lands, CalmCeremony

\* So may a move to a status that is not busy, which sends nothing.
LEMMA TransitionLands ==
    ASSUME NEW x, Typed(x), NEW to \in IntentStatus \ QUOTE_BUSY_STATES, NEW u \in Intent
    PROVE  LET y == transition(x, to, u)
           IN  Typed(y) /\ Lands(x, y) /\ (y = x \/ y.intent = movedTo(u, to))
<1> DEFINE from == x.intent.status
           v == movedTo(u, to)
           moved == patch(x, v)
           y == transition(x, to, u)
<1>1. y = x \/ (canTransitionTo(from, to) /\ (y = moved \/ y = abandonSign(moved)))
  BY DEF transition, movedTo
<1>2. v \in Intent
  BY DEF Intent, movedTo
<1>3. canTransitionTo(from, to) => y.intent = v
  BY TransitionFrame
<1> HIDE DEF v
<1>4. Typed(moved) /\ Lands(x, moved)
  <2>1. /\ Typed(moved) /\ KeepsForm(x, moved) /\ KeepsCeremony(x, moved)
        /\ KeepsCalls(x, moved) /\ moved.flights = x.flights
    BY <1>2, PatchFrame
  <2> QED BY <2>1, LandsFrame
<1> HIDE DEF moved, y
<1>5. Typed(abandonSign(moved)) /\ Lands(moved, abandonSign(moved))
  <2> DEFINE z == abandonSign(moved)
  <2>1. /\ Typed(z) /\ KeepsForm(moved, z) /\ KeepsCalls(moved, z)
        /\ z.sign = NoSign /\ z.pendingIntentSig = None /\ z.flights = moved.flights
    BY <1>4, AbandonSignFrame
  <2>2. NoSign.stage = "none"
    BY DEF NoSign
  <2> HIDE DEF z
  <2>3. Lands(moved, z)
    BY <2>1, <2>2 DEF KeepsForm, KeepsCalls, Lands, CalmCeremony
  <2> QED BY <2>1, <2>3 DEF z
<1>6. Lands(x, x)
  BY DEF Lands, CalmCeremony
<1> QED BY <1>1, <1>3, <1>4, <1>5, <1>6, LandsTrans DEF y, v

\* Out of a ceremony, an order that is quoted as it should be is enough.
LEMMA BoundRest ==
    ASSUME NEW x, Bound(x), NEW y, y.intent.status # "signing", OrderQuoted(y.intent),
           CalmCeremony(x, y)
    PROVE  Bound(y)
BY DEF Bound, WalletWatched, Collected, Requested, CalmCeremony

\* An accepted quote is the order on screen, made for the account that asked,
\* and its allocation is answered.
LEMMA AcceptQuoteKeeps ==
    ASSUME NEW x, Typed(x), Bound(x), x.intent.status \notin QUOTE_BUSY_STATES,
           NEW g \in Flight, Pending(x, g), x.flights = Others(x, g),
           NEW q \in Quote, q.preview = g.preview, ~q.preview => q.intent # None, NEW n \in Nat
    PROVE  LET y == acceptQuote(x, g, q, n)
           IN  Bound(y) /\ Airborne(y) /\ y.seenDepositAddresses = x.seenDepositAddresses
<1> DEFINE holder == IF q.preview THEN None ELSE g.ctx.address
           until == IF q.address # None THEN q.depositDeadline ELSE Never
           accepted == [x.intent EXCEPT
                           !.intentId = q.intent, !.quote = q,
                           !.quotedAddress = holder,
                           !.quotedChainId = g.ctx.chainId,
                           !.quotedFromAmount = g.amount,
                           !.depositDeadline = until]
           still == [accepted EXCEPT !.pollExhausted = FALSE]
           landed == \/ x.intent.status = "quoted"
                     \/ ~g.silent /\ canTransitionTo(x.intent.status, "quoted")
           next == IF g.silent THEN patch(x, accepted)
                   ELSE IF x.intent.status = "quoted" THEN patch(x, still)
                   ELSE transition(x, "quoted", still)
           traded == IF landed THEN [next EXCEPT !.quotedTrade = tradeKey(g.ctx)] ELSE next
           due == q.expiry - QUOTE_REFRESH_BUFFER
           plan == [on |-> TRUE, amount |-> g.amount, hasAllocatedDeposit |-> q.address # None]
           timed == setTimer(traded, "refresh", due)
           planned == IF due > n THEN [timed EXCEPT !.refresh = plan] ELSE traded
           Sound(i) == i \in Intent /\ OrderQuoted(i) /\ i.status # "signing"
           Fine(z) == Typed(z) /\ Lands(x, z) /\ Sound(z.intent)
<1>0. Sound(x.intent) /\ Lands(x, x)
  BY DEF Typed, Model, Bound, QUOTE_BUSY_STATES, Lands, CalmCeremony
<1>1. g.ctx \in Context /\ g.amount \in AmountField /\ g.silent \in BOOLEAN
  BY DEF Flight
<1>2. g.ctx.address \in OrNone(Wallets) /\ g.ctx.chainId \in OrNone(Chains)
  BY <1>1 DEF Context
<1>3. /\ q.intent \in OrNone(Intents) /\ q.expiry \in Int /\ q.depositDeadline \in Int
      /\ q.preview \in BOOLEAN
  BY DEF Quote, Times
<1>4. ~q.preview => holder # None
  BY DEF Pending, Flies
<1>5. /\ accepted \in Intent /\ accepted.status = x.intent.status
      /\ accepted.intentId = q.intent /\ accepted.quote = q /\ accepted.quotedAddress = holder
  <2>1. holder \in OrNone(Wallets) /\ until \in Times
    BY <1>2, <1>3 DEF OrNone, Times, Never
  <2>2. g.amount \in OrNone(AmountField)
    BY <1>1 DEF OrNone
  <2> HIDE DEF holder, until
  <2>3. x.intent \in Intent
    BY <1>0
  <2> QED BY <1>2, <1>3, <2>1, <2>2, <2>3 DEF Intent
<1> HIDE DEF holder, until
<1>6. Sound(accepted)
  BY <1>0, <1>4, <1>5 DEF OrderQuoted
<1> HIDE DEF accepted
<1>7. /\ still \in Intent /\ still.status = accepted.status /\ still.intentId = accepted.intentId
      /\ still.quote = accepted.quote /\ still.quotedAddress = accepted.quotedAddress
  BY <1>6 DEF Intent
<1>8. Sound(still)
  BY <1>6, <1>7 DEF OrderQuoted
<1> HIDE DEF still
<1>9. Fine(patch(x, accepted)) /\ Fine(patch(x, still))
  BY <1>6, <1>8, PatchFrame, LandsFrame
<1>10. Fine(transition(x, "quoted", still))
  <2> DEFINE z == transition(x, "quoted", still)
             v == movedTo(still, "quoted")
  <2>1. "quoted" \in IntentStatus \ QUOTE_BUSY_STATES
    BY DEF IntentStatus, QUOTE_BUSY_STATES
  <2>2. Typed(z) /\ Lands(x, z) /\ (z = x \/ z.intent = v)
    BY <1>8, <2>1, TransitionLands
  <2>3. /\ v \in Intent /\ v.status = "quoted" /\ v.intentId = still.intentId
        /\ v.quote = still.quote /\ v.quotedAddress = still.quotedAddress
    BY <1>8, <2>1 DEF movedTo, Intent
  <2> HIDE DEF v, z
  <2>4. Sound(v)
    BY <1>8, <2>3 DEF OrderQuoted
  <2> QED BY <1>0, <2>2, <2>4 DEF z
<1>11. Fine(next)
  BY <1>9, <1>10
<1> HIDE DEF next
<1>12. Fine(traded)
  <2> DEFINE k == tradeKey(g.ctx)
             z == [next EXCEPT !.quotedTrade = k]
  <2>1. k \in TradeKey
    BY <1>1, TradeKeyType
  <2> HIDE DEF k
  <2>2. /\ Typed(z) /\ z.intent = next.intent /\ z.ctx = next.ctx
        /\ z.seenDepositAddresses = next.seenDepositAddresses
        /\ z.flights = next.flights /\ z.allocs = next.allocs
        /\ z.sign = next.sign /\ z.pendingIntentSig = next.pendingIntentSig
        /\ z.asks = next.asks
    BY <1>11, <2>1 DEF Typed, Model, OrNone
  <2> HIDE DEF z
  <2>3. Fine(z)
    BY <1>11, <2>2 DEF Lands, CalmCeremony
  <2> QED BY <1>11, <2>3 DEF z, k
<1> HIDE DEF traded, landed
<1>13. due \in Times /\ plan \in Plan
  BY <1>1, <1>3, MachineConstants DEF Times, Plan
<1> HIDE DEF due, plan
<1>14. Fine(timed)
  <2>1. /\ Typed(timed) /\ KeepsForm(traded, timed) /\ KeepsCeremony(traded, timed)
        /\ KeepsCalls(traded, timed) /\ timed.intent = traded.intent
        /\ timed.flights = traded.flights
    <3>1. "refresh" \in TimerName
      BY DEF TimerName
    <3> QED BY <1>12, <1>13, <3>1, SetTimerFrame
  <2> HIDE DEF timed
  <2>2. Lands(x, timed)
    BY <1>12, <2>1, LandsFrame, LandsTrans
  <2> QED BY <1>12, <2>1, <2>2
<1> HIDE DEF timed
<1>15. Fine(planned)
  <2> DEFINE z == [timed EXCEPT !.refresh = plan]
  <2>1. /\ Typed(z) /\ z.intent = timed.intent /\ z.ctx = timed.ctx
        /\ z.seenDepositAddresses = timed.seenDepositAddresses
        /\ z.flights = timed.flights /\ z.allocs = timed.allocs
        /\ z.sign = timed.sign /\ z.pendingIntentSig = timed.pendingIntentSig
        /\ z.asks = timed.asks
    BY <1>13, <1>14 DEF Typed, Model, Plan
  <2> HIDE DEF z
  <2>2. Fine(z)
    BY <1>14, <2>1 DEF Lands, CalmCeremony
  <2> QED BY <1>12, <2>2 DEF z
<1> HIDE DEF planned
<1> DEFINE ended == endAllocation(planned, g.ref, TRUE)
           y == acceptQuote(x, g, q, n)
<1>16. /\ Quiet(planned, ended) /\ ended.intent = planned.intent
       /\ ended.flights = planned.flights /\ ended.allocs = without(planned.allocs, g.ref)
  <2>1. \A ok : LET z == endAllocation(planned, g.ref, ok)
                IN  /\ Quiet(planned, z) /\ z.intent = planned.intent
                    /\ z.flights = planned.flights /\ z.allocs = without(planned.allocs, g.ref)
    BY <1>15, EndAllocationQuiet
  <2> QED BY <2>1, Zenon
<1>17. y = x \/ y = ended
  <2>1. y = IF g.silent /\ x.intent.status # "quoted" THEN x ELSE ended
    BY Zenon DEF acceptQuote, planned, timed, due, plan, traded, landed, next, still, accepted,
       holder, until
  <2> QED BY <2>1
<1>18. y = x => (g.silent /\ g.ref = 0) \/ y = ended
  <2>1. y = IF g.silent /\ x.intent.status # "quoted" THEN x ELSE ended
    BY Zenon DEF acceptQuote, planned, timed, due, plan, traded, landed, next, still, accepted,
       holder, until
  <2> HIDE DEF y, ended
  <2> QED BY <2>1 DEF Pending, Flies
<1> HIDE DEF y, ended
<1>19. /\ Bound(ended) /\ Airborne(ended)
       /\ ended.seenDepositAddresses = x.seenDepositAddresses
  <2>1. ended.intent = planned.intent /\ CalmCeremony(x, ended)
    BY <1>15, <1>16 DEF Quiet, Beside, Lands, CalmCeremony
  <2>2. Bound(ended)
    BY <1>15, <2>1, BoundRest
  <2>3. ended.flights = Others(x, g) /\ ended.allocs = without(x.allocs, g.ref)
    BY <1>15, <1>16 DEF Lands
  <2> QED BY <1>15, <1>16, <2>2, <2>3, Landed DEF Quiet, Lands
<1>20. g.ref = 0 => Airborne(x)
  BY Landed DEF without
<1> QED BY <1>17, <1>18, <1>19, <1>20 DEF y

\* An address that was not shown for another intent may be shown.
LEMMA SeenBound ==
    ASSUME NEW x, Typed(x), Bound(x), AddressesOnce(x), NEW q, ~addressReuse(x, q),
           <<q.address, q.intent>> \in Addresses \X OrNone(Intents)
    PROVE  LET y == [x EXCEPT !.seenDepositAddresses = @ \cup {<<q.address, q.intent>>}]
           IN  /\ Typed(y) /\ Bound(y) /\ AddressesOnce(y) /\ y.intent = x.intent
               /\ y.flights = x.flights /\ y.allocs = x.allocs
<1> DEFINE p == <<q.address, q.intent>>
           y == [x EXCEPT !.seenDepositAddresses = @ \cup {p}]
<1>1. p[1] = q.address /\ p[2] = q.intent
  OBVIOUS
<1> HIDE DEF p
<1>2. /\ Typed(y) /\ y.intent = x.intent /\ y.ctx = x.ctx /\ y.watched = x.watched
      /\ y.sign = x.sign /\ y.pendingIntentSig = x.pendingIntentSig /\ y.asks = x.asks
      /\ y.flights = x.flights /\ y.allocs = x.allocs
      /\ y.seenDepositAddresses = x.seenDepositAddresses \cup {p}
  BY DEF Typed, Model, p
<1> HIDE DEF y
<1>3. \A r \in x.seenDepositAddresses : r[1] = p[1] => r[2] = p[2]
  BY <1>1 DEF addressReuse
<1>4. AddressesOnce(y)
  BY <1>2, <1>3 DEF AddressesOnce
<1>5. Bound(y)
  <2>1. Beside(x, y)
    BY <1>2, SameCalmOrder DEF Beside, CalmCeremony
  <2> QED BY <2>1, BesideBound
<1> QED BY <1>2, <1>4, <1>5 DEF y, p

\* The answer to a quote lands, is refused or fails, and an address it shows is
\* the order's alone.
LEMMA OnQuoteKeeps ==
    ASSUME NEW x, Typed(x), Kept(x), NEW id, NEW reply, reply.quote \in Quote, NEW n \in Nat,
           ~reply.threw /\ ~reply.quote.preview => reply.quote.intent # None
    PROVE  Kept(onQuote(x, id, reply, n))
<1> DEFINE found == {f \in x.flights : f.id = id /\ f.stage = "api"}
           g == CHOOSE f \in found : TRUE
<1>1. CASE found = {}
  BY <1>1 DEF onQuote
<1>2. CASE found # {}
  <2> DEFINE y == onQuote(x, id, reply, n)
             w == withoutFlight(x, g.id)
             q == reply.quote
             p == <<q.address, q.intent>>
             seen == [w EXCEPT !.seenDepositAddresses = @ \cup {p}]
             shown == IF reply.success /\ ~q.canSolve THEN q ELSE NoQuote
             taken == /\ x.intent.status \notin QUOTE_BUSY_STATES
                      /\ ~reply.threw /\ q.preview = g.preview
  <2>1. g \in x.flights /\ g.id = id
    BY <1>2
  <2>2. \/ y = dropStaleFlight(x, g)
        \/ y = quoteFailed(w, g)
        \/ y = refuseQuote(w, g, shown)
        \/ taken /\ y = acceptQuote(w, g, q, n)
        \/ y = refuseQuote(w, g, NoQuote)
        \/ taken /\ q.address # None /\ ~addressReuse(w, q) /\ y = acceptQuote(seen, g, q, n)
    BY <1>2, <2>1 DEF onQuote, quoteRefusal
  <2> HIDE DEF g, found, y
  <2>3. g \in Flight /\ Pending(x, g)
    BY <2>1, FlightPending DEF Typed, Model, Kept
  <2>4. Quiet(x, dropStaleFlight(x, g)) /\ Airborne(dropStaleFlight(x, g))
    BY <2>3, DroppedQuiet DEF dropStaleFlight
  <2>5. /\ Typed(w) /\ Quiet(x, w) /\ Pending(w, g) /\ w.flights = Others(w, g)
        /\ w.intent = x.intent
    BY <2>3, DroppedQuiet
  <2>6. Bound(w) /\ AddressesOnce(w)
    BY <2>5, BesideBound DEF Kept, Quiet, AddressesOnce
  <2> HIDE DEF w
  <2>7. shown \in Quote /\ ~shown.canSolve /\ ~NoQuote.canSolve
    BY NoQuoteType DEF NoQuote
  <2> HIDE DEF shown
  <2>8. Quiet(x, quoteFailed(w, g)) /\ Airborne(quoteFailed(w, g))
    BY <2>5, QuoteFailedKeeps, QuietTrans
  <2>9. /\ Quiet(x, refuseQuote(w, g, shown)) /\ Airborne(refuseQuote(w, g, shown))
        /\ Quiet(x, refuseQuote(w, g, NoQuote)) /\ Airborne(refuseQuote(w, g, NoQuote))
    BY <2>5, <2>7, NoQuoteType, RefuseQuoteKeeps, QuietTrans
  <2>10. taken => q \in Quote /\ (~q.preview => q.intent # None)
    OBVIOUS
  <2> HIDE DEF q
  <2>11. taken => Kept(acceptQuote(w, g, q, n))
    BY <2>3, <2>5, <2>6, <2>10, AcceptQuoteKeeps DEF Kept, AddressesOnce
  <2>12. taken /\ q.address # None /\ ~addressReuse(w, q) => Kept(acceptQuote(seen, g, q, n))
    <3>1. SUFFICES ASSUME taken, q.address # None, ~addressReuse(w, q)
                   PROVE  Kept(acceptQuote(seen, g, q, n))
      OBVIOUS
    <3>2. p \in Addresses \X OrNone(Intents)
      BY <2>10, <3>1 DEF Quote, OrNone
    <3>3. /\ Typed(seen) /\ Bound(seen) /\ AddressesOnce(seen) /\ seen.intent = w.intent
          /\ seen.flights = w.flights /\ seen.allocs = w.allocs
      BY <2>5, <2>6, <3>1, <3>2, SeenBound
    <3> HIDE DEF seen
    <3>4. Pending(seen, g) /\ seen.flights = Others(seen, g)
      BY <2>5, <3>3 DEF Pending, Others
    <3> QED BY <2>3, <2>5, <2>10, <3>1, <3>3, <3>4, AcceptQuoteKeeps DEF Kept, AddressesOnce
  <2> QED BY <2>2, <2>4, <2>8, <2>9, <2>11, <2>12, QuietKept DEF y
<1> QED BY <1>1, <1>2

-----------------------------------------------------------------------------
(* The ceremony. *)

\* A status move leaves the quotes in the air, or supersedes all of them.
LEMMA TransitionAir ==
    ASSUME NEW x, Typed(x), NEW to \in IntentStatus, NEW u \in Intent
    PROVE  CalmFlights(x, transition(x, to, u))
<1> DEFINE from == x.intent.status
           v == movedTo(u, to)
           moved == patch(x, v)
           next == IF to \in QUOTE_BUSY_STATES /\ from \notin QUOTE_BUSY_STATES
                   THEN supersedeFlights(moved) ELSE moved
           y == transition(x, to, u)
<1>1. y = x \/ y = next \/ y = abandonSign(next)
  BY DEF transition, movedTo
<1>2. v \in Intent
  BY DEF Intent, movedTo
<1> HIDE DEF v
<1>3. Typed(moved) /\ moved.flights = x.flights /\ moved.allocs = x.allocs
  BY <1>2, PatchFrame DEF KeepsCalls
<1> HIDE DEF moved
<1>4. Typed(next) /\ CalmFlights(moved, next)
  BY <1>3, SupersedeCalm DEF Calm, CalmFlights
<1> HIDE DEF next
<1>5. CalmFlights(next, abandonSign(next))
  BY <1>4, AbandonCalm DEF Calm
<1> HIDE DEF y
<1> QED BY <1>1, <1>3, <1>4, <1>5 DEF CalmFlights, y

\* The order and its surroundings stay, and no execute goes out.
Stays(x, y) ==
    /\ y.ctx = x.ctx /\ y.watched.wallet = x.watched.wallet /\ y.intent = x.intent
    /\ y.seenDepositAddresses = x.seenDepositAddresses
    /\ y.flights = x.flights /\ y.allocs = x.allocs
    /\ \A a \in y.asks : a \in x.asks \/ a.op # "execute"

\* So a step over the same order keeps the invariant where what it collects and
\* requests is for that order.
LEMMA StaysKept ==
    ASSUME NEW x, Kept(x), NEW y, Stays(x, y), Collected(y), Requested(y.sign)
    PROVE  Kept(y)
<1>1. Airborne(y) /\ AddressesOnce(y)
  BY DEF Kept, Stays, Airborne, AddressesOnce
<1>2. WalletWatched(y)
  BY DEF Kept, Bound, Stays, WalletWatched, walletKey
<1> QED BY <1>1, <1>2 DEF Kept, Bound, Stays

\* A quote that expires starts nothing.
LEMMA TickExpiryKeeps ==
    ASSUME NEW x, Typed(x), NEW n
    PROVE  Typed(tickExpiry(x, n)) /\ Calm(x, tickExpiry(x, n))
<1>1. "expired" \in IntentStatus
  BY DEF IntentStatus
<1> QED BY <1>1, MoveCalm, CalmSelf DEF tickExpiry

\* A prompt is for the intent on screen, and the wallet is the quote's own.
LEMMA BeginSignKeeps ==
    ASSUME NEW x, Good(x), Kept(x), NEW n
    PROVE  Kept(beginSign(x, n))
<1> DEFINE q == x.intent.quote
           y == beginSign(x, n)
           s == transition(x, "signing", x.intent)
           id == nextId(x)
           ask == [NoAsk EXCEPT !.op = "signIntent", !.id = id, !.intentId = q.intent]
           flow == [NoSign EXCEPT !.stage = "intent", !.id = id]
           p == perform(s, ask)
           t == setTimer(p, "signPrompt", AtOnce)
           z == [t EXCEPT !.sign = flow]
<1>1. /\ "awaiting_deposit" \in IntentStatus /\ "expired" \in IntentStatus
      /\ "signing" \in IntentStatus
  BY DEF IntentStatus
<1>2. Typed(x) /\ x.intent \in Intent
  BY DEF Good, Typed, Model
<1>3. /\ Kept(transition(x, "awaiting_deposit", x.intent))
      /\ Kept(transition(x, "expired", x.intent))
  BY <1>1, <1>2, MoveCalm, CalmKept
<1>4. \/ y = x
      \/ y = transition(x, "awaiting_deposit", x.intent)
      \/ y = transition(x, "expired", x.intent)
      \/ /\ canSignQuote(x.intent.status, q)
         /\ decideSignPreflight(x.ctx, x.intent, n) \notin {"quoted", "expired"}
         /\ y = z
  BY DEF beginSign, openPrompt
<1>5. ASSUME canSignQuote(x.intent.status, q),
             decideSignPreflight(x.ctx, x.intent, n) \notin {"quoted", "expired"}
      PROVE  Kept(z)
  <2>1. x.intent.status = "quoted" /\ q.canSolve /\ ~q.preview
    BY <1>5 DEF canSignQuote
  <2>2. x.intent.quotedAddress # None /\ q.intent = x.intent.intentId /\ x.intent.intentId # None
    BY <2>1 DEF Kept, Bound, OrderQuoted
  <2>3. Fits(walletKey(x))
    BY <1>5, <2>2 DEF decideSignPreflight, Fits, walletKey
  <2>4. x.pendingIntentSig = None
    BY <2>1 DEF Good, CeremonySafe
  <2>5. id \in Nat /\ \A a \in x.asks : a.id # id
    BY <1>2, NextIdFresh DEF idsHeld
  <2>6. /\ ask \in Ask /\ ask.op = "signIntent" /\ ask.id = id /\ ask.intentId = q.intent
        /\ flow \in SignFlow /\ flow.stage = "intent" /\ flow.id = id
    <3>1. q.intent \in OrNone(Intents)
      BY <1>2 DEF Intent, Quote
    <3>2. ask \in Ask /\ ask.op = "signIntent" /\ ask.id = id /\ ask.intentId = q.intent
      BY <2>5, <3>1 DEF Ask, NoAsk, OrNone
    <3> QED BY <2>5, <3>2, NoSignType DEF SignFlow, NoSign
  <2> HIDE DEF ask, flow, id
  <2>7. /\ Typed(s) /\ KeepsForm(x, s) /\ KeepsCeremony(x, s) /\ s.asks = x.asks
        /\ s.intent = movedTo(x.intent, "signing")
    <3>1. canTransitionTo(x.intent.status, "signing") /\ ~leaves(x, "signing")
      BY <2>1 DEF canTransitionTo, INTENT_STATUS_TRANSITIONS, leaves
    <3> QED BY <1>1, <1>2, <3>1, TransitionFrame
  <2>8. CalmFlights(x, s)
    BY <1>1, <1>2, TransitionAir
  <2>9. /\ s.intent.status = "signing" /\ SameOrder(x.intent, s.intent)
    BY <1>1, <1>2, <2>7 DEF movedTo, Intent, SameOrder
  <2> HIDE DEF s
  <2>10. /\ Typed(p) /\ KeepsForm(s, p) /\ KeepsCeremony(s, p) /\ p.intent = s.intent
         /\ p.flights = s.flights /\ p.allocs = s.allocs /\ p.asks = s.asks \cup {ask}
    BY <2>6, <2>7, PerformFrame DEF perform, Typed, Model
  <2> HIDE DEF p
  <2>11. /\ Typed(t) /\ KeepsForm(p, t) /\ KeepsCeremony(p, t) /\ KeepsCalls(p, t)
         /\ t.intent = p.intent /\ t.flights = p.flights
    <3>1. "signPrompt" \in TimerName /\ AtOnce \in Times
      BY DEF TimerName, AtOnce, Times
    <3> QED BY <2>10, <3>1, SetTimerFrame
  <2> HIDE DEF t
  <2>12. /\ KeepsForm(t, z) /\ KeepsCalls(t, z) /\ z.sign = flow
         /\ z.pendingIntentSig = t.pendingIntentSig
         /\ z.intent = t.intent /\ z.flights = t.flights
    BY <2>6, <2>11, SignFrame
  <2> HIDE DEF z
  <2>13. /\ z.ctx = x.ctx /\ z.seenDepositAddresses = x.seenDepositAddresses
         /\ z.intent = s.intent /\ z.asks = x.asks \cup {ask} /\ z.sign = flow
         /\ z.pendingIntentSig = None
    BY <2>4, <2>7, <2>10, <2>11, <2>12 DEF KeepsForm, KeepsCeremony, KeepsCalls
  <2>14. Airborne(z)
    <3>1. z.flights = s.flights /\ z.allocs = s.allocs
      BY <2>10, <2>11, <2>12 DEF KeepsCalls
    <3> QED BY <2>8, <3>1 DEF Kept, CalmFlights, Airborne, Apart
  <2>15. OrderQuoted(z.intent)
    BY <2>1, <2>9, <2>13 DEF Kept, Bound, OrderQuoted, SameOrder
  <2>16. WalletWatched(z)
    BY <2>3, <2>9, <2>13 DEF WalletWatched, Fits, walletKey, SameOrder
  <2>17. Collected(z)
    BY <2>2, <2>5, <2>6, <2>9, <2>13 DEF Collected, SameOrder
  <2>18. Requested(z.sign) /\ \A a \in z.asks : a.op = "execute" => SignedFor(a)
    BY <2>6, <2>13 DEF Kept, Bound, Requested
  <2> QED BY <2>13, <2>14, <2>15, <2>16, <2>17, <2>18 DEF Kept, Bound, AddressesOnce
<1> QED BY <1>3, <1>4, <1>5 DEF y

\* A call goes out that is no execute; a prompt is for the intent on screen.
LEMMA AskKept ==
    ASSUME NEW x, Typed(x), Kept(x), NEW a \in Ask, a.op # "execute",
           a.op \in {"signIntent", "signPull"} => a.intentId = x.intent.intentId
    PROVE  LET y == perform(x, a)
           IN  /\ Typed(y) /\ Kept(y) /\ y.intent = x.intent /\ y.asks = x.asks \cup {a}
               /\ y.sign = x.sign
<1> DEFINE y == perform(x, a)
<1>1. /\ Typed(y) /\ KeepsForm(x, y) /\ KeepsCeremony(x, y)
      /\ y.intent = x.intent /\ y.flights = x.flights /\ y.allocs = x.allocs
  BY PerformFrame
<1>2. y.asks = x.asks \cup {a}
  BY DEF perform, Typed, Model
<1> HIDE DEF y
<1>3. Collected(y) /\ Requested(y.sign)
  BY <1>1, <1>2 DEF Kept, Bound, Collected, KeepsCeremony
<1>4. Stays(x, y)
  BY <1>1, <1>2 DEF Stays, KeepsForm
<1> QED BY <1>1, <1>2, <1>3, <1>4, StaysKept DEF y, KeepsCeremony

\* What f has collected, and the prompts of f, are for the order of x.
ForOrder(x, f) ==
    /\ f.stage \in {"approval", "pull"} => f.sig = x.intent.intentId
    /\ \A a \in x.asks : a.id = f.id /\ a.op \in {"signIntent", "signPull"}
                         => a.intentId = x.intent.intentId

\* A sign flow for the order may replace the one there is.
LEMMA FlowKept ==
    ASSUME NEW x, Typed(x), Kept(x), NEW f \in SignFlow, f.stage # "execute", ForOrder(x, f)
    PROVE  LET y == [x EXCEPT !.sign = f]
           IN  Typed(y) /\ Kept(y) /\ y.intent = x.intent
<1> DEFINE y == [x EXCEPT !.sign = f]
<1>1. /\ Typed(y) /\ KeepsForm(x, y) /\ KeepsCalls(x, y)
      /\ y.sign = f /\ y.pendingIntentSig = x.pendingIntentSig
      /\ y.intent = x.intent /\ y.flights = x.flights
  BY SignFrame
<1> HIDE DEF y
<1>2. Collected(y) /\ Requested(y.sign)
  BY <1>1 DEF Kept, Bound, Collected, Requested, ForOrder, KeepsCalls
<1>3. Stays(x, y)
  BY <1>1 DEF Stays, KeepsForm, KeepsCalls
<1> QED BY <1>1, <1>2, <1>3, StaysKept DEF y

\* The flags of a ceremony and the held signature, given up, change no order.
LEMMA FlagsCalm ==
    ASSUME NEW x, Typed(x)
    PROVE  /\ LET y == [x EXCEPT !.awaitingPull = FALSE]
              IN  Typed(y) /\ Calm(x, y) /\ y.intent = x.intent
           /\ LET y == [x EXCEPT !.isSigningPull = TRUE]
              IN  /\ Typed(y) /\ Calm(x, y) /\ y.intent = x.intent /\ y.asks = x.asks
           /\ LET y == [x EXCEPT !.pendingIntentSig = None]
              IN  /\ Typed(y) /\ Calm(x, y) /\ y.intent = x.intent /\ y.sign = x.sign
                  /\ y.asks = x.asks
<1> DEFINE y1 == [x EXCEPT !.awaitingPull = FALSE]
           y2 == [x EXCEPT !.isSigningPull = TRUE]
           y3 == [x EXCEPT !.pendingIntentSig = None]
           Same(y) == /\ y.ctx = x.ctx /\ y.watched = x.watched /\ y.intent = x.intent
                      /\ y.sign = x.sign /\ y.asks = x.asks
                      /\ y.pendingIntentSig \in {x.pendingIntentSig, None}
                      /\ y.seenDepositAddresses = x.seenDepositAddresses
                      /\ y.flights = x.flights /\ y.allocs = x.allocs
<1>1. Typed(y1) /\ Same(y1)
  BY ZenonT(60) DEF Typed, Model
<1>2. Typed(y2) /\ Same(y2)
  BY ZenonT(60) DEF Typed, Model
<1>3. Typed(y3) /\ Same(y3)
  BY DEF Typed, Model, OrNone
<1> HIDE DEF y1, y2, y3
<1>4. \A y : Same(y) => Calm(x, y)
  BY SameCalmOrder DEF Calm, Beside, CalmCeremony, CalmFlights
<1> QED BY <1>1, <1>2, <1>3, <1>4 DEF y1, y2, y3

\* An intent that was signed goes on to the approval, or to the pull prompt.
LEMMA CompletePullKeeps ==
    ASSUME NEW x, Typed(x), Kept(x), NEW f \in SignFlow, f.stage \in {"intent", "approval"},
           f.sig = x.intent.intentId, ForOrder(x, f)
    PROVE  Kept(completePull(x, f))
<1> DEFINE y == completePull(x, f)
           held == [x EXCEPT !.sign = f]
           ask == [NoAsk EXCEPT !.op = "approval", !.id = f.id]
           p == perform(x, ask)
           g == [f EXCEPT !.stage = "approval"]
           z == [p EXCEPT !.sign = g]
<1>1. \/ y = endSignFlow(x, f)
      \/ y = transition(held, "quoted", x.intent)
      \/ y = z
  BY DEF completePull
<1> HIDE DEF y
<1>2. Kept(endSignFlow(x, f))
  BY EndSignFlowCalm, CalmKept
<1>3. Typed(held) /\ Kept(held) /\ held.intent = x.intent
  BY FlowKept
<1> HIDE DEF held
<1>4. Kept(transition(held, "quoted", x.intent))
  <2>1. "quoted" \in IntentStatus
    BY DEF IntentStatus
  <2>2. Calm(held, transition(held, "quoted", held.intent))
    BY <1>3, <2>1, MoveCalm
  <2> QED BY <1>3, <2>2, CalmKept
<1>5. /\ ask \in Ask /\ ask.op = "approval"
      /\ g \in SignFlow /\ g.stage = "approval" /\ g.id = f.id /\ g.sig = f.sig
  BY DEF Ask, NoAsk, OrNone, SignFlow
<1> HIDE DEF ask, g
<1>6. Typed(p) /\ Kept(p) /\ p.intent = x.intent /\ p.asks = x.asks \cup {ask}
  BY <1>5, AskKept
<1> HIDE DEF p
<1>7. Kept(z)
  <2>1. ForOrder(p, g)
    BY <1>5, <1>6 DEF ForOrder
  <2> QED BY <1>5, <1>6, <2>1, FlowKept
<1> HIDE DEF z
<1> QED BY <1>1, <1>2, <1>4, <1>7 DEF y, z, p, ask, g, held

\* The second tap of a step-wise ceremony signs the same order.
LEMMA BeginPullSignKeeps ==
    ASSUME NEW x, Good(x), Kept(x), NEW n
    PROVE  Kept(beginPullSign(x, n))
<1> DEFINE y == beginPullSign(x, n)
           f == [NoSign EXCEPT !.stage = "approval", !.id = nextId(x),
                               !.origin = "pull", !.sig = x.pendingIntentSig]
           w == [x EXCEPT !.awaitingPull = FALSE]
           s == [x EXCEPT !.isSigningPull = TRUE]
<1>1. \/ y = x
      \/ /\ x.pendingIntentSig # None /\ x.sign.stage = "none"
         /\ y = transition(w, "quoted", x.intent) \/ y = completePull(s, f)
  BY DEF beginPullSign
<1>2. nextId(x) \in Nat /\ \A a \in x.asks : a.id # nextId(x)
  BY NextIdFresh DEF Good, idsHeld
<1>3. /\ f \in SignFlow /\ f.stage = "approval" /\ f.id = nextId(x)
      /\ f.sig = x.pendingIntentSig
  BY <1>2, FieldTypes, NoSignType DEF Good, SignFlow, NoSign
<1>4. /\ Typed(w) /\ Calm(x, w) /\ w.intent = x.intent
      /\ Typed(s) /\ Calm(x, s) /\ s.intent = x.intent /\ s.asks = x.asks
  BY FlagsCalm DEF Good
<1> HIDE DEF y, f, w, s
<1>5. Kept(transition(w, "quoted", x.intent))
  <2>1. "quoted" \in IntentStatus
    BY DEF IntentStatus
  <2>2. Calm(w, transition(w, "quoted", w.intent))
    BY <1>4, <2>1, MoveCalm
  <2> QED BY <1>4, <2>2, CalmKept
<1>6. x.pendingIntentSig # None /\ x.sign.stage = "none" => Kept(completePull(s, f))
  <2>1. SUFFICES ASSUME x.pendingIntentSig # None, x.sign.stage = "none"
                 PROVE  Kept(completePull(s, f))
    OBVIOUS
  <2>2. x.intent.status = "signing"
    BY <2>1 DEF Good, CeremonySafe
  <2>3. f.sig = s.intent.intentId
    BY <1>3, <1>4, <2>1, <2>2 DEF Kept, Bound, Collected
  <2>4. ForOrder(s, f)
    BY <1>2, <1>3, <1>4, <2>3 DEF ForOrder
  <2> QED BY <1>3, <1>4, <2>3, <2>4, CalmKept, CompletePullKeeps
<1> QED BY <1>1, <1>5, <1>6 DEF y

\* A prompt that failed leaves nothing to execute.
LEMMA SignFlowFailedKeeps ==
    ASSUME NEW x, Typed(x), NEW failure
    PROVE  Calm(x, signFlowFailed(x, failure))
<1> DEFINE y == signFlowFailed(x, failure)
           quiet == clearTimer(x, "signPrompt")
           next == endSignFlow(quiet, x.sign)
           w == [next EXCEPT !.awaitingPull = FALSE]
<1>1. \/ y = x
      \/ y = transition(next, "failed", x.intent) \/ y = transition(next, "quoted", x.intent)
      \/ y = transition(w, "quoted", x.intent) \/ y = next
  BY DEF signFlowFailed
<1> HIDE DEF y
<1>2. Typed(quiet) /\ Calm(x, quiet) /\ quiet.intent = x.intent
  <2>1. "signPrompt" \in TimerName
    BY DEF TimerName
  <2> QED BY <2>1, ClearTimerCalm, ClearTimerFrame
<1> HIDE DEF quiet
<1>3. Typed(next) /\ Calm(x, next) /\ next.intent = x.intent
  BY <1>2, EndSignFlowCalm, EndSignFlowFrame, CalmTrans
<1> HIDE DEF next
<1>4. Typed(w) /\ Calm(x, w) /\ w.intent = x.intent
  BY <1>3, FlagsCalm, CalmTrans
<1> HIDE DEF w
<1>5. \A to \in {"failed", "quoted"} :
          /\ Calm(x, transition(next, to, x.intent))
          /\ Calm(x, transition(w, to, x.intent))
  <2>1. {"failed", "quoted"} \in SUBSET (IntentStatus \ {"signing"})
    BY DEF IntentStatus
  <2>2. \A to \in {"failed", "quoted"} : /\ Calm(next, transition(next, to, next.intent))
                                         /\ Calm(w, transition(w, to, w.intent))
    BY <1>3, <1>4, <2>1, MoveCalm
  <2> QED BY <1>3, <1>4, <2>2, CalmTrans
<1> QED BY <1>1, <1>3, <1>5, CalmSelf DEF y

\* An approval opens the pull prompt of its own order.
LEMMA OnApprovalKeeps ==
    ASSUME NEW x, Good(x), Kept(x), NEW id, NEW result
    PROVE  Kept(onApproval(x, id, result))
<1> DEFINE y == onApproval(x, id, result)
           f == x.sign
           ask == [NoAsk EXCEPT !.op = "signPull", !.id = f.id, !.intentId = x.intent.quote.intent]
           g == [f EXCEPT !.stage = "pull"]
           p == perform(x, ask)
           t == setTimer(p, "signPrompt", AtOnce)
           z == [t EXCEPT !.sign = g]
<1>1. \/ y = x \/ y = signFlowFailed(x, result) \/ y = transition(x, "quoted", x.intent)
      \/ y = endSignFlow(x, f)
      \/ f.stage = "approval" /\ y = z
  BY DEF onApproval, openPrompt
<1> HIDE DEF y
<1>2. Typed(x) /\ "quoted" \in IntentStatus
  BY DEF Good, IntentStatus
<1>3. /\ Kept(signFlowFailed(x, result)) /\ Kept(transition(x, "quoted", x.intent))
      /\ Kept(endSignFlow(x, f))
  BY <1>2, SignFlowFailedKeeps, MoveCalm, EndSignFlowCalm, CalmKept
<1>4. f.stage = "approval" => Kept(z)
  <2>1. SUFFICES ASSUME f.stage = "approval" PROVE Kept(z)
    OBVIOUS
  <2>2. x.intent.status = "signing"
    BY <2>1 DEF Good, CeremonySafe
  <2>3. /\ x.intent.quote.intent = x.intent.intentId /\ f.sig = x.intent.intentId
        /\ ForOrder(x, f)
    BY <2>1, <2>2 DEF Kept, Bound, OrderQuoted, Collected, ForOrder
  <2>4. /\ ask \in Ask /\ ask.op = "signPull" /\ ask.intentId = x.intent.quote.intent
        /\ g \in SignFlow /\ g.stage = "pull" /\ g.id = f.id /\ g.sig = f.sig
    <3>1. f \in SignFlow /\ x.intent.quote.intent \in OrNone(Intents)
      BY FieldTypes DEF Quote
    <3> HIDE DEF f
    <3> QED BY <3>1 DEF Ask, NoAsk, OrNone, SignFlow
  <2> HIDE DEF ask, g
  <2>5. Typed(p) /\ Kept(p) /\ p.intent = x.intent /\ p.asks = x.asks \cup {ask}
    BY <1>2, <2>3, <2>4, AskKept
  <2> HIDE DEF p
  <2>6. Typed(t) /\ Kept(t) /\ t.intent = p.intent /\ t.asks = p.asks
    <3>1. "signPrompt" \in TimerName /\ AtOnce \in Times
      BY DEF TimerName, AtOnce, Times
    <3> QED BY <2>5, <3>1, SetTimerCalm, SetTimerFrame, CalmKept DEF KeepsCalls
  <2> HIDE DEF t
  <2>7. ForOrder(t, g)
    BY <2>3, <2>4, <2>5, <2>6 DEF ForOrder
  <2> QED BY <2>4, <2>6, <2>7, FlowKept
<1> HIDE DEF z
<1> QED BY <1>1, <1>3, <1>4 DEF y, z, t, p, ask, g

-----------------------------------------------------------------------------
(* Execute. *)

\* What is dispatched is over the intent it names.
LEMMA RunExecuteKeeps ==
    ASSUME NEW x, Typed(x), Kept(x), x.intent.status = "signing",
           NEW f \in SignFlow, f.sig = x.intent.intentId,
           NEW pullSig \in {None, x.intent.intentId}
    PROVE  Kept(runExecute(x, f, pullSig))
<1> DEFINE i == x.intent.intentId
           g == [f EXCEPT !.stage = "execute", !.request = i,
                          !.pullSig = pullSig, !.resends = 0, !.resendAt = Never]
           staged == [x EXCEPT !.sign = g]
           e == transition(staged, "executing", x.intent)
           ask == [NoAsk EXCEPT !.op = "execute", !.id = f.id, !.intentId = x.intent.intentId,
                                !.sig = f.sig, !.pullSig = pullSig]
           y == perform(e, ask)
<1>1. x.intent \in Intent /\ i \in OrNone(Intents) /\ pullSig \in OrNone(Intents) /\ i # None
  <2>1. x.intent \in Intent
    BY DEF Typed, Model
  <2> QED BY <2>1 DEF Intent, OrNone, Kept, Bound, OrderQuoted
<1>2. /\ g \in SignFlow /\ g.stage = "execute" /\ g.request = i /\ g.sig = i /\ g.pullSig = pullSig
  <2>1. Never \in Times
    BY DEF Never, Times
  <2> QED BY <1>1, <2>1 DEF SignFlow
<1>3. ask \in Ask /\ ask.op = "execute" /\ SignedFor(ask)
  BY <1>1 DEF Ask, NoAsk, OrNone, SignFlow, SignedFor
<1> HIDE DEF g, ask, i
<1>4. /\ Typed(staged) /\ KeepsForm(x, staged) /\ KeepsCalls(x, staged)
      /\ staged.sign = g /\ staged.intent = x.intent /\ staged.flights = x.flights
  BY <1>2, SignFrame
<1> HIDE DEF staged
<1>5. /\ Typed(e) /\ KeepsForm(staged, e) /\ e.asks = staged.asks
      /\ e.intent = movedTo(x.intent, "executing") /\ e.sign = g
  <2>1. /\ canTransitionTo(staged.intent.status, "executing") /\ ~leaves(staged, "executing")
        /\ "executing" \in IntentStatus
    BY <1>2, <1>4 DEF canTransitionTo, INTENT_STATUS_TRANSITIONS, leaves, IntentStatus
  <2> QED BY <1>1, <1>4, <2>1, TransitionFrame DEF KeepsCeremony
<1>6. CalmFlights(staged, e)
  <2>1. "executing" \in IntentStatus
    BY DEF IntentStatus
  <2> QED BY <1>1, <1>4, <2>1, TransitionAir
<1>7. e.intent.status = "executing" /\ SameOrder(x.intent, e.intent)
  BY <1>1, <1>5 DEF movedTo, Intent, IntentStatus, SameOrder
<1> HIDE DEF e
<1>8. /\ Typed(y) /\ KeepsForm(e, y) /\ KeepsCeremony(e, y)
      /\ y.intent = e.intent /\ y.flights = e.flights /\ y.allocs = e.allocs
  BY <1>3, <1>5, PerformFrame
<1>9. y.asks = e.asks \cup {ask}
  BY <1>5 DEF perform, Typed, Model
<1> HIDE DEF y
<1>10. Airborne(y)
  BY <1>4, <1>6, <1>8 DEF Kept, KeepsCalls, CalmFlights, Airborne, Apart
<1>11. y.asks = x.asks \cup {ask} /\ y.sign = g /\ y.seenDepositAddresses = x.seenDepositAddresses
  BY <1>4, <1>5, <1>8, <1>9 DEF KeepsForm, KeepsCalls, KeepsCeremony
<1>12. OrderQuoted(y.intent) /\ y.intent.status = "executing"
  BY <1>7, <1>8 DEF Kept, Bound, OrderQuoted, SameOrder
<1>13. Requested(y.sign)
  BY <1>1, <1>2, <1>11 DEF Requested, i
<1>14. Bound(y)
  BY <1>3, <1>11, <1>12, <1>13 DEF Kept, Bound, WalletWatched, Collected
<1>15. runExecute(x, f, pullSig) = y
  BY DEF runExecute, e, ask, staged, g, i, y
<1> QED BY <1>10, <1>11, <1>14, <1>15 DEF Kept, AddressesOnce

\* A prompt that answered is held, or sent, for the order it was opened for.
LEMMA OnSignedKeeps ==
    ASSUME NEW x, Good(x), Kept(x), NEW id, NEW purpose \in {"intent", "pull"}, NEW result,
           NEW signed \in OrNone(Intents),
           x.sign.id = id /\ x.sign.stage = purpose /\ x.intent.status = "signing"
              => signed = x.intent.intentId
    PROVE  Kept(onSigned(x, id, purpose, result, signed))
<1> DEFINE y == onSigned(x, id, purpose, result, signed)
           quiet == clearTimer(x, "signPrompt")
           sf == [x.sign EXCEPT !.sig = signed]
           next == [quiet EXCEPT !.pendingIntentSig = signed]
           tapped == [quiet EXCEPT !.awaitingPull = FALSE]
           waiting == [next EXCEPT !.awaitingPull = TRUE, !.sign = NoSign]
           heard == x.sign.id = id /\ x.sign.stage = purpose /\ x.intent.status = "signing"
<1>1. \/ y = x \/ y = abandonSign(x)
      \/ heard /\ y = signFlowFailed(quiet, result)
      \/ heard /\ purpose = "pull" /\ y = runExecute(tapped, x.sign, signed)
      \/ heard /\ purpose = "intent" /\ y = runExecute(next, sf, None)
      \/ heard /\ purpose = "intent" /\ y = waiting
      \/ heard /\ purpose = "intent" /\ y = completePull(next, sf)
  BY DEF onSigned
<1> HIDE DEF y
<1>2. Typed(x) /\ Kept(abandonSign(x))
  BY AbandonCalm, CalmKept DEF Good
<1>3. /\ Typed(quiet) /\ Kept(quiet) /\ KeepsForm(x, quiet) /\ KeepsCeremony(x, quiet)
      /\ KeepsCalls(x, quiet) /\ quiet.intent = x.intent /\ quiet.flights = x.flights
  <2>1. "signPrompt" \in TimerName
    BY DEF TimerName
  <2> QED BY <1>2, <2>1, ClearTimerCalm, ClearTimerFrame, CalmKept
<1> HIDE DEF quiet
<1>4. Kept(signFlowFailed(quiet, result))
  BY <1>3, SignFlowFailedKeeps, CalmKept
<1>5. heard /\ purpose = "pull" => Kept(runExecute(tapped, x.sign, signed))
  <2>1. Typed(tapped) /\ Kept(tapped) /\ tapped.intent = x.intent
    BY <1>3, FlagsCalm, CalmKept
  <2> HIDE DEF tapped
  <2>2. heard /\ purpose = "pull" => x.sign.sig = x.intent.intentId
    BY DEF Kept, Bound, Collected
  <2> QED BY <1>2, <2>1, <2>2, FieldTypes, RunExecuteKeeps
<1>6. ASSUME heard, purpose = "intent"
      PROVE  Kept(runExecute(next, sf, None)) /\ Kept(waiting) /\ Kept(completePull(next, sf))
  <2>1. signed = x.intent.intentId
    BY <1>6
  <2>2. /\ Typed(next) /\ next.pendingIntentSig = signed /\ next.intent = x.intent
        /\ next.sign = x.sign /\ next.asks = x.asks /\ next.ctx = x.ctx
        /\ next.watched = x.watched /\ next.seenDepositAddresses = x.seenDepositAddresses
        /\ next.flights = x.flights /\ next.allocs = x.allocs
    BY <1>3 DEF Typed, Model, KeepsForm, KeepsCeremony, KeepsCalls
  <2> HIDE DEF next
  <2>3. Kept(next)
    <3>1. Stays(x, next)
      BY <2>2 DEF Stays
    <3>2. Collected(next) /\ Requested(next.sign)
      BY <2>1, <2>2 DEF Kept, Bound, Collected
    <3> QED BY <3>1, <3>2, StaysKept
  <2>4. sf \in SignFlow /\ sf.stage = "intent" /\ sf.sig = x.intent.intentId /\ sf.id = x.sign.id
    BY <1>6, <2>1, FieldTypes DEF SignFlow
  <2> HIDE DEF sf
  <2>5. ForOrder(next, sf)
    BY <1>6, <2>2, <2>4 DEF Kept, Bound, Collected, ForOrder
  <2>6. Kept(waiting)
    <3>1. /\ waiting.sign = NoSign /\ waiting.pendingIntentSig = next.pendingIntentSig
          /\ waiting.intent = next.intent /\ waiting.asks = next.asks /\ waiting.ctx = next.ctx
          /\ waiting.watched = next.watched
          /\ waiting.seenDepositAddresses = next.seenDepositAddresses
          /\ waiting.flights = next.flights /\ waiting.allocs = next.allocs
      BY <2>2, NoSignType, ZenonT(60) DEF Typed, Model
    <3> HIDE DEF waiting
    <3>2. NoSign.stage = "none"
      BY DEF NoSign
    <3>3. Collected(waiting) /\ Requested(waiting.sign)
      BY <2>1, <2>2, <3>1, <3>2 DEF Collected, Requested
    <3>4. Stays(next, waiting)
      BY <3>1 DEF Stays
    <3> QED BY <2>3, <3>3, <3>4, StaysKept
  <2>7. Kept(runExecute(next, sf, None))
    BY <1>6, <2>2, <2>3, <2>4, RunExecuteKeeps
  <2>8. Kept(completePull(next, sf))
    BY <2>2, <2>3, <2>4, <2>5, CompletePullKeeps
  <2> QED BY <2>6, <2>7, <2>8
<1> QED BY <1>1, <1>2, <1>4, <1>5, <1>6 DEF y

\* An execute that is resent no more starts nothing.
LEMMA StopResendingCalm ==
    ASSUME NEW x, Typed(x), NEW f
    PROVE  Calm(x, stopResending(x, f))
<1> DEFINE e == endSignFlow(x, f)
           i == [x.intent EXCEPT !.notSent = TRUE]
<1>1. Typed(e) /\ Calm(x, e) /\ e.intent = x.intent
  BY EndSignFlowCalm, EndSignFlowFrame
<1>2. i \in Intent /\ CalmOrder(x.intent, i)
  <2>1. /\ i \in Intent /\ i.status = x.intent.status /\ i.intentId = x.intent.intentId
        /\ i.quote = x.intent.quote /\ i.quotedAddress = x.intent.quotedAddress
        /\ i.quotedChainId = x.intent.quotedChainId
    BY DEF Typed, Model, Intent
  <2> QED BY <2>1 DEF CalmOrder, SameOrder
<1> HIDE DEF e, i
<1>3. Calm(e, patch(e, i))
  BY <1>1, <1>2, PatchCalm
<1> QED BY <1>1, <1>3, CalmTrans DEF stopResending, e, i

\* An execute the Worker has not accepted waits for its resend, or is given up.
LEMMA OnNotAcceptedKeeps ==
    ASSUME NEW x, Typed(x), Kept(x), x.sign.stage = "execute", NEW r \in Int, NEW n \in Nat
    PROVE  Kept(onNotAccepted(x, x.sign, r, n))
<1> DEFINE quiet == [x EXCEPT !.pendingIntentSig = None]
           delay == decideExecuteResend(x.sign.resends, r, executeDeadline(x.intent.quote), n)
           d == n + delay
           t == setTimer(quiet, "execute", d)
           g == [x.sign EXCEPT !.resendAt = d]
           y == [t EXCEPT !.sign = g]
<1>1. Typed(quiet) /\ Kept(quiet) /\ quiet.intent = x.intent /\ quiet.sign = x.sign
  BY FlagsCalm, CalmKept
<1> HIDE DEF quiet
<1>2. CASE delay = Never
  BY <1>1, <1>2, StopResendingCalm, CalmKept DEF onNotAccepted, quiet
<1>3. CASE delay # Never
  <2>1. d \in Nat
    BY <1>3, ResendDelay
  <2> HIDE DEF delay, d
  <2>2. /\ g \in SignFlow /\ g.stage = "execute" /\ g.request = x.sign.request
        /\ g.sig = x.sign.sig /\ g.pullSig = x.sign.pullSig
    <3>1. x.sign \in SignFlow
      BY DEF Typed, Model
    <3> QED BY <2>1, <3>1 DEF SignFlow, Times
  <2> HIDE DEF g
  <2>3. Typed(t) /\ Kept(t) /\ t.sign = x.sign
    <3>1. "execute" \in TimerName /\ d \in Times
      BY <2>1 DEF TimerName, Times
    <3>2. Typed(t) /\ Calm(quiet, t)
      BY <1>1, <3>1, SetTimerCalm
    <3>3. KeepsCeremony(quiet, t)
      BY <1>1, <3>1, SetTimerFrame
    <3> HIDE DEF t
    <3> QED BY <1>1, <3>2, <3>3, CalmKept DEF KeepsCeremony
  <2> HIDE DEF t
  <2>4. /\ KeepsForm(t, y) /\ KeepsCalls(t, y) /\ y.sign = g
        /\ y.pendingIntentSig = t.pendingIntentSig
        /\ y.intent = t.intent /\ y.flights = t.flights
    BY <2>2, <2>3, SignFrame
  <2> HIDE DEF y
  <2>5. Collected(y) /\ Requested(y.sign)
    BY <2>2, <2>3, <2>4 DEF Kept, Bound, Collected, Requested
  <2>6. Stays(t, y)
    BY <2>4 DEF Stays, KeepsForm, KeepsCalls
  <2>7. onNotAccepted(x, x.sign, r, n) = y
    BY <1>3 DEF onNotAccepted, y, t, g, d, delay, quiet
  <2> QED BY <2>3, <2>5, <2>6, <2>7, StaysKept
<1> QED BY <1>2, <1>3

\* A resend names the request it was signed for.
LEMMA ResendExecuteKeeps ==
    ASSUME NEW x, Typed(x), Kept(x), NEW n
    PROVE  Kept(resendExecute(x, n))
<1> DEFINE y == resendExecute(x, n)
           f == x.sign
           id == nextId(x)
           ask == [NoAsk EXCEPT !.op = "execute", !.id = id, !.intentId = f.request,
                                !.sig = f.sig, !.pullSig = f.pullSig]
           k == f.resends + 1
           g == [f EXCEPT !.id = id, !.resends = k, !.resendAt = Never]
           p == perform(x, ask)
           z == [p EXCEPT !.sign = g]
<1>1. \/ y = x \/ y = stopResending(x, f)
      \/ f.stage = "execute" /\ x.intent.status = "executing" /\ y = z
  BY DEF resendExecute, awaitingResend
<1>2. Kept(stopResending(x, f))
  BY StopResendingCalm, CalmKept
<1>3. id \in Nat /\ f \in SignFlow
  BY NextIdFresh DEF Typed, Model
<1>4. f.stage = "execute" => f.request # None /\ f.sig = f.request /\ f.pullSig \in {None, f.request}
  BY DEF Kept, Bound, Requested
<1> HIDE DEF y, id, f
<1>5. ask \in Ask /\ ask.op = "execute" /\ (f.stage = "execute" => SignedFor(ask))
  BY <1>3, <1>4 DEF Ask, NoAsk, OrNone, SignFlow, SignedFor
<1>6. /\ g \in SignFlow /\ g.stage = f.stage /\ g.request = f.request /\ g.sig = f.sig
      /\ g.pullSig = f.pullSig
  <2>1. k \in Nat /\ Never \in Times
    BY <1>3 DEF SignFlow, Times, Never
  <2> HIDE DEF k
  <2> QED BY <1>3, <2>1 DEF SignFlow
<1> HIDE DEF ask, g
<1>7. /\ Typed(p) /\ KeepsForm(x, p) /\ KeepsCeremony(x, p) /\ p.intent = x.intent
      /\ p.flights = x.flights /\ p.allocs = x.allocs
  BY <1>5, PerformFrame
<1>8. p.asks = x.asks \cup {ask}
  BY DEF perform, Typed, Model
<1> HIDE DEF p
<1>9. /\ KeepsForm(p, z) /\ KeepsCalls(p, z) /\ z.sign = g
      /\ z.intent = p.intent /\ z.flights = p.flights
  BY <1>6, <1>7, SignFrame
<1> HIDE DEF z
<1>10. f.stage = "execute" /\ x.intent.status = "executing" => Kept(z)
  <2>1. SUFFICES ASSUME f.stage = "execute", x.intent.status = "executing" PROVE Kept(z)
    OBVIOUS
  <2>2. /\ z.intent = x.intent /\ z.asks = x.asks \cup {ask} /\ z.flights = x.flights
        /\ z.allocs = x.allocs /\ z.seenDepositAddresses = x.seenDepositAddresses
    BY <1>7, <1>8, <1>9 DEF KeepsForm, KeepsCalls
  <2>3. Airborne(z) /\ AddressesOnce(z)
    BY <2>2 DEF Kept, Airborne, AddressesOnce
  <2>4. Requested(z.sign)
    BY <1>4, <1>6, <1>9 DEF Requested
  <2>5. Bound(z)
    BY <1>5, <2>1, <2>2, <2>4 DEF Kept, Bound, WalletWatched, Collected
  <2> QED BY <2>3, <2>5 DEF Kept
<1> QED BY <1>1, <1>2, <1>10 DEF y

\* The poll resends it too.
LEMMA ResendBackstopKeeps ==
    ASSUME NEW x, Typed(x), Kept(x), NEW n
    PROVE  Kept(resendBackstop(x, n))
<1> DEFINE y == clearTimer(x, "execute")
<1>1. Typed(y) /\ Kept(y)
  <2>1. "execute" \in TimerName
    BY DEF TimerName
  <2> QED BY <2>1, ClearTimerCalm, CalmKept
<1>2. resendBackstop(x, n) = x \/ resendBackstop(x, n) = resendExecute(y, n)
  BY DEF resendBackstop
<1> HIDE DEF y
<1> QED BY <1>1, <1>2, ResendExecuteKeeps

\* An answer to an execute ends the ceremony or leaves its request as it is.
LEMMA OnExecutedKeeps ==
    ASSUME NEW x, Typed(x), Kept(x), NEW id, NEW r, ExecuteReply(r),
           r.kind = "response" => r.status # "signing", NEW n \in Nat
    PROVE  Kept(onExecuted(x, id, r, n))
<1> DEFINE y == onExecuted(x, id, r, n)
           f == x.sign
           bare == [x EXCEPT !.pendingIntentSig = None]
           next == endSignFlow(bare, f)
           doubtful == [x.intent EXCEPT !.reconciling = TRUE]
           unsent == [x.intent EXCEPT !.notSent = TRUE]
           d == decideExecuteResult(r)
           ended == [x.intent EXCEPT !.mayHaveMoved = d.mayHaveMoved]
           inDoubt == d.reconciling \/ r.unmapped
           moved == [x.intent EXCEPT !.reconciling = inDoubt]
           Same(i) == /\ i \in Intent /\ i.status = x.intent.status /\ SameOrder(x.intent, i)
<1>1. \/ y = x
      \/ f.stage = "execute" /\ r.kind = "notAccepted" /\ y = onNotAccepted(x, f, r.retryAfter, n)
      \/ y = patch(next, doubtful)
      \/ y = patch(next, unsent)
      \/ r.kind = "response" /\ y = transition(next, "failed", ended)
      \/ r.kind = "response" /\ y = transition(next, d.status, moved)
  BY DEF onExecuted
<1> HIDE DEF y
<1>2. f.stage = "execute" /\ r.kind = "notAccepted" => Kept(onNotAccepted(x, f, r.retryAfter, n))
  BY OnNotAcceptedKeeps DEF ExecuteReply
<1>3. Typed(bare) /\ Calm(x, bare) /\ bare.intent = x.intent
  BY FlagsCalm
<1> HIDE DEF bare, f
<1>4. Typed(next) /\ Kept(next) /\ next.intent = x.intent
  BY <1>3, EndSignFlowCalm, EndSignFlowFrame, CalmTrans, CalmKept
<1> HIDE DEF next
<1>5. Same(doubtful) /\ Same(unsent)
  BY DEF Typed, Model, Intent, SameOrder
<1> HIDE DEF doubtful, unsent
<1>6. Kept(patch(next, doubtful)) /\ Kept(patch(next, unsent))
  <2>1. CalmOrder(next.intent, doubtful) /\ CalmOrder(next.intent, unsent)
    BY <1>4, <1>5 DEF CalmOrder
  <2> QED BY <1>4, <1>5, <2>1, PatchCalm, CalmKept
<1>7. r.kind = "response" => Kept(transition(next, "failed", ended))
  <2>1. SUFFICES ASSUME r.kind = "response" PROVE Kept(transition(next, "failed", ended))
    OBVIOUS
  <2>2. Same(ended) /\ "failed" \in IntentStatus
    <3>1. d.mayHaveMoved \in BOOLEAN
      BY <2>1, ExecuteResultType
    <3> HIDE DEF d
    <3> QED BY <3>1 DEF Typed, Model, Intent, IntentStatus, SameOrder
  <2> HIDE DEF ended
  <2> QED BY <1>4, <2>2, TransitionCalm, CalmKept
<1>8. r.kind = "response" => Kept(transition(next, d.status, moved))
  <2>1. SUFFICES ASSUME r.kind = "response" PROVE Kept(transition(next, d.status, moved))
    OBVIOUS
  <2>2. d.status \in IntentStatus /\ d.reconciling \in BOOLEAN
    BY <2>1, ExecuteResultType
  <2>3. d.status # "signing"
    <3>1. d.status \in {"failed", "completed", "executing", r.status}
      BY DEF decideExecuteResult
    <3> QED BY <2>1, <3>1
  <2> HIDE DEF d
  <2>4. inDoubt \in BOOLEAN
    BY <2>1, <2>2 DEF ExecuteReply
  <2> HIDE DEF inDoubt
  <2>5. Same(moved)
    BY <2>4 DEF Typed, Model, Intent, SameOrder
  <2> HIDE DEF moved
  <2> QED BY <1>4, <2>2, <2>3, <2>5, TransitionCalm, CalmKept
<1> QED BY <1>1, <1>2, <1>6, <1>7, <1>8 DEF y

-----------------------------------------------------------------------------
(* Status. *)

\* A status update never starts a ceremony nor changes what can be signed.
LEMMA ApplyStatusUpdateCalm ==
    ASSUME NEW x, Typed(x), NEW u, StatusUpdate(u), u.status # "signing"
    PROVE  Typed(applyStatusUpdate(x, u)) /\ Calm(x, applyStatusUpdate(x, u))
<1> DEFINE v == mapStatusUpdate(x.intent, u)
           next == IF u.status = x.intent.status THEN x ELSE transition(x, u.status, v)
           inDoubt == [next.intent EXCEPT !.reconciling = TRUE]
           doubted == IF u.unmapped /\ next.intent.status \in POLL_INFLIGHT_STATES
                      THEN patch(next, inDoubt) ELSE next
           cleared == [doubted.intent EXCEPT !.notSent = FALSE, !.reconciling = TRUE]
<1>1. x.intent \in Intent
  BY DEF Typed, Model
<1>2. v \in Intent /\ SameOrder(x.intent, v)
  <2>1. v \in Intent
    BY <1>1, MapStatusUpdateType
  <2>2. SameOrder(x.intent, v)
    <3> DEFINE w == IF u.status = "failed" /\ x.intent.status \in POLL_INFLIGHT_STATES
                    THEN failureMayHaveMoved(u.marker) ELSE x.intent.mayHaveMoved
    <3>1. v = [x.intent EXCEPT !.reconciling = FALSE, !.mayHaveMoved = w]
      BY <1>1 DEF mapStatusUpdate, Intent
    <3> HIDE DEF w, v
    <3> QED BY <1>1, <3>1 DEF Intent, SameOrder
  <2> QED BY <2>1, <2>2
<1> HIDE DEF v
<1>3. Typed(next) /\ Calm(x, next)
  BY <1>2, TransitionCalm, CalmSelf DEF StatusUpdate
<1> HIDE DEF next
<1>4. inDoubt \in Intent /\ CalmOrder(next.intent, inDoubt)
  <2>1. next.intent \in Intent
    BY <1>3 DEF Typed, Model
  <2> QED BY <2>1 DEF Intent, CalmOrder, SameOrder
<1> HIDE DEF inDoubt
<1>5. Typed(doubted) /\ Calm(x, doubted)
  BY <1>3, <1>4, PatchCalm, CalmTrans
<1> HIDE DEF doubted
<1>6. cleared \in Intent /\ CalmOrder(doubted.intent, cleared)
  <2>1. doubted.intent \in Intent
    BY <1>5 DEF Typed, Model
  <2> QED BY <2>1 DEF Intent, CalmOrder, SameOrder
<1> HIDE DEF cleared
<1>7. Typed(patch(doubted, cleared)) /\ Calm(x, patch(doubted, cleared))
  BY <1>5, <1>6, PatchCalm, CalmTrans
<1>8. applyStatusUpdate(x, u) = doubted \/ applyStatusUpdate(x, u) = patch(doubted, cleared)
  BY DEF applyStatusUpdate, doubted, cleared, inDoubt, next, v
<1> QED BY <1>5, <1>7, <1>8

\* The poll is no part of it.
LEMMA PollCalm ==
    ASSUME NEW x, Typed(x), NEW p \in PollState
    PROVE  LET y == [x EXCEPT !.poll = p]
           IN  Typed(y) /\ Calm(x, y) /\ y.intent = x.intent /\ y.poll = p
<1> DEFINE y == [x EXCEPT !.poll = p]
<1>1. /\ Typed(y) /\ y.ctx = x.ctx /\ y.watched = x.watched /\ y.intent = x.intent
      /\ y.sign = x.sign /\ y.pendingIntentSig = x.pendingIntentSig /\ y.asks = x.asks
      /\ y.seenDepositAddresses = x.seenDepositAddresses
      /\ y.flights = x.flights /\ y.allocs = x.allocs /\ y.poll = p
  BY DEF Typed, Model
<1> HIDE DEF y
<1>2. Calm(x, y)
  BY <1>1, SameCalmOrder DEF Calm, Beside, CalmCeremony, CalmFlights
<1> QED BY <1>1, <1>2 DEF y

\* A tick of the poll only reads.
LEMMA PollTickCalm ==
    ASSUME NEW x, Typed(x), NEW elapsed
    PROVE  Typed(pollTick(x, elapsed)) /\ Calm(x, pollTick(x, elapsed))
<1> DEFINE p == x.poll
           k == p.polls + 1
           ask == [NoAsk EXCEPT !.op = "status", !.id = p.gen, !.intentId = p.intentId,
                                !.attempt = k]
           s == IF elapsed THEN p.spent + 1 ELSE p.spent
           q == [p EXCEPT !.polls = k, !.spent = s]
           z == perform(x, ask)
           y == [z EXCEPT !.poll = q]
<1>1. p \in PollState
  BY DEF Typed, Model
<1>2. pollTick(x, elapsed) = x \/ pollTick(x, elapsed) = y
  BY <1>1 DEF pollTick, PollState
<1> HIDE DEF p
<1>3. k \in Nat /\ s \in Nat
  BY <1>1 DEF PollState
<1> HIDE DEF k, s
<1>4. ask \in Ask /\ ask.op = "status" /\ q \in PollState
  BY <1>1, <1>3 DEF Ask, NoAsk, OrNone, PollState
<1> HIDE DEF ask, q
<1>5. Typed(z) /\ Calm(x, z)
  BY <1>4, PerformCalm
<1> HIDE DEF z
<1>6. Typed(y) /\ Calm(x, y)
  BY <1>4, <1>5, PollCalm, CalmTrans
<1> HIDE DEF y
<1> QED BY <1>2, <1>6, CalmSelf

\* A poll that gives up only says so.
LEMMA ExhaustPollCalm ==
    ASSUME NEW x, Typed(x)
    PROVE  Calm(x, exhaustPoll(x))
<1> DEFINE c == clearTimer(x, "poll")
           p == [x.poll EXCEPT !.stopped = TRUE]
           b == x.intent.pollExhausted \/ x.intent.intentId = x.poll.intentId
           i == [x.intent EXCEPT !.pollExhausted = b]
           z == [c EXCEPT !.poll = p]
<1>1. Typed(c) /\ Calm(x, c) /\ c.intent = x.intent /\ c.poll = x.poll
  <2>1. "poll" \in TimerName
    BY DEF TimerName
  <2> QED BY <2>1, ClearTimerCalm, ClearTimerFrame DEF KeepsForm
<1>2. x.intent \in Intent /\ x.poll \in PollState
  BY DEF Typed, Model
<1>3. p \in PollState
  BY <1>2 DEF PollState
<1>4. i \in Intent /\ CalmOrder(x.intent, i)
  <2>1. b \in BOOLEAN
    BY <1>2 DEF Intent
  <2> HIDE DEF b
  <2> QED BY <1>2, <2>1 DEF Intent, CalmOrder, SameOrder
<1>5. exhaustPoll(x) = patch(z, i)
  <2> HIDE DEF b
  <2>1. exhaustPoll(x) = [c EXCEPT !.poll = p, !.intent = i]
    <3> HIDE DEF c
    <3>1. c \in Model
      BY <1>1 DEF Typed
    <3>2. exhaustPoll(x) = [c EXCEPT !.poll.stopped = TRUE,
                                     !.intent.pollExhausted = @ \/ x.intent.intentId = x.poll.intentId]
      BY DEF exhaustPoll, c
    <3> QED BY <1>1, <3>1, <3>2 DEF Model, b
  <2> HIDE DEF c, p, i
  <2> QED BY <2>1 DEF patch
<1> HIDE DEF c, p, i
<1>6. Typed(z) /\ Calm(x, z) /\ z.intent = x.intent
  BY <1>1, <1>3, PollCalm, CalmTrans
<1> HIDE DEF z
<1>7. Calm(z, patch(z, i))
  BY <1>4, <1>6, PatchCalm
<1> QED BY <1>5, <1>6, <1>7, CalmTrans

\* The answer to a read is a status update, or counts as missing.
LEMMA OnStatusCalm ==
    ASSUME NEW x, Typed(x), NEW gen, NEW attempt \in Nat, NEW r,
           r.kind = "data" => StatusUpdate(r) /\ r.status # "signing", NEW n
    PROVE  Calm(x, onStatus(x, gen, attempt, r, n))
<1> DEFINE y == onStatus(x, gen, attempt, r, n)
           ok == r.kind # "threw"
           a == IF ok THEN Max({x.poll.answered, attempt}) ELSE x.poll.answered
           answer == [x.poll EXCEPT !.answered = a]
           notSent == [x.intent EXCEPT !.notSent = TRUE]
           unsent == IF readsNotSent(x, attempt, r) THEN patch(x, notSent) ELSE x
           inDoubt == [unsent.intent EXCEPT !.reconciling = TRUE]
           read == IF escalatesToReconcile(unsent, attempt) THEN patch(unsent, inDoubt)
                   ELSE unsent
           swept == r.kind = "notFound" /\ sweptPastFinish(read, n)
           ended == [read.intent EXCEPT !.reconciling = FALSE, !.mayHaveMoved = FALSE]
           next == IF swept THEN transition(read, "failed", ended)
                   ELSE IF r.kind = "data" THEN applyStatusUpdate(read, r)
                   ELSE read
           stopped == [answer EXCEPT !.stopped = TRUE]
           restarted == [answer EXCEPT !.spent = 0]
           quiet == clearTimer(next, "poll")
<1>1. Typed(unsent) /\ Calm(x, unsent)
  <2>1. notSent \in Intent /\ CalmOrder(x.intent, notSent)
    BY DEF Typed, Model, Intent, CalmOrder, SameOrder
  <2> HIDE DEF notSent
  <2> QED BY <2>1, PatchCalm, CalmSelf
<1> HIDE DEF unsent
<1>2. Typed(read) /\ Calm(x, read)
  <2>1. inDoubt \in Intent /\ CalmOrder(unsent.intent, inDoubt)
    BY <1>1 DEF Typed, Model, Intent, CalmOrder, SameOrder
  <2> HIDE DEF inDoubt
  <2> QED BY <1>1, <2>1, PatchCalm, CalmTrans
<1> HIDE DEF read
<1>3. Typed(next) /\ Calm(x, next)
  <2>1. ended \in Intent /\ SameOrder(read.intent, ended)
    BY <1>2 DEF Typed, Model, Intent, SameOrder
  <2>2. "failed" \in IntentStatus
    BY DEF IntentStatus
  <2> HIDE DEF ended, swept
  <2>3. Typed(transition(read, "failed", ended)) /\ Calm(x, transition(read, "failed", ended))
    BY <1>2, <2>1, <2>2, TransitionCalm, CalmTrans
  <2>4. r.kind = "data" => Typed(applyStatusUpdate(read, r)) /\ Calm(x, applyStatusUpdate(read, r))
    BY <1>2, ApplyStatusUpdateCalm, CalmTrans
  <2> QED BY <1>2, <2>3, <2>4
<1> HIDE DEF next
<1>4. answer \in PollState
  <2>1. x.poll \in PollState
    BY DEF Typed, Model
  <2>2. x.poll.answered \in Nat
    BY <2>1 DEF PollState
  <2>3. a \in Nat
    <3> DEFINE p == x.poll.answered
    <3>1. p \in Int /\ attempt \in Int
      BY <2>2
    <3> HIDE DEF p
    <3>2. Max({p, attempt}) \in {p, attempt}
      BY <3>1, MaxOfTwo
    <3> QED BY <2>2, <3>2 DEF p
  <2> HIDE DEF a
  <2> QED BY <2>1, <2>3 DEF PollState
<1> HIDE DEF answer
<1>5. stopped \in PollState /\ restarted \in PollState
  BY <1>4 DEF PollState
<1> HIDE DEF stopped, restarted
<1>6. Typed(quiet) /\ Calm(x, quiet)
  <2>1. "poll" \in TimerName
    BY DEF TimerName
  <2> QED BY <1>3, <2>1, ClearTimerCalm, CalmTrans
<1> HIDE DEF quiet
<1> DEFINE held == [next EXCEPT !.poll = answer]
<1>7. /\ Calm(x, [quiet EXCEPT !.poll = stopped]) /\ Calm(x, [next EXCEPT !.poll = restarted])
      /\ Typed(held) /\ Calm(x, held)
  BY <1>3, <1>4, <1>5, <1>6, PollCalm, CalmTrans
<1> HIDE DEF held
<1>8. Calm(x, exhaustPoll(held))
  BY <1>7, ExhaustPollCalm, CalmTrans
<1>9. \/ y = x
      \/ y = [quiet EXCEPT !.poll = stopped]
      \/ y = [next EXCEPT !.poll = restarted]
      \/ y = held
      \/ y = exhaustPoll(held)
  BY DEF onStatus, quiet, stopped, restarted, answer, next, read, unsent, held
<1> QED BY <1>7, <1>8, <1>9, CalmSelf

-----------------------------------------------------------------------------
(* The reactive rules. *)

\* A page with no order yet has nothing to sign.
LEMMA InitialQuoted ==
    OrderQuoted(INITIAL_INTENT_STATE) /\ INITIAL_INTENT_STATE.status = "idle"
BY DEF OrderQuoted, INITIAL_INTENT_STATE, NoQuote

\* A step to a status without a ceremony keeps the invariant.
LEMMA RestKept ==
    ASSUME NEW x, Kept(x), NEW y, y.intent.status # "signing", OrderQuoted(y.intent),
           CalmCeremony(x, y), CalmFlights(x, y),
           y.seenDepositAddresses = x.seenDepositAddresses
    PROVE  Kept(y)
<1>1. Airborne(y)
  BY DEF Kept, CalmFlights, Airborne, Apart
<1> QED BY <1>1, BoundRest DEF Kept, AddressesOnce

\* Once the watcher has run, a ceremony is held by the wallet of its quote.
LEMMA WatchWalletKeeps ==
    ASSUME NEW x, Good(x), Kept(x)
    PROVE  Kept(watchWallet(x)) /\ WalletHolds(watchWallet(x))
<1> DEFINE y == watchWallet(x)
           key == [address |-> x.ctx.address, chainId |-> x.ctx.chainId,
                   quotedAddress |-> x.intent.quotedAddress,
                   quotedChainId |-> x.intent.quotedChainId]
           w == [x.watched EXCEPT !.wallet = key]
           next == [x EXCEPT !.watched = w]
           quiet == clearTimers(next, {"debounce", "refresh", "signPrompt"})
           z == [quiet EXCEPT !.intent = INITIAL_INTENT_STATE, !.refresh = NoRefresh,
                              !.awaitingPull = FALSE, !.isSigningPull = FALSE,
                              !.pendingIntentSig = None, !.sign = NoSign]
           unmoved == \/ x.intent.quotedAddress = None
                      \/ /\ x.ctx.address = x.intent.quotedAddress
                         /\ x.intent.quotedChainId = None \/ x.ctx.chainId = x.intent.quotedChainId
                      \/ x.intent.status \notin WALLET_INTERRUPTIBLE_STATES
                      \/ x.intent.mayHaveMoved
<1>1. x \in Model /\ x.watched \in Watched
  BY DEF Good, Typed, Model, Watched
<1>2. /\ w \in Watched /\ w.wallet = key
  <2>1. /\ x.ctx.address \in OrNone(Wallets) /\ x.ctx.chainId \in OrNone(Chains)
        /\ x.intent.quotedAddress \in OrNone(Wallets)
        /\ x.intent.quotedChainId \in OrNone(Chains)
    BY FieldTypes DEF Context, Intent
  <2>2. key \in [address : OrNone(Wallets), chainId : OrNone(Chains),
                 quotedAddress : OrNone(Wallets), quotedChainId : OrNone(Chains)]
    BY <2>1
  <2>3. key \in OrNone([address : OrNone(Wallets), chainId : OrNone(Chains),
                        quotedAddress : OrNone(Wallets), quotedChainId : OrNone(Chains)])
    <3> HIDE DEF key
    <3>1. QED BY <2>2 DEF OrNone
  <2> HIDE DEF key
  <2> QED BY <1>1, <2>3 DEF Watched
<1>3. [x EXCEPT !.watched.wallet = key] = next
  BY <1>1 DEF Model
<1>4. \/ x.watched.wallet = key /\ y = x
      \/ unmoved /\ y = next
      \/ y = z
  BY <1>3 DEF watchWallet
<1>5. key = walletKey(x)
  BY DEF walletKey
<1> HIDE DEF y, key, w
<1>6. /\ next \in Model /\ next.ctx = x.ctx /\ next.watched = w /\ next.intent = x.intent
      /\ next.sign = x.sign /\ next.pendingIntentSig = x.pendingIntentSig
      /\ next.asks = x.asks /\ next.seenDepositAddresses = x.seenDepositAddresses
      /\ next.flights = x.flights /\ next.allocs = x.allocs
  BY <1>1, <1>2 DEF Model, Watched
<1>7. Typed(next)
  BY <1>6 DEF Good, Typed
<1> HIDE DEF next
<1>8. walletKey(next) = walletKey(x) /\ next.watched.wallet = walletKey(x)
  BY <1>2, <1>5, <1>6 DEF walletKey
<1>9. x.intent.status = "signing" =>
          x.intent.quotedAddress # None /\ ~x.intent.mayHaveMoved
          /\ x.intent.status \in WALLET_INTERRUPTIBLE_STATES
  BY DEF Kept, Bound, OrderQuoted, Good, VerdictsSafe, WALLET_INTERRUPTIBLE_STATES
<1>10. x.intent.status = "signing" /\ unmoved => Fits(walletKey(x))
  BY <1>9 DEF Fits, walletKey
<1>11. unmoved => Kept(next) /\ WalletHolds(next)
  <2>1. Collected(next) /\ Requested(next.sign)
    BY <1>6 DEF Kept, Bound, Collected
  <2>2. unmoved => WalletHolds(next) /\ WalletWatched(next)
    BY <1>6, <1>8, <1>10 DEF WalletHolds, WalletWatched
  <2>3. Airborne(next) /\ AddressesOnce(next) /\ OrderQuoted(next.intent)
    BY <1>6 DEF Kept, Bound, Airborne, AddressesOnce
  <2>4. \A a \in next.asks : a.op = "execute" => SignedFor(a)
    BY <1>6 DEF Kept, Bound
  <2> QED BY <2>1, <2>2, <2>3, <2>4 DEF Kept, Bound
<1>12. x.watched.wallet = key => WalletHolds(x)
  BY <1>5 DEF Kept, Bound, WalletWatched, WalletHolds
<1>13. Kept(z) /\ WalletHolds(z)
  <2>1. Typed(quiet) /\ KeepsForm(next, quiet) /\ KeepsCalls(next, quiet)
        /\ quiet.flights = next.flights
    BY <1>7, ClearTimersFrame
  <2> HIDE DEF quiet
  <2>2. /\ z.intent = INITIAL_INTENT_STATE /\ z.sign = NoSign /\ z.pendingIntentSig = None
        /\ z.asks = quiet.asks /\ z.flights = quiet.flights /\ z.allocs = quiet.allocs
        /\ z.seenDepositAddresses = quiet.seenDepositAddresses
    BY <2>1, ZenonT(60) DEF Typed, Model
  <2> HIDE DEF z
  <2>3. NoSign.stage = "none"
    BY DEF NoSign
  <2>4. CalmCeremony(x, z) /\ CalmFlights(x, z)
    BY <1>6, <2>1, <2>2, <2>3 DEF KeepsCalls, CalmCeremony, CalmFlights
  <2>5. z.seenDepositAddresses = x.seenDepositAddresses
    BY <1>6, <2>1, <2>2 DEF KeepsForm
  <2>6. z.intent.status # "signing" /\ OrderQuoted(z.intent)
    BY <2>2, InitialQuoted
  <2> QED BY <2>4, <2>5, <2>6, RestKept DEF WalletHolds
<1> QED BY <1>4, <1>11, <1>12, <1>13 DEF y

\* What has been seen by the other rules is beside any order.
LEMMA WatchedCalm ==
    ASSUME NEW x, Typed(x), NEW w \in Watched, w.wallet = x.watched.wallet
    PROVE  LET y == [x EXCEPT !.watched = w]
           IN  Typed(y) /\ Calm(x, y) /\ y.intent = x.intent /\ y.ctx = x.ctx
               /\ y.flights = x.flights /\ y.allocs = x.allocs
<1> DEFINE y == [x EXCEPT !.watched = w]
<1>1. /\ Typed(y) /\ y.ctx = x.ctx /\ y.watched = w /\ y.intent = x.intent
      /\ y.sign = x.sign /\ y.pendingIntentSig = x.pendingIntentSig /\ y.asks = x.asks
      /\ y.seenDepositAddresses = x.seenDepositAddresses
      /\ y.flights = x.flights /\ y.allocs = x.allocs
  BY DEF Typed, Model, Watched
<1> HIDE DEF y
<1>2. Calm(x, y)
  BY <1>1, SameCalmOrder DEF Calm, Beside, CalmCeremony, CalmFlights
<1> QED BY <1>1, <1>2 DEF y

\* The upgrade of a preview is a silent quote, without an allocation.
LEMMA UpgradePreviewKeeps ==
    ASSUME NEW x, Typed(x), Airborne(x)
    PROVE  Quiet(x, upgradePreview(x)) /\ Airborne(upgradePreview(x))
<1> DEFINE y == upgradePreview(x)
           key == [trade |-> tradeKey(x.ctx), amount |-> x.amount,
                   preview |-> x.intent.quote.preview, status |-> x.intent.status]
           w == [x.watched EXCEPT !.upgrade = key]
           next == [x EXCEPT !.watched = w]
           opts == [quoteOpts(x.amount) EXCEPT !.silent = TRUE]
<1>1. x \in Model /\ x.watched \in Watched
  BY DEF Typed, Model, Watched
<1>2. w \in Watched /\ w.wallet = x.watched.wallet
  <2>1. x.ctx \in Context /\ x.intent \in Intent /\ x.amount \in AmountField
    BY <1>1 DEF Model
  <2>2. /\ tradeKey(x.ctx) \in TradeKey /\ x.intent.quote.preview \in BOOLEAN
        /\ x.intent.status \in IntentStatus
    BY <2>1, TradeKeyType DEF Intent, Quote
  <2>3. key \in [trade : TradeKey, amount : AmountField, preview : BOOLEAN,
                 status : IntentStatus]
    BY <2>1, <2>2
  <2>4. key \in OrNone([trade : TradeKey, amount : AmountField, preview : BOOLEAN,
                        status : IntentStatus])
    <3> HIDE DEF key
    <3>1. QED BY <2>3 DEF OrNone
  <2> HIDE DEF key
  <2> QED BY <1>1, <2>4 DEF Watched
<1>3. [x EXCEPT !.watched.upgrade = key] = next
  BY <1>1 DEF Model
<1>4. y = x \/ y = next \/ y = startQuote(next, opts)
  BY <1>3 DEF upgradePreview
<1> HIDE DEF y, key, w
<1>5. /\ Typed(next) /\ Calm(x, next) /\ next.flights = x.flights /\ next.allocs = x.allocs
  BY <1>2, WatchedCalm
<1> HIDE DEF next
<1>6. opts \in QuoteOpts /\ opts.ref = 0
  BY <1>1 DEF Model, QuoteOpts, quoteOpts
<1> HIDE DEF opts
<1>7. Waiting(next, opts.ref)
  BY <1>5, <1>6 DEF Airborne, Waiting
<1>8. Quiet(next, startQuote(next, opts)) /\ Airborne(startQuote(next, opts))
  BY <1>5, <1>6, <1>7, StartQuoteKeeps
<1> QED BY <1>4, <1>5, <1>8, CalmSelf, CalmQuiet, CalmAirborne, QuietTrans DEF y

\* The countdown is no part of it,
LEMMA ArmExpiryCalm ==
    ASSUME NEW x, Typed(x), NEW n
    PROVE  Calm(x, armExpiry(x, n))
<1> DEFINE y == armExpiry(x, n)
           q == x.intent.quote
           key == IF x.intent.status = "quoted" /\ q.held /\ q.address = None
                  THEN q.expiry ELSE Never
           w == [x.watched EXCEPT !.expiry = key]
           due == IF key = Never THEN Never ELSE AtOnce
           seen == [x EXCEPT !.watched = w]
           next == setTimer(seen, "expiry", due)
<1>1. x \in Model /\ x.watched \in Watched
  BY DEF Typed, Model, Watched
<1>2. key \in Times /\ due \in Times
  <2>1. q.expiry \in Times
    BY <1>1 DEF Model, Intent, Quote
  <2> QED BY <2>1 DEF Times, Never, AtOnce
<1>3. [x EXCEPT !.watched.expiry = key, !.timers["expiry"] = due] = next
  BY <1>1 DEF Model, setTimer
<1>4. y = x \/ y = next \/ y = tickExpiry(next, n)
  BY <1>3 DEF armExpiry
<1> HIDE DEF y, key, due
<1>5. w \in Watched /\ w.wallet = x.watched.wallet
  BY <1>1, <1>2 DEF Watched
<1> HIDE DEF w
<1>6. Typed(seen) /\ Calm(x, seen)
  BY <1>5, WatchedCalm
<1> HIDE DEF seen
<1>7. Typed(next) /\ Calm(x, next)
  <2>1. "expiry" \in TimerName
    BY DEF TimerName
  <2> QED BY <1>2, <1>6, <2>1, SetTimerCalm, CalmTrans
<1> HIDE DEF next
<1>8. Calm(x, tickExpiry(next, n))
  BY <1>7, TickExpiryKeeps, CalmTrans
<1> QED BY <1>4, <1>7, <1>8, CalmSelf DEF y

\* and neither is the poll that is armed.
LEMMA ArmPollCalm ==
    ASSUME NEW x, Typed(x), NEW n \in Nat
    PROVE  Calm(x, armPoll(x, n))
<1> DEFINE y == armPoll(x, n)
           i == x.intent
           k == pollCeilingAttempts(i.status, i.depositDeadline, n, unexecutedFinishAt(i.quote))
           poll == [NoPoll EXCEPT !.live = TRUE, !.intentId = i.intentId, !.phase = i.status,
                                  !.resend = awaitingResend(x), !.gen = nextId(x), !.max = k]
           quiet == clearTimer(x, "poll")
           due == n + STATUS_POLL
           timed == setTimer(x, "poll", due)
           next == [timed EXCEPT !.poll = poll]
<1>1. y = x \/ y = [quiet EXCEPT !.poll = NoPoll] \/ y = next \/ y = pollTick(next, FALSE)
  BY DEF armPoll
<1> HIDE DEF y
<1>2. poll \in PollState
  <2>1. i \in Intent
    BY DEF Typed, Model
  <2>2. k \in Int
    <3>1. i.depositDeadline \in Int /\ unexecutedFinishAt(i.quote) \in Int
      BY <2>1, UnexecutedFinishType DEF Intent, Times
    <3> QED BY <3>1, PollCeilingType
  <2>3. nextId(x) \in Nat
    BY NextIdFresh
  <2>4. i.intentId \in OrNone(Intents) /\ i.status \in IntentStatus
    BY <2>1 DEF Intent
  <2>5. awaitingResend(x) \in BOOLEAN
    BY DEF awaitingResend
  <2> HIDE DEF k, i
  <2> QED BY <2>2, <2>3, <2>4, <2>5 DEF PollState, NoPoll, Times
<1> HIDE DEF poll
<1>3. "poll" \in TimerName /\ due \in Times
  BY DecisionConstants DEF TimerName, Times
<1> HIDE DEF due
<1>4. Typed(quiet) /\ Calm(x, quiet) /\ Typed(timed) /\ Calm(x, timed)
  BY <1>3, ClearTimerCalm, SetTimerCalm
<1> HIDE DEF quiet, timed
<1>5. Calm(x, [quiet EXCEPT !.poll = NoPoll]) /\ Typed(next) /\ Calm(x, next)
  BY <1>2, <1>4, NoPollType, PollCalm, CalmTrans
<1> HIDE DEF next
<1>6. Calm(x, pollTick(next, FALSE))
  BY <1>5, PollTickCalm, CalmTrans
<1> QED BY <1>1, <1>5, <1>6, CalmSelf DEF y

\* Nothing but a new wallet or a new order can undo what the watcher saw.
LEMMA BesideHolds ==
    ASSUME NEW x, WalletHolds(x), NEW y, Beside(x, y)
    PROVE  WalletHolds(y)
BY DEF WalletHolds, Beside, CalmOrder, SameOrder, walletKey

\* The reactive rules keep the invariant, and the watcher has seen the wallet.
LEMMA SettleKeeps ==
    ASSUME NEW x, Good(x), Kept(x), NEW n \in Nat
    PROVE  Kept(settle(x, n)) /\ WalletHolds(settle(x, n))
<1>1. ASSUME NEW z, Good(z), Kept(z)
      PROVE  Good(settlePass(z, n)) /\ Kept(settlePass(z, n)) /\ WalletHolds(settlePass(z, n))
  <2> DEFINE a == watchWallet(z)
             b == upgradePreview(a)
             c == armExpiry(b, n)
             d == armPoll(c, n)
  <2>1. Good(a) /\ Kept(a) /\ WalletHolds(a)
    BY <1>1, WatchWalletGood, WatchWalletKeeps
  <2> HIDE DEF a
  <2>2. Good(b) /\ Quiet(a, b) /\ Airborne(b)
    BY <2>1, UpgradePreviewGood, UpgradePreviewKeeps DEF Good, Kept
  <2> HIDE DEF b
  <2>3. Kept(b) /\ WalletHolds(b)
    BY <2>1, <2>2, QuietKept, BesideHolds DEF Quiet
  <2>4. Good(c) /\ Calm(b, c)
    BY <2>2, ArmExpiryGood, ArmExpiryCalm DEF Good
  <2> HIDE DEF c
  <2>5. Good(d) /\ Calm(c, d)
    BY <2>4, ArmPollGood, ArmPollCalm DEF Good
  <2> HIDE DEF d
  <2>6. Kept(d) /\ WalletHolds(d)
    BY <2>3, <2>4, <2>5, CalmTrans, CalmKept, BesideHolds DEF Calm
  <2> QED BY <2>5, <2>6 DEF settlePass, d, c, b, a
<1> DEFINE p1 == settlePass(x, n)
           p2 == settlePass(p1, n)
           p3 == settlePass(p2, n)
<1>2. Good(p1) /\ Kept(p1) /\ WalletHolds(p1)
  BY <1>1
<1> HIDE DEF p1
<1>3. Good(p2) /\ Kept(p2)
  BY <1>1, <1>2
<1> HIDE DEF p2
<1>4. Good(p3) /\ Kept(p3)
  BY <1>1, <1>3
<1> HIDE DEF p3
<1>5. Kept(settlePass(p3, n)) /\ WalletHolds(settlePass(p3, n))
  BY <1>1, <1>4
<1> QED BY <1>2, <1>5 DEF settle, p3, p2, p1

-----------------------------------------------------------------------------
(* Messages from the host. *)

\* What an edit of the form leaves alone is all that the invariant is about.
SameTrade(x, y) ==
    /\ y.ctx = x.ctx /\ y.watched = x.watched /\ y.intent = x.intent
    /\ y.sign = x.sign /\ y.pendingIntentSig = x.pendingIntentSig /\ y.asks = x.asks
    /\ y.seenDepositAddresses = x.seenDepositAddresses
    /\ y.flights = x.flights /\ y.allocs = x.allocs

\* So a model that differs in nothing else is beside the first.
LEMMA SameTradeCalm ==
    ASSUME NEW x, NEW y, SameTrade(x, y)
    PROVE  Calm(x, y)
BY SameCalmOrder DEF SameTrade, Calm, Beside, CalmCeremony, CalmFlights

\* The form's own fields, the visibility of the tab and the last event.
LEMMA FormCalm ==
    ASSUME NEW x, Typed(x)
    PROVE  /\ \A p \in Plan : LET y == [x EXCEPT !.refresh = p]
                              IN  Typed(y) /\ Calm(x, y) /\ y.intent = x.intent
           /\ \A a \in AmountField, p \in Plan :
                  LET y == [x EXCEPT !.amount = a, !.refresh = p]
                  IN  Typed(y) /\ Calm(x, y) /\ y.intent = x.intent
           /\ \A b \in BOOLEAN : LET y == [x EXCEPT !.hidden = b]
                                 IN  Typed(y) /\ Calm(x, y) /\ y.intent = x.intent
           /\ \A e \in {"none", "allocated", "refused"} :
                  LET y == [x EXCEPT !.event = e]
                  IN  Typed(y) /\ Calm(x, y) /\ y.intent = x.intent
<1>1. ASSUME NEW p \in Plan
      PROVE  LET y == [x EXCEPT !.refresh = p] IN Typed(y) /\ SameTrade(x, y)
  BY DEF Typed, Model, Plan, SameTrade
<1>2. ASSUME NEW a \in AmountField, NEW p \in Plan
      PROVE  LET y == [x EXCEPT !.amount = a, !.refresh = p] IN Typed(y) /\ SameTrade(x, y)
  BY DEF Typed, Model, Plan, SameTrade
<1>3. ASSUME NEW b \in BOOLEAN
      PROVE  LET y == [x EXCEPT !.hidden = b] IN Typed(y) /\ SameTrade(x, y)
  BY DEF Typed, Model, SameTrade
<1>4. ASSUME NEW e \in {"none", "allocated", "refused"}
      PROVE  LET y == [x EXCEPT !.event = e] IN Typed(y) /\ SameTrade(x, y)
  BY DEF Typed, Model, SameTrade
<1>5. \A y : SameTrade(x, y) => Calm(x, y) /\ y.intent = x.intent
  BY SameTradeCalm DEF SameTrade
<1> QED BY <1>1, <1>2, <1>3, <1>4, <1>5, Zenon

\* A new context drops the quotes of the old one, and the watcher has yet to
\* see the new wallet.
LEMMA ContextChangedKeeps ==
    ASSUME NEW x, Typed(x), Kept(x), WalletHolds(x), NEW c \in Context
    PROVE  Kept(contextChanged(x, c))
<1> DEFINE y == contextChanged(x, c)
           next == [x EXCEPT !.ctx = c]
           timed == setTimer(next, "debounce", AtOnce)
<1>1. y = next \/ y = supersedeFlights(timed) \/ y = supersedeFlights(next)
  BY DEF contextChanged
<1>2. /\ Typed(next) /\ KeepsCeremony(x, next) /\ KeepsCalls(x, next) /\ next.ctx = c
      /\ next.intent = x.intent /\ next.flights = x.flights /\ next.watched = x.watched
      /\ next.seenDepositAddresses = x.seenDepositAddresses
  BY DEF Typed, Model, KeepsCeremony, KeepsCalls
<1> HIDE DEF y, next
<1>3. Kept(next)
  <2>1. Airborne(next) /\ AddressesOnce(next)
    BY <1>2 DEF Kept, KeepsCalls, Airborne, AddressesOnce
  <2>2. WalletWatched(next)
    BY <1>2 DEF WalletWatched, WalletHolds
  <2>3. Bound(next)
    BY <1>2, <2>2 DEF Kept, Bound, Collected, KeepsCeremony, KeepsCalls
  <2> QED BY <2>1, <2>3 DEF Kept
<1>4. Typed(timed) /\ Kept(timed)
  <2>1. "debounce" \in TimerName /\ AtOnce \in Times
    BY DEF TimerName, AtOnce, Times
  <2> QED BY <1>2, <1>3, <2>1, SetTimerCalm, CalmKept
<1> HIDE DEF timed
<1> QED BY <1>1, <1>2, <1>3, <1>4, SupersedeCalm, CalmKept DEF y

\* An edited amount drops the quotes asked for the old one.
LEMMA QuoteRequestedKeeps ==
    ASSUME NEW x, Typed(x), Kept(x), NEW amount \in AmountField
    PROVE  Kept(quoteRequested(x, amount))
<1> DEFINE y == quoteRequested(x, amount)
           c == clearTimer(x, "debounce")
           quiet == clearTimer(c, "refresh")
           kept == IF amount = x.amount THEN quiet ELSE supersedeFlights(quiet)
           next == [kept EXCEPT !.amount = amount, !.refresh = NoRefresh]
           idle == patch(next, INITIAL_INTENT_STATE)
           z == abandonSign(idle)
<1>1. y = setTimer(next, "debounce", AtOnce) \/ y = next \/ y = z
  BY DEF quoteRequested
<1>2. "debounce" \in TimerName /\ "refresh" \in TimerName /\ AtOnce \in Times
  BY DEF TimerName, AtOnce, Times
<1>3. NoRefresh \in Plan
  BY DEF NoRefresh, Plan, AmountField
<1> HIDE DEF y
<1>4. Typed(c) /\ Kept(c)
  BY <1>2, ClearTimerCalm, CalmKept
<1> HIDE DEF c
<1>5. Typed(quiet) /\ Kept(quiet)
  BY <1>2, <1>4, ClearTimerCalm, CalmKept
<1> HIDE DEF quiet
<1>6. Typed(kept) /\ Kept(kept)
  BY <1>5, SupersedeCalm, CalmKept
<1> HIDE DEF kept
<1>7. Typed(next) /\ Kept(next)
  BY <1>3, <1>6, FormCalm, CalmKept
<1> HIDE DEF next
<1>8. Kept(setTimer(next, "debounce", AtOnce))
  BY <1>2, <1>7, SetTimerCalm, CalmKept
<1>9. Typed(idle) /\ Calm(next, idle)
  BY <1>7, InitialIntentType, InitialQuoted, PatchCalm DEF CalmOrder, INITIAL_INTENT_STATE, NoQuote
<1> HIDE DEF idle
<1>10. Kept(z)
  BY <1>7, <1>9, AbandonCalm, CalmKept
<1> QED BY <1>1, <1>7, <1>8, <1>10 DEF y

\* An allocation is awaited under an id that nothing else has.
LEMMA AllocateRequestedKeeps ==
    ASSUME NEW x, Typed(x), Kept(x)
    PROVE  Kept(allocateRequested(x))
<1> DEFINE y == allocateRequested(x)
           ref == nextId(x)
           told == [x EXCEPT !.event = "refused"]
           left == x.allocs \cup {ref}
           next == [x EXCEPT !.allocs = left]
           opts == [quoteOpts(x.amount) EXCEPT !.ref = ref]
<1>1. [x EXCEPT !.allocs = @ \cup {ref}] = next
  BY DEF Typed, Model
<1>2. y = told \/ y = startQuote(next, opts)
  <2> HIDE DEF next, opts, told, ref
  <2> QED BY <1>1 DEF allocateRequested, next, opts, told, ref
<1> HIDE DEF y
<1>3. ref \in Nat \ {0} /\ ref \notin x.allocs
  BY NextIdFresh DEF idsHeld
<1>4. opts \in QuoteOpts /\ opts.ref = ref /\ ~opts.silent
  <2> HIDE DEF ref
  <2>1. x.amount \in AmountField
    BY DEF Typed, Model
  <2> QED BY <1>3, <2>1 DEF QuoteOpts, quoteOpts
<1> HIDE DEF ref, opts
<1>5. Kept(told)
  BY FormCalm, CalmKept
<1> HIDE DEF told
<1>6. IsFiniteSet(left) /\ left \in SUBSET Nat
  BY <1>3, FS_AddElement DEF Typed, Model
<1>7. /\ Typed(next) /\ KeepsForm(x, next) /\ KeepsCeremony(x, next)
      /\ next.asks = x.asks /\ next.intent = x.intent
      /\ next.flights = x.flights /\ next.allocs = left
  <2> HIDE DEF left
  <2> QED BY <1>6 DEF Typed, Model, KeepsForm, KeepsCeremony
<1> HIDE DEF next
<1>8. Waiting(next, opts.ref)
  BY <1>3, <1>4, <1>7 DEF Kept, Airborne, Waiting
<1>9. Quiet(next, startQuote(next, opts)) /\ Airborne(startQuote(next, opts))
  BY <1>4, <1>7, <1>8, StartQuoteKeeps
<1>10. Quiet(x, next)
  BY <1>7, SameCalmOrder, QuietFrame
<1> QED BY <1>2, <1>5, <1>9, <1>10, QuietTrans, QuietKept DEF y

\* A quote without an allocation keeps what is in the air.
LEMMA PlainQuoteKeeps ==
    ASSUME NEW x, Typed(x), Kept(x), NEW o \in QuoteOpts, o.ref = 0
    PROVE  Kept(startQuote(x, o))
<1>1. Waiting(x, o.ref)
  BY DEF Kept, Airborne, Waiting
<1> QED BY <1>1, StartQuoteKeeps, QuietKept

\* The amount on screen, asked for without an allocation.
LEMMA PlainOpts ==
    ASSUME NEW a \in AmountField
    PROVE  /\ quoteOpts(a) \in QuoteOpts /\ quoteOpts(a).ref = 0
           /\ \A b \in BOOLEAN : LET o == [quoteOpts(a) EXCEPT !.silent = b]
                                 IN  o \in QuoteOpts /\ o.ref = 0
BY DEF quoteOpts, QuoteOpts

\* A refresh is such a quote.
LEMMA RefreshRequestedKeeps ==
    ASSUME NEW x, Typed(x), Kept(x)
    PROVE  Kept(refreshRequested(x))
<1>1. x.amount \in AmountField
  BY DEF Typed, Model
<1>2. Kept(startQuote(x, quoteOpts(x.amount)))
  BY <1>1, PlainOpts, PlainQuoteKeeps
<1> QED BY <1>2 DEF refreshRequested

\* Cancelling abandons the ceremony, and the order goes back to its quote.
LEMMA CancelSignRequestedKeeps ==
    ASSUME NEW x, Typed(x), Kept(x)
    PROVE  Kept(cancelSignRequested(x))
<1> DEFINE z == abandonSign(x)
<1>1. Typed(z) /\ Calm(x, z) /\ z.intent = x.intent
  BY AbandonCalm, AbandonSignFrame
<1> HIDE DEF z
<1>2. "quoted" \in IntentStatus
  BY DEF IntentStatus
<1>3. Calm(z, transition(z, "quoted", x.intent))
  BY <1>1, <1>2, MoveCalm
<1> QED BY <1>1, <1>3, CalmKept DEF cancelSignRequested, z

\* Reset leaves nothing to sign, nothing signed and nothing in the air.
LEMMA ResetRequestedKeeps ==
    ASSUME NEW x, Typed(x), Kept(x)
    PROVE  Kept(resetRequested(x))
<1> DEFINE ts == {"debounce", "refresh", "signPrompt"}
                 \cup (IF awaitingResend(x) THEN {"execute"} ELSE {})
           quiet == clearTimers(x, ts)
           s == supersedeFlights(quiet)
           y == [s EXCEPT
                   !.intent = INITIAL_INTENT_STATE, !.amount = "",
                   !.awaitingPull = FALSE, !.isSigningPull = FALSE, !.pendingIntentSig = None,
                   !.refresh = NoRefresh, !.quotedTrade = None, !.sign = NoSign]
<1>1. resetRequested(x) = y
  BY DEF resetRequested
<1> HIDE DEF ts
<1>2. Typed(quiet) /\ Kept(quiet)
  BY ClearTimersCalm, CalmKept
<1> HIDE DEF quiet
<1>3. Typed(s) /\ Kept(s)
  BY <1>2, SupersedeCalm, CalmKept
<1> HIDE DEF s
<1>4. /\ y.intent = INITIAL_INTENT_STATE /\ y.sign = NoSign /\ y.pendingIntentSig = None
      /\ y.asks = s.asks /\ y.flights = s.flights /\ y.allocs = s.allocs
      /\ y.seenDepositAddresses = s.seenDepositAddresses
  BY <1>3, ZenonT(60) DEF Typed, Model
<1> HIDE DEF y
<1>5. CalmCeremony(s, y) /\ CalmFlights(s, y)
  BY <1>4 DEF CalmCeremony, CalmFlights, NoSign
<1> QED BY <1>1, <1>3, <1>4, <1>5, InitialQuoted, RestKept

\* A resumed order comes without its quote: there is nothing to sign.
LEMMA ResumeRequestedKeeps ==
    ASSUME NEW x, Typed(x), Kept(x), NEW s, Stored(s), s.status # "signing"
    PROVE  Kept(resumeRequested(x, s))
<1> DEFINE b == s.status = "failed" /\ failureMayHaveMoved(s.marker)
           i == [INITIAL_INTENT_STATE EXCEPT
                    !.intentId = s.intentId, !.status = s.status,
                    !.quotedAddress = s.owner, !.depositDeadline = s.depositDeadline,
                    !.mayHaveMoved = b]
           c == clearTimer(x, "debounce")
           p == patch(c, i)
<1>1. resumeRequested(x, s) = x \/ resumeRequested(x, s) = supersedeFlights(p)
  BY DEF resumeRequested
<1>2. b \in BOOLEAN
  BY DEF failureMayHaveMoved, Stored
<1> HIDE DEF b
<1>3. i \in Intent /\ i.status = s.status /\ i.quote = INITIAL_INTENT_STATE.quote
  <2>1. s.intentId \in OrNone(Intents) /\ s.owner \in OrNone(Wallets)
    BY DEF Stored, OrNone
  <2> QED BY <1>2, <2>1, InitialIntentType DEF Stored, Intent
<1> HIDE DEF i
<1>4. Typed(c) /\ Kept(c)
  BY ClearTimerCalm, CalmKept DEF TimerName
<1> HIDE DEF c
<1>5. CalmOrder(c.intent, i)
  BY <1>3 DEF CalmOrder, INITIAL_INTENT_STATE, NoQuote
<1>6. Typed(p) /\ Kept(p)
  BY <1>3, <1>4, <1>5, PatchCalm, CalmKept
<1> HIDE DEF p
<1> QED BY <1>1, <1>6, SupersedeCalm, CalmKept

\* A restarted poll starts no ceremony.
LEMMA RestartPollCalm ==
    ASSUME NEW x, Typed(x)
    PROVE  Calm(x, restartPoll(x))
<1> DEFINE i == [x.intent EXCEPT !.pollExhausted = FALSE]
           p == patch(x, i)
<1>1. i \in Intent /\ CalmOrder(x.intent, i)
  <2>1. x.intent \in Intent
    BY DEF Typed, Model
  <2> QED BY <2>1 DEF Intent, CalmOrder, SameOrder
<1> HIDE DEF i
<1>2. Typed(p) /\ Calm(x, p)
  BY <1>1, PatchCalm
<1> HIDE DEF p
<1>3. Calm(p, [p EXCEPT !.poll = NoPoll])
  BY <1>2, NoPollType, PollCalm
<1> QED BY <1>2, <1>3, CalmTrans DEF restartPoll, p, i

\* What a returning tab refreshes, resends or reads is what it had.
LEMMA VisibilityChangedKeeps ==
    ASSUME NEW x, Good(x), Kept(x), NEW hidden \in BOOLEAN, NEW n
    PROVE  Kept(visibilityChanged(x, hidden, n))
<1> DEFINE y == visibilityChanged(x, hidden, n)
           seen == [x EXCEPT !.hidden = hidden]
           stale == /\ x.amount # ""
                    /\ shouldRefreshOnReturn(x.intent.status, x.ctx.paused,
                                             x.intent.quote.address # None)
           next == IF stale THEN startQuote(seen, quoteOpts(x.amount)) ELSE seen
<1>1. \/ y = seen \/ y = resendBackstop(next, n)
      \/ y = restartPoll(next) \/ y = pollTick(next, FALSE)
  BY DEF visibilityChanged
<1> HIDE DEF y
<1>2. Typed(x) /\ x.amount \in AmountField
  BY FieldTypes DEF Good
<1>3. Typed(seen) /\ Calm(x, seen) /\ seen.intent = x.intent
  BY <1>2, FormCalm
<1>4. Good(seen) /\ Kept(seen)
  <2>1. /\ KeepsCeremony(x, seen) /\ seen.flights = x.flights /\ seen.timers = x.timers
    BY <1>2 DEF Typed, Model, KeepsCeremony
  <2> HIDE DEF seen
  <2> QED BY <1>3, <2>1, GoodAgrees, CalmKept
<1> HIDE DEF seen
<1>5. stale => x.intent.status \notin QUOTE_BUSY_STATES
  BY DEF shouldRefreshOnReturn, QUOTE_BUSY_STATES
<1> HIDE DEF stale
<1>6. Typed(next) /\ Kept(next)
  <2>1. Kept(startQuote(seen, quoteOpts(x.amount)))
    BY <1>2, <1>3, <1>4, PlainOpts, PlainQuoteKeeps
  <2>2. stale => Good(startQuote(seen, quoteOpts(x.amount)))
    BY <1>2, <1>3, <1>4, <1>5, PlainOpts, StartQuoteGood
  <2> QED BY <1>3, <1>4, <2>1, <2>2 DEF Good
<1> HIDE DEF next
<1>7. Kept(resendBackstop(next, n)) /\ Kept(restartPoll(next)) /\ Kept(pollTick(next, FALSE))
  BY <1>6, ResendBackstopKeeps, RestartPollCalm, PollTickCalm, CalmKept
<1> QED BY <1>1, <1>4, <1>7 DEF y

\* A stream frame moves its own order, and never to a ceremony.
LEMMA StreamStatusKeeps ==
    ASSUME NEW x, Typed(x), Kept(x), NEW i, NEW u, StatusUpdate(u), u.status # "signing"
    PROVE  Kept(streamStatus(x, i, u))
BY ApplyStatusUpdateCalm, CalmKept DEF streamStatus

\* A timer that fires, disarmed or re-armed.
LEMMA OnTimerKeeps ==
    ASSUME NEW x, Typed(x), Kept(x), NEW t \in TimerName, NEW d \in Times, NEW n
    PROVE  Kept(onTimer(setTimer(x, t, d), t, n))
<1> DEFINE z == setTimer(x, t, d)
           y == onTimer(z, t, n)
           next == [z EXCEPT !.refresh = NoRefresh]
           opts == [quoteOpts(z.refresh.amount) EXCEPT !.silent = z.ctx.paused]
<1>1. Typed(z) /\ Kept(z)
  BY SetTimerCalm, CalmKept
<1> HIDE DEF z
<1>2. CASE t = "debounce"
  BY <1>1, <1>2, RefreshRequestedKeeps DEF onTimer, z
<1>3. CASE t = "refresh"
  <2>1. y = z \/ y = next \/ y = startQuote(next, opts)
    BY <1>3 DEF onTimer
  <2>2. NoRefresh \in Plan
    BY DEF NoRefresh, Plan, AmountField
  <2>3. Typed(next) /\ Kept(next)
    BY <1>1, <2>2, FormCalm, CalmKept
  <2>4. z.refresh.amount \in AmountField /\ z.ctx.paused \in BOOLEAN
    BY <1>1 DEF Typed, Model, Context
  <2>5. opts \in QuoteOpts /\ opts.ref = 0
    BY <2>4, PlainOpts
  <2> HIDE DEF y, next, opts
  <2>6. Kept(startQuote(next, opts))
    BY <2>3, <2>5, PlainQuoteKeeps
  <2> QED BY <1>1, <2>1, <2>3, <2>6 DEF y, z
<1>4. CASE t = "expiry"
  BY <1>1, <1>4, TickExpiryKeeps, CalmKept DEF onTimer, z
<1>5. CASE t = "poll"
  <2>1. y = resendBackstop(z, n) \/ y = pollTick(z, TRUE) \/ y = z
    BY <1>5 DEF onTimer
  <2> QED BY <1>1, <2>1, ResendBackstopKeeps, PollTickCalm, CalmKept DEF z
<1>6. CASE t = "signPrompt"
  BY <1>1, <1>6, SignFlowFailedKeeps, CalmKept DEF onTimer, z
<1>7. CASE t = "execute"
  BY <1>1, <1>7, ResendExecuteKeeps DEF onTimer, z
<1> QED BY <1>2, <1>3, <1>4, <1>5, <1>6, <1>7 DEF TimerName

-----------------------------------------------------------------------------
(* The actions. *)

\* What holds between two messages, over and above the invariant.
Held == Kept(m) /\ WalletHolds(m)

\* A new page has nothing of all that.
LEMMA InitKept ==
    ASSUME NEW c \in Context
    PROVE  Kept(init(c))
<1> DEFINE x == init(c)
<1>1. /\ x.flights = {} /\ x.asks = {} /\ x.allocs = {} /\ x.sign = NoSign
      /\ x.seenDepositAddresses = {} /\ x.intent = INITIAL_INTENT_STATE
  BY DEF init
<1>2. NoSign.stage = "none"
  BY DEF NoSign
<1> HIDE DEF x
<1>3. Airborne(x) /\ AddressesOnce(x)
  BY <1>1 DEF Airborne, Apart, AddressesOnce
<1>4. Bound(x)
  BY <1>1, <1>2, InitialQuoted DEF Bound, WalletWatched, Collected, Requested
<1> QED BY <1>3, <1>4 DEF Kept, x

\* Forgetting the last event, and taking an answered call off the list, change
\* nothing of it.
LEMMA FreshKept ==
    ASSUME Inv, Held, NEW a
    PROVE  /\ Good(fresh) /\ Kept(fresh) /\ WalletHolds(fresh)
           /\ Good(answered(a)) /\ Kept(answered(a))
           /\ answered(a).sign = m.sign /\ answered(a).intent = m.intent
<1>1. Typed(fresh) /\ SameTrade(m, fresh)
  BY DEF fresh, Inv, Good, Typed, Model, SameTrade
<1>2. Kept(fresh) /\ WalletHolds(fresh)
  BY <1>1, SameTradeCalm, CalmKept, BesideHolds DEF Held, Calm
<1> DEFINE z == answered(a)
           left == fresh.asks \ {a}
<1>3. IsFiniteSet(left)
  BY <1>1, FS_RemoveElement DEF Typed
<1>4. /\ z.ctx = fresh.ctx /\ z.watched = fresh.watched /\ z.intent = fresh.intent
      /\ z.sign = fresh.sign /\ z.pendingIntentSig = fresh.pendingIntentSig
      /\ z.asks \in SUBSET fresh.asks /\ z.seenDepositAddresses = fresh.seenDepositAddresses
      /\ z.flights = fresh.flights /\ z.allocs = fresh.allocs
  BY <1>1, <1>3 DEF answered, Typed, Model
<1> HIDE DEF z
<1>5. Calm(fresh, z)
  BY <1>4, SameCalmOrder DEF Calm, Beside, CalmCeremony, CalmFlights
<1>6. Kept(z)
  BY <1>2, <1>5, CalmKept
<1> QED BY <1>1, <1>2, <1>4, <1>6, FreshGood DEF Inv, SameTrade, z

\* One update of such a model, and the reactive rules after it.
LEMMA UpdateHeld ==
    ASSUME Inv, NEW x, Good(x), Kept(x), update(x)
    PROVE  Held'
<1>1. m' = settle(x, now) /\ now \in Nat
  BY DEF update, Inv
<1>2. Kept(settle(x, now)) /\ WalletHolds(settle(x, now))
  BY <1>1, SettleKeeps
<1> QED BY <1>1, <1>2 DEF Held

\* Initially.
LEMMA InitHeld == Init => Held
<1>1. SUFFICES ASSUME Init PROVE Held
  OBVIOUS
<1>2. PICK c \in Contexts : m = settle(init(c), 0)
  BY <1>1 DEF Init
<1>3. Kept(m) /\ WalletHolds(m)
  BY <1>2, InitGood, InitKept, SettleKeeps, SystemConstants
<1> QED BY <1>3 DEF Held

\* A row never reads as a ceremony.
LEMMA ReadRowUnsigned ==
    ASSUME NEW st \in RowState
    PROVE  readRow(st).status # "signing"
BY DEF readRow, RowState, Moved

\* After a message of the host.
LEMMA HostHeld ==
    ASSUME Inv, Held, HostMessage
    PROVE  Held'
<1>1. Good(fresh) /\ Typed(fresh) /\ Kept(fresh) /\ WalletHolds(fresh)
  BY FreshKept DEF Good
<1>2. CASE ContextChanged
  <2>1. PICK c \in Contexts : update(contextChanged(fresh, c))
    BY <1>2 DEF ContextChanged
  <2>2. Good(contextChanged(fresh, c)) /\ Kept(contextChanged(fresh, c))
    BY <1>1, SystemConstants, ContextChangedGood, ContextChangedKeeps
  <2> QED BY <2>1, <2>2, UpdateHeld
<1>3. CASE QuoteRequested \/ AmountCleared
  <2>1. PICK amount \in AmountField : update(quoteRequested(fresh, amount))
    BY <1>3 DEF QuoteRequested, AmountCleared, AmountField
  <2>2. Good(quoteRequested(fresh, amount)) /\ Kept(quoteRequested(fresh, amount))
    BY <1>1, QuoteRequestedGood, QuoteRequestedKeeps
  <2> QED BY <2>1, <2>2, UpdateHeld
<1>4. CASE AllocateRequested
  BY <1>1, <1>4, AllocateRequestedGood, AllocateRequestedKeeps, UpdateHeld DEF AllocateRequested
<1>5. CASE RefreshRequested
  BY <1>1, <1>5, RefreshRequestedGood, RefreshRequestedKeeps, UpdateHeld DEF RefreshRequested
<1>6. CASE SignRequested
  BY <1>1, <1>6, BeginSignGood, BeginSignKeeps, UpdateHeld DEF SignRequested
<1>7. CASE PullSignRequested
  BY <1>1, <1>7, BeginPullSignGood, BeginPullSignKeeps, UpdateHeld DEF PullSignRequested
<1>8. CASE CancelSignRequested
  BY <1>1, <1>8, CancelSignRequestedGood, CancelSignRequestedKeeps, UpdateHeld
  DEF CancelSignRequested
<1>9. CASE ResetRequested
  BY <1>1, <1>9, ResetRequestedGood, ResetRequestedKeeps, UpdateHeld DEF ResetRequested
<1>10. CASE ResumeRequested
  <2> DEFINE record(i, owner) ==
                 LET st == rows[i].st
                 IN  [intentId |-> i, owner |-> owner, depositDeadline |-> Never,
                      marker |-> st = "not_executed",
                      status |-> IF st \in {"none", "quoted", "gone"} THEN "executing"
                                 ELSE readRow(st).status]
  <2>1. PICK i \in dispatched, owner \in Wallets : update(resumeRequested(fresh, record(i, owner)))
    BY <1>10 DEF ResumeRequested
  <2>2. i \in Intents /\ rows[i].st \in RowState
    BY DEF Inv
  <2>3. record(i, owner).status \in IntentStatus \ {"signing"}
    <3>1. CASE rows[i].st \in {"none", "quoted", "gone"}
      BY <3>1 DEF IntentStatus
    <3>2. CASE rows[i].st \notin {"none", "quoted", "gone"}
      BY <2>2, <3>2, ReadRowType, ReadRowUnsigned DEF StatusUpdate
    <3> QED BY <3>1, <3>2
  <2>4. Stored(record(i, owner)) /\ record(i, owner).status # "signing"
    BY <2>2, <2>3 DEF Stored, Never, Times
  <2> HIDE DEF record
  <2>5. /\ Good(resumeRequested(fresh, record(i, owner)))
        /\ Kept(resumeRequested(fresh, record(i, owner)))
    BY <1>1, <2>4, ResumeRequestedGood, ResumeRequestedKeeps
  <2> QED BY <2>1, <2>5, UpdateHeld
<1>11. CASE VisibilityChanged
  <2>1. (~m.hidden) \in BOOLEAN
    OBVIOUS
  <2>2. /\ Good(visibilityChanged(fresh, ~m.hidden, now))
        /\ Kept(visibilityChanged(fresh, ~m.hidden, now))
    BY <1>1, <2>1, VisibilityChangedGood, VisibilityChangedKeeps
  <2> QED BY <1>11, <2>2, UpdateHeld DEF VisibilityChanged
<1>12. CASE StreamStatus
  <2>1. PICK i \in Intents, st \in RowState :
            /\ readRow(st).status \in POLL_INFLIGHT_STATES
            /\ update(streamStatus(fresh, i, readRow(st)))
    BY <1>12 DEF StreamStatus
  <2>2. st \notin {"none", "gone"}
    BY <2>1 DEF readRow, POLL_INFLIGHT_STATES
  <2>3. Good(streamStatus(fresh, i, readRow(st))) /\ Kept(streamStatus(fresh, i, readRow(st)))
    BY <1>1, <2>2, ReadRowType, ReadRowUnsigned, StreamStatusGood, StreamStatusKeeps
  <2> QED BY <2>1, <2>3, UpdateHeld
<1> QED
  BY <1>2, <1>3, <1>4, <1>5, <1>6, <1>7, <1>8, <1>9, <1>10, <1>11, <1>12 DEF HostMessage

\* After a timer.
LEMMA TimerHeld ==
    ASSUME Inv, Held, NEW t \in TimerName, TimerFired(t)
    PROVE  Held'
<1> DEFINE again == CASE t = "poll" -> now + STATUS_POLL [] t = "expiry" -> AtOnce
                      [] OTHER -> Never
           x == onTimer(setTimer(fresh, t, again), t, now)
<1>0. Good(fresh) /\ Kept(fresh) /\ fresh.timers = m.timers
  BY FreshKept, FreshGood DEF Inv
<1>1. Typed(fresh) /\ armed(fresh, t)
  BY <1>0 DEF Good, TimerFired, armed
<1>2. again \in Times /\ (t \in {"signPrompt", "execute"} => again = Never)
  <2>1. CASE t = "poll"
    BY <2>1, DecisionConstants DEF Inv, Times
  <2>2. CASE t = "expiry"
    BY <2>2 DEF AtOnce, Times
  <2>3. CASE t \notin {"poll", "expiry"}
    BY <2>3 DEF Never, Times
  <2> QED BY <2>1, <2>2, <2>3
<1>3. update(x)
  BY DEF TimerFired
<1>4. Good(x) /\ Kept(x)
  <2> HIDE DEF again
  <2> QED BY <1>0, <1>1, <1>2, OnTimerGood, OnTimerKeeps
<1> HIDE DEF x
<1> QED BY <1>3, <1>4, UpdateHeld

\* After an answer to a quote: the Worker serves an executable one under an id.
LEMMA QuoteHeld ==
    ASSUME Inv, Held, QuoteReplied
    PROVE  Held'
<1>1. PICK a \in m.asks : QuoteThrew(a) \/ QuoteServed(a)
  BY DEF QuoteReplied
<1>2. Good(answered(a)) /\ Typed(answered(a)) /\ Kept(answered(a)) /\ now \in Nat
  BY FreshKept DEF Inv, Good
<1>3. CASE QuoteThrew(a)
  <2> DEFINE reply == [threw |-> TRUE, quote |-> NoQuote]
  <2>1. reply.quote \in Quote /\ reply.threw
    BY NoQuoteType
  <2>2. update(onQuote(answered(a), a.id, reply, now))
    BY <1>3 DEF QuoteThrew
  <2> HIDE DEF reply
  <2>3. /\ Good(onQuote(answered(a), a.id, reply, now))
        /\ Kept(onQuote(answered(a), a.id, reply, now))
    BY <1>2, <2>1, OnQuoteGood, OnQuoteKeeps
  <2> QED BY <2>2, <2>3, UpdateHeld
<1>4. CASE QuoteServed(a)
  <2> DEFINE unused(shape) == IF shape.preview THEN {None} ELSE Intents \ idsInUse
             id(shape) == CHOOSE j \in unused(shape) : TRUE
             q(shape) == serve(shape, id(shape))
             reply(shape) == [threw |-> FALSE, success |-> shape.success, quote |-> q(shape),
                              genuine |-> shape.genuine, matches |-> shape.matches,
                              attested |-> shape.attested]
  <2>1. PICK shape \in Shapes :
            /\ unused(shape) # {}
            /\ update(onQuote(answered(a), a.id, reply(shape), now))
    BY <1>4, Zenon DEF QuoteServed
  <2>2. id(shape) \in OrNone(Intents) /\ (~shape.preview => id(shape) # None)
    BY <2>1, SystemConstants DEF OrNone
  <2> HIDE DEF unused, id
  <2>3. /\ q(shape) \in Quote /\ q(shape).preview = shape.preview /\ q(shape).intent = id(shape)
    BY <2>2, ServeType DEF serve
  <2>4. /\ reply(shape).quote \in Quote
        /\ ~reply(shape).quote.preview => reply(shape).quote.intent # None
    BY <2>2, <2>3
  <2> HIDE DEF q, reply
  <2>5. /\ Good(onQuote(answered(a), a.id, reply(shape), now))
        /\ Kept(onQuote(answered(a), a.id, reply(shape), now))
    BY <1>2, <2>4, OnQuoteGood, OnQuoteKeeps
  <2> QED BY <2>1, <2>5, UpdateHeld
<1> QED BY <1>1, <1>3, <1>4

\* After an answer of the session, of the wallet or of an approval: a prompt of
\* the ceremony answers for the order it was opened for.
LEMMA WalletReplyHeld ==
    ASSUME Inv, Held, SessionReplied \/ SignReplied \/ ApprovalReplied
    PROVE  Held'
<1>1. CASE SessionReplied
  <2>1. PICK a \in m.asks, result \in {"ok"} \cup ({"refused"} \cap Faults) :
            update(onSession(answered(a), a.id, result))
    BY <1>1 DEF SessionReplied
  <2>2. /\ Good(onSession(answered(a), a.id, result))
        /\ Kept(onSession(answered(a), a.id, result))
    BY FreshKept, OnSessionGood, OnSessionKeeps DEF Good
  <2> QED BY <2>1, <2>2, UpdateHeld
<1>2. CASE SignReplied
  <2>1. PICK a \in m.asks, result \in {"ok"} \cup ({"rejected", "error"} \cap Faults),
             purpose \in {"intent", "pull"} :
            /\ a.op \in {"signIntent", "signPull"}
            /\ update(onSigned(answered(a), a.id, purpose, result, a.intentId))
    BY <1>2 DEF SignReplied
  <2> DEFINE x == answered(a)
  <2>2. a.intentId \in OrNone(Intents) /\ Good(x) /\ Kept(x) /\ x.sign = m.sign /\ x.intent = m.intent
    BY AskTypes, FreshKept
  <2>3. Collected(m)
    BY DEF Held, Kept, Bound
  <2>4. x.sign.id = a.id /\ x.sign.stage = purpose /\ x.intent.status = "signing"
          => a.intentId = x.intent.intentId
    <3> HIDE DEF x
    <3> QED BY <2>1, <2>2, <2>3 DEF Collected
  <2> HIDE DEF x
  <2>5. /\ Good(onSigned(x, a.id, purpose, result, a.intentId))
        /\ Kept(onSigned(x, a.id, purpose, result, a.intentId))
    BY <2>2, <2>4, OnSignedGood, OnSignedKeeps
  <2> QED BY <2>1, <2>5, UpdateHeld DEF x
<1>3. CASE ApprovalReplied
  <2>1. PICK a \in m.asks,
             result \in {"approved"} \cup ({"declined", "rejected", "error"} \cap Faults) :
            update(onApproval(answered(a), a.id, result))
    BY <1>3 DEF ApprovalReplied
  <2>2. /\ Good(onApproval(answered(a), a.id, result))
        /\ Kept(onApproval(answered(a), a.id, result))
    BY FreshKept, OnApprovalGood, OnApprovalKeeps
  <2> QED BY <2>1, <2>2, UpdateHeld
<1> QED BY <1>1, <1>2, <1>3

\* What the Worker may say of an execute is typed, and is no ceremony.
LEMMA ExecuteAnswerType ==
    ASSUME Inv, NEW st, NEW r \in executeAnswers(st)
    PROVE  ExecuteReply(r) /\ (r.kind = "response" => r.status # "signing")
<1>1. ASSUME NEW s \in IntentStatus \ {"idle", "quoting", "signing"}, NEW b \in BOOLEAN,
             NEW c \in BOOLEAN, NEW d \in BOOLEAN, NEW e \in BOOLEAN
      PROVE  LET v == response(s, b, c, d, e)
             IN  ExecuteReply(v) /\ (v.kind = "response" => v.status # "signing")
  BY DEF response, ExecuteReply
<1>2. ASSUME NEW n \in Int
      PROVE  LET v == [kind |-> "notAccepted", retryAfter |-> n]
             IN  ExecuteReply(v) /\ v.kind # "response"
  BY DEF ExecuteReply
<1>3. {"quoted", "executing", "failed", "bridging", "settling", "completed", "refunded"}
         \in SUBSET (IntentStatus \ {"idle", "quoting", "signing"})
  BY DEF IntentStatus
<1>4. CASE st = "quoted"
  <2>1. \/ \E d \in RetryAfters : r = [kind |-> "notAccepted", retryAfter |-> now + d]
        \/ r = [kind |-> "notAccepted", retryAfter |-> Never]
        \/ r = response("quoted", FALSE, TRUE, FALSE, FALSE)
    BY <1>4 DEF executeAnswers
  <2>2. Never \in Int /\ \A d \in RetryAfters : now + d \in Int
    BY SystemConstants DEF Inv, Never
  <2> QED BY <1>1, <1>2, <1>3, <2>1, <2>2
<1>5. CASE st \in {"claimed", "executing"}
  <2>1. \/ r = response("executing", TRUE, FALSE, FALSE, FALSE)
        \/ r = response("failed", FALSE, TRUE, FALSE, FALSE)
        \/ r = response("executing", TRUE, FALSE, FALSE, TRUE)
    BY <1>5 DEF executeAnswers
  <2> QED BY <1>1, <1>3, <2>1
<1>6. CASE st \in {"bridging", "settling", "completed", "refunded"}
  <2>1. r = response(st, TRUE, FALSE, FALSE, FALSE)
    BY <1>6 DEF executeAnswers
  <2> QED BY <1>1, <1>3, <1>6, <2>1
<1>7. CASE st \in {"failed", "not_executed"}
  <2>1. r = response("failed", FALSE, FALSE, st = "not_executed", FALSE)
    BY <1>7 DEF executeAnswers
  <2> QED BY <1>1, <1>3, <2>1
<1>8. CASE st \notin {"quoted", "claimed", "executing", "bridging", "settling",
                      "completed", "refunded", "failed", "not_executed"}
  BY <1>8 DEF executeAnswers
<1> QED BY <1>4, <1>5, <1>6, <1>7, <1>8

\* After an answer to an execute.
LEMMA ExecuteHeld ==
    ASSUME Inv, Held, ExecuteReplied
    PROVE  Held'
<1>1. PICK a \in m.asks :
          \E r \in executeAnswers(a.read) \cup {x \in {[kind |-> "threw"]} : "execute" \in Faults} :
              update(onExecuted(answered(a), a.id, r, now))
  BY DEF ExecuteReplied
<1>2. PICK r \in executeAnswers(a.read) \cup {x \in {[kind |-> "threw"]} : "execute" \in Faults} :
          update(onExecuted(answered(a), a.id, r, now))
  BY <1>1
<1>3. ExecuteReply(r) /\ (r.kind = "response" => r.status # "signing")
  <2>1. CASE r = [kind |-> "threw"]
    BY <2>1 DEF ExecuteReply
  <2>2. CASE r \in executeAnswers(a.read)
    BY <2>2, ExecuteAnswerType
  <2> QED BY <2>1, <2>2
<1>4. Good(answered(a)) /\ Typed(answered(a)) /\ Kept(answered(a)) /\ now \in Nat
  BY FreshKept DEF Inv, Good
<1>5. /\ Good(onExecuted(answered(a), a.id, r, now))
      /\ Kept(onExecuted(answered(a), a.id, r, now))
  BY <1>3, <1>4, OnExecutedGood, OnExecutedKeeps
<1> QED BY <1>2, <1>5, UpdateHeld

\* After an answer to a read.
LEMMA StatusHeld ==
    ASSUME Inv, Held, StatusReplied
    PROVE  Held'
<1>1. PICK a \in m.asks : \E r \in statusAnswers(a.read) :
          update(onStatus(answered(a), a.id, a.attempt, r, now))
  BY DEF StatusReplied
<1>2. PICK r \in statusAnswers(a.read) : update(onStatus(answered(a), a.id, a.attempt, r, now))
  BY <1>1
<1>3. a.attempt \in Nat /\ a.read \in RowState \cup {"unread"}
  BY AskTypes
<1>4. r.kind = "data" => StatusUpdate(r) /\ r.status # "signing"
  <2> DEFINE late == [readRow(a.read) EXCEPT !.status = "executing", !.unmapped = TRUE]
  <2>1. \/ r.kind # "data"
        \/ a.read \notin {"unread", "none", "gone"} /\ r = readRow(a.read)
        \/ a.read \in {"executing", "bridging", "settling"} /\ r = late
    BY DEF statusAnswers
  <2>2. a.read \notin {"unread", "none", "gone"}
          => StatusUpdate(readRow(a.read)) /\ readRow(a.read).status # "signing"
    BY <1>3, ReadRowType, ReadRowUnsigned
  <2>3. a.read \in {"executing", "bridging", "settling"}
          => StatusUpdate(late) /\ late.status # "signing"
    BY DEF readRow, StatusUpdate, IntentStatus
  <2> QED BY <2>1, <2>2, <2>3
<1>5. Good(answered(a)) /\ Typed(answered(a)) /\ Kept(answered(a))
  BY FreshKept DEF Good
<1>6. /\ Good(onStatus(answered(a), a.id, a.attempt, r, now))
      /\ Kept(onStatus(answered(a), a.id, a.attempt, r, now))
  BY <1>3, <1>4, <1>5, OnStatusGood, OnStatusCalm, CalmKept
<1> QED BY <1>2, <1>6, UpdateHeld

\* A call the Worker answers is for what it was.
LEMMA WorkerHeld ==
    ASSUME Inv, Held, Worker
    PROVE  Held'
<1>1. CASE WorkerAnswers
  <2> DEFINE told(a, st) == [a EXCEPT !.read = st]
             left(a, st) == (m.asks \ {a}) \cup {told(a, st)}
  <2>0. PICK a \in m.asks : \E st : m' = [m EXCEPT !.asks = left(a, st)]
    BY <1>1, Zenon DEF WorkerAnswers
  <2>1. PICK st : m' = [m EXCEPT !.asks = left(a, st)]
    BY <2>0, Zenon
  <2>2. a \in Ask
    BY AskTypes
  <2>3. /\ told(a, st).id = a.id /\ told(a, st).op = a.op /\ told(a, st).intentId = a.intentId
        /\ told(a, st).sig = a.sig /\ told(a, st).pullSig = a.pullSig
    BY <2>2 DEF Ask
  <2>4. \A b \in left(a, st) : \E c \in m.asks :
            /\ b.id = c.id /\ b.op = c.op /\ b.intentId = c.intentId
            /\ b.sig = c.sig /\ b.pullSig = c.pullSig
    BY <2>3
  <2> HIDE DEF left
  <2>5. /\ m'.ctx = m.ctx /\ m'.watched = m.watched /\ m'.intent = m.intent
        /\ m'.sign = m.sign /\ m'.pendingIntentSig = m.pendingIntentSig
        /\ m'.asks = left(a, st) /\ m'.seenDepositAddresses = m.seenDepositAddresses
        /\ m'.flights = m.flights /\ m'.allocs = m.allocs
    BY <2>1 DEF Inv, Good, Typed, Model
  <2>6. Airborne(m') /\ AddressesOnce(m') /\ WalletHolds(m')
    BY <2>5 DEF Held, Kept, Airborne, AddressesOnce, WalletHolds, walletKey
  <2>7. WalletWatched(m') /\ Collected(m')
    BY <2>4, <2>5 DEF Held, Kept, Bound, WalletWatched, walletKey, Collected
  <2>8. Bound(m')
    BY <2>4, <2>5, <2>7 DEF Held, Kept, Bound, SignedFor
  <2> QED BY <2>6, <2>8 DEF Held, Kept
<1>2. CASE WorkerClaims \/ WorkerMoves \/ WorkerSweeps
  BY <1>2 DEF WorkerClaims, WorkerMoves, WorkerSweeps, Held
<1> QED BY <1>1, <1>2 DEF Worker

\* The two invariants together are inductive.
LEMMA NextHeld == Inv /\ Held /\ [Next]_vars => Held'
<1>1. SUFFICES ASSUME Inv, Held, [Next]_vars PROVE Held'
  OBVIOUS
<1>2. CASE HostMessage
  BY <1>1, <1>2, HostHeld
<1>3. CASE Reply
  BY <1>1, <1>3, QuoteHeld, WalletReplyHeld, ExecuteHeld, StatusHeld DEF Reply
<1>4. CASE Worker
  BY <1>1, <1>4, WorkerHeld
<1>5. CASE Tick
  BY <1>1, <1>5 DEF Tick, Held
<1>6. CASE \E t \in TimerName : TimerFired(t)
  BY <1>1, <1>6, TimerHeld
<1>7. CASE UNCHANGED vars
  BY <1>1, <1>7 DEF vars, Held
<1> QED BY <1>1, <1>2, <1>3, <1>4, <1>5, <1>6, <1>7 DEF Next

\* They hold throughout.
LEMMA HeldThroughout == Spec => [](Inv /\ Held)
BY InitInv, NextInv, InitHeld, NextHeld, PTL DEF Spec

-----------------------------------------------------------------------------
(* What it gives. *)

\* An allocation the host waits for is the one of a quote in the air, whatever
\* superseded, failed or answered that quote: the promise of allocate is
\* neither left hanging nor answered twice.
THEOREM AllocationsTheorem == Spec => []AllocationsAnswered
<1>1. Held => AllocationsAnswered
  BY DEF Held, Kept, Airborne, AllocationsAnswered
<1> QED BY <1>1, HeldThroughout, PTL

\* A deposit address that onQuote shows is never shown for a second intent.
THEOREM AddressesTheorem == Spec => []OneIntentPerAddress
<1>1. Held => OneIntentPerAddress
  BY DEF Held, Kept, AddressesOnce, OneIntentPerAddress
<1> QED BY <1>1, HeldThroughout, PTL

\* Whatever prompts answer late, whatever the wallet or the order became in
\* between: what is dispatched, and sent again, carries the signatures of the
\* very intent it executes.
THEOREM DispatchTheorem == Spec => []SignedForDispatched
<1>1. Held => SignedForDispatched
  BY DEF Held, Kept, Bound, SignedFor, SignedForDispatched
<1> QED BY <1>1, HeldThroughout, PTL

\* After every message the wallet and the chain of a ceremony are those its
\* quote was made for.
THEOREM WalletTheorem == Spec => []WalletHoldsCeremony
<1>1. Held => WalletHoldsCeremony
  BY DEF Held, WalletHolds, walletKey, Fits, WalletHoldsCeremony
<1> QED BY <1>1, HeldThroughout, PTL

-----------------------------------------------------------------------------
(***************************************************************************)
(* The order in flight.  What is shown of it, what is asked about it and   *)
(* what watches it go together (Ordered), and no message but Reset, an     *)
(* emptied amount or a verdict of the Worker takes it off the screen.      *)
(* Most handlers go along: they leave it, its poll and its request alone.  *)
(***************************************************************************)

\* An order in flight, and one the Worker may have claimed.
InFlight(x) == x.intent.status \in POLL_INFLIGHT_STATES
Claimed == {"signing", "executing", "bridging", "settling"}

\* A read of the order that the poll of x watches.
ReadFor(x, a) ==
    /\ x.poll.live /\ ~x.poll.resend
    /\ a.id = x.poll.gen /\ a.intentId = x.poll.intentId /\ a.read = "unread"

\* The order stays, and nothing is sent: a quote to sign is the one there was, or q.
Carries(x, y, q) ==
    /\ InFlight(x) => InFlight(y)
    /\ y.intent.status \in QUOTE_BUSY_STATES =>
          x.intent.status \in QUOTE_BUSY_STATES /\ y.intent.intentId = x.intent.intentId
    /\ y.intent.status \in Claimed => x.intent.status \in Claimed
    /\ y.intent.quote.canSolve => y.intent.quote \in {x.intent.quote, q}
    /\ y.intent.intentId \in {x.intent.intentId, None, q.intent}
    /\ \A a \in y.asks : a.op = "execute" => a \in x.asks
    /\ \A a \in y.asks : a.op = "status" => a \in x.asks \/ a.read = "unread"

\* The sign flow goes on, ends, or is a new one that has sent nothing.
Signs(x, y) ==
    \/ y.sign = x.sign
    \/ y.sign.stage = "none"
    \/ /\ y.sign.stage # "execute" /\ x.sign.stage \notin {"none", "execute"}
       /\ y.sign.id = x.sign.id
    \/ y.sign.stage # "execute" /\ \A a \in y.asks : a.op = "execute" => a.id # y.sign.id
    \/ /\ y.sign.stage = "execute" /\ x.sign.stage = "execute"
       /\ y.sign.id = x.sign.id /\ y.sign.request = x.sign.request

\* A poll that goes on is the one there was, its timer with it.
Watches(x, y) ==
    /\ y.watched.expiry = x.watched.expiry /\ y.timers["expiry"] = x.timers["expiry"]
    /\ y.poll.live =>
          /\ x.poll.live /\ y.poll.gen = x.poll.gen /\ y.poll.intentId = x.poll.intentId
          /\ y.poll.resend = x.poll.resend /\ y.timers["poll"] = x.timers["poll"]
          /\ InFlight(x) /\ x.intent.pollExhausted => y.intent.pollExhausted

\* What goes along with the order.
Along(x, y, q) ==
    /\ Carries(x, y, q) /\ Signs(x, y) /\ Watches(x, y)
    /\ y.intent.reconciling => x.intent.reconciling
    /\ InFlight(y) => InFlight(x)
    /\ \A a \in y.asks : a.op = "status" => a \in x.asks \/ ReadFor(x, a)

-----------------------------------------------------------------------------
(* The invariant of a model. *)

\* The order, its poll, its request and the calls about it are of one intent;
\* the doubt is of an order in flight whose execute has answered, and a poll
\* of one has its timer, or has said that it stopped.
Ordered(x) ==
    /\ x.intent.reconciling => InFlight(x) /\ x.sign.stage # "execute"
    /\ x.intent.status \in QUOTE_BUSY_STATES => x.intent.intentId # None
    /\ x.poll.live => armed(x, "poll") \/ x.intent.pollExhausted \/ ~InFlight(x)
    /\ x.poll.live => \A a \in x.asks : a.op = "status" /\ a.id = x.poll.gen =>
                          a.intentId = x.poll.intentId /\ ~x.poll.resend
    /\ armed(x, "expiry") => x.watched.expiry # Never
    /\ x.sign.stage = "execute" => x.sign.request = x.intent.intentId
    /\ x.sign.stage # "none" => \A a \in x.asks : a.op = "execute" /\ a.id = x.sign.id =>
                          x.sign.stage = "execute" /\ a.intentId = x.intent.intentId

\* A poll is due: an order in flight whose execute is not out.
Due(x) ==
    /\ ~(x.sign.stage = "execute" /\ ~awaitingResend(x))
    /\ InFlight(x) /\ x.intent.intentId # None

\* What the rules leave behind: a poll of the order that is due one, and no
\* expiry timer but a quote's.
Settled(x) ==
    /\ x.poll.live <=> Due(x)
    /\ x.poll.live => /\ x.poll.intentId = x.intent.intentId
                      /\ x.poll.resend = awaitingResend(x)
    /\ armed(x, "expiry") => x.intent.status = "quoted"

\* A message that sends, or confirms, may take the order on screen further.
Sends(x, y) ==
    \A a \in y.asks : a.op = "execute" =>
        a \in x.asks \/ (a.read = "unread" /\ a.intentId = y.intent.intentId /\ InFlight(y))
Signable(i) == i.quote.canSolve /\ ~i.quote.preview /\ i.quote.address = None
Goes(x, y, q) ==
    /\ InFlight(x) => InFlight(y)
    /\ y.intent.status \in QUOTE_BUSY_STATES => y.intent.intentId = x.intent.intentId
    /\ y.intent.status \in Claimed =>
          x.intent.status \in Claimed \/ (x.intent.status = "quoted" /\ Signable(x.intent))
    /\ y.intent.quote.canSolve => y.intent.quote \in {x.intent.quote, q}
    /\ y.intent.intentId \in {x.intent.intentId, None, q.intent}
    /\ Sends(x, y)
    /\ \A a \in y.asks : a.op = "status" => a \in x.asks \/ a.read = "unread"

\* The statuses, each in the sets that name it.
LEMMA StatusSets ==
    /\ POLL_INFLIGHT_STATES \subseteq QUOTE_BUSY_STATES
    /\ Claimed \subseteq QUOTE_BUSY_STATES
    /\ QUOTE_BUSY_STATES \subseteq IntentStatus
    /\ "executing" \in POLL_INFLIGHT_STATES /\ "executing" \in Claimed
    /\ "signing" \in Claimed /\ "signing" \notin POLL_INFLIGHT_STATES
BY DEF POLL_INFLIGHT_STATES, Claimed, QUOTE_BUSY_STATES, IntentStatus

\* What goes along goes.
LEMMA AlongGoes ==
    ASSUME NEW x, NEW y, NEW q, Along(x, y, q)
    PROVE  Goes(x, y, q)
BY DEF Along, Carries, Goes, Sends

\* The order stays over two steps when it does over each.
LEMMA CarriesTrans ==
    ASSUME NEW x, NEW y, NEW z, NEW q, Carries(x, y, q), Carries(y, z, q)
    PROVE  Carries(x, z, q)
<1>1. z.intent.quote.canSolve => z.intent.quote \in {x.intent.quote, q}
  BY DEF Carries
<1>2. \A a \in z.asks : a.op = "status" => a \in x.asks \/ a.read = "unread"
  BY DEF Carries
<1> QED BY <1>1, <1>2 DEF Carries

\* So it does over one that sends and one that does not.
LEMMA GoesCarries ==
    ASSUME NEW x, NEW y, NEW z, NEW q, Goes(x, y, q), Carries(y, z, q)
    PROVE  Goes(x, z, q)
<1>1. z.intent.quote.canSolve => z.intent.quote \in {x.intent.quote, q}
  BY DEF Goes, Carries
<1>2. \A a \in z.asks : a.op = "status" => a \in x.asks \/ a.read = "unread"
  BY DEF Goes, Carries
<1>3. Sends(x, z)
  <2> SUFFICES ASSUME NEW a \in z.asks, a.op = "execute", a \notin x.asks
               PROVE  a.read = "unread" /\ a.intentId = z.intent.intentId /\ InFlight(z)
    BY DEF Sends
  <2>1. a \in y.asks /\ a.read = "unread" /\ a.intentId = y.intent.intentId /\ InFlight(y)
    BY DEF Carries, Goes, Sends
  <2> QED BY <2>1, StatusSets DEF Carries, InFlight
<1>4. z.intent.status \in QUOTE_BUSY_STATES => z.intent.intentId = x.intent.intentId
  BY DEF Goes, Carries
<1> QED BY <1>1, <1>2, <1>3, <1>4 DEF Goes, Carries

\* Steps along compose.
LEMMA AlongTrans ==
    ASSUME NEW x, NEW y, NEW z, NEW q, Along(x, y, q), Along(y, z, q)
    PROVE  Along(x, z, q)
<1>1. Carries(x, z, q)
  BY CarriesTrans DEF Along
<1>2. Signs(x, z)
  BY DEF Along, Signs, Carries
<1>3. Watches(x, z)
  BY DEF Along, Watches, Carries
<1>4. \A a \in z.asks : a.op = "status" => a \in x.asks \/ ReadFor(x, a)
  BY DEF Along, Watches, ReadFor
<1> QED BY <1>1, <1>2, <1>3, <1>4 DEF Along

\* Nothing changed goes along.
LEMMA AlongSelf ==
    ASSUME NEW x, NEW q
    PROVE  Along(x, x, q)
BY DEF Along, Carries, Signs, Watches

\* What goes along keeps the invariant.
LEMMA AlongOrdered ==
    ASSUME NEW x, Ordered(x), NEW y, Good(y), NEW q, Along(x, y, q)
    PROVE  Ordered(y)
<1>1. InFlight(y) <=> InFlight(x)
  BY DEF Along, Carries
<1>2. InFlight(y) => y.intent.intentId = x.intent.intentId
  BY StatusSets DEF Along, Carries, InFlight
<1>3. y.sign.stage = "execute" => /\ InFlight(y) /\ x.sign.stage = "execute"
                                  /\ y.sign.id = x.sign.id /\ y.sign.request = x.sign.request
  BY StatusSets DEF Good, CeremonySafe, InFlight, Along, Signs
<1>4. y.intent.reconciling => InFlight(y) /\ y.sign.stage # "execute"
  BY <1>1, <1>3 DEF Ordered, Along
<1>5. y.intent.status \in QUOTE_BUSY_STATES => y.intent.intentId # None
  BY DEF Ordered, Along, Carries
<1>6. y.poll.live => armed(y, "poll") \/ y.intent.pollExhausted \/ ~InFlight(y)
  BY <1>1 DEF Ordered, Along, Watches, armed
<1>7. ASSUME y.poll.live, NEW a \in y.asks, a.op = "status", a.id = y.poll.gen
      PROVE  a.intentId = y.poll.intentId /\ ~y.poll.resend
  BY <1>7 DEF Ordered, Along, Watches, ReadFor
<1>8. armed(y, "expiry") => y.watched.expiry # Never
  BY DEF Ordered, Along, Watches, armed
<1>9. y.sign.stage = "execute" => y.sign.request = y.intent.intentId
  BY <1>2, <1>3 DEF Ordered
<1>10. ASSUME y.sign.stage # "none", NEW a \in y.asks, a.op = "execute", a.id = y.sign.id
       PROVE  y.sign.stage = "execute" /\ a.intentId = y.intent.intentId
  <2>1. a \in x.asks
    BY <1>10 DEF Along, Carries
  <2>2. x.sign.stage # "none" /\ a.id = x.sign.id
    BY <1>10 DEF Along, Signs
  <2>3. x.sign.stage = "execute" /\ a.intentId = x.intent.intentId
    BY <1>10, <2>1, <2>2 DEF Ordered
  <2>4. y.sign.stage = "execute"
    BY <1>10, <2>3 DEF Along, Signs
  <2> QED BY <1>2, <1>3, <2>3, <2>4
<1> QED BY <1>4, <1>5, <1>6, <1>7, <1>8, <1>9, <1>10 DEF Ordered

-----------------------------------------------------------------------------
(* What goes along. *)

\* The intent j after the intent i, when the order stays.
Onward(i, j, q) ==
    /\ i.status \in POLL_INFLIGHT_STATES <=> j.status \in POLL_INFLIGHT_STATES
    /\ j.status \in QUOTE_BUSY_STATES =>
          i.status \in QUOTE_BUSY_STATES /\ j.intentId = i.intentId
    /\ j.status \in Claimed => i.status \in Claimed
    /\ j.quote.canSolve => j.quote \in {i.quote, q}
    /\ j.intentId \in {i.intentId, None, q.intent}
    /\ j.reconciling => i.reconciling
    /\ i.status \in POLL_INFLIGHT_STATES /\ i.pollExhausted => j.pollExhausted

\* The fields of a model that the order reads.
SameWatch(x, y) ==
    /\ y.poll = x.poll /\ y.watched.expiry = x.watched.expiry
    /\ y.timers["poll"] = x.timers["poll"] /\ y.timers["expiry"] = x.timers["expiry"]

\* Nothing changed is onward.
LEMMA OnwardSelf ==
    ASSUME NEW i, NEW q
    PROVE  Onward(i, i, q)
BY DEF Onward

\* A step that leaves the poll alone and sends nothing.
LEMMA AlongFrame ==
    ASSUME NEW x, NEW y, NEW q, SameWatch(x, y), Signs(x, y), Onward(x.intent, y.intent, q),
           \A a \in y.asks : a.op \in {"execute", "status"} => a \in x.asks
    PROVE  Along(x, y, q)
BY DEF SameWatch, Onward, Along, Carries, Watches, InFlight

\* A step that touches none of it.
LEMMA AlongAgrees ==
    ASSUME NEW x, NEW y, NEW q, SameWatch(x, y), y.sign = x.sign, y.intent = x.intent,
           y.asks = x.asks
    PROVE  Along(x, y, q)
BY OnwardSelf, AlongFrame DEF Signs

\* Arming a timer of a quote or a ceremony.
LEMMA SetTimerAlong ==
    ASSUME NEW x, Typed(x), NEW t \in TimerName \ {"poll", "expiry"}, NEW d \in Times, NEW q
    PROVE  Typed(setTimer(x, t, d)) /\ Along(x, setTimer(x, t, d), q)
<1> DEFINE y == setTimer(x, t, d)
<1>1. /\ Typed(y) /\ KeepsForm(x, y) /\ KeepsCeremony(x, y) /\ KeepsCalls(x, y)
      /\ y.intent = x.intent /\ y.timers = [x.timers EXCEPT ![t] = d]
  BY SetTimerFrame
<1> HIDE DEF y
<1>2. SameWatch(x, y)
  BY <1>1 DEF KeepsForm, SameWatch, Typed, Model, TimerName
<1> QED BY <1>1, <1>2, AlongAgrees DEF KeepsCeremony, KeepsCalls, y

\* Disarming one,
LEMMA ClearTimerAlong ==
    ASSUME NEW x, Typed(x), NEW t \in TimerName \ {"poll", "expiry"}, NEW q
    PROVE  Typed(clearTimer(x, t)) /\ Along(x, clearTimer(x, t), q)
<1> DEFINE y == clearTimer(x, t)
<1>1. /\ Typed(y) /\ KeepsForm(x, y) /\ KeepsCeremony(x, y) /\ KeepsCalls(x, y)
      /\ y.intent = x.intent /\ y.timers = [x.timers EXCEPT ![t] = Never]
  BY ClearTimerFrame
<1> HIDE DEF y
<1>2. SameWatch(x, y)
  BY <1>1 DEF KeepsForm, SameWatch, Typed, Model, TimerName
<1> QED BY <1>1, <1>2, AlongAgrees DEF KeepsCeremony, KeepsCalls, y

\* or several.
LEMMA ClearTimersAlong ==
    ASSUME NEW x, Typed(x), NEW ts, "poll" \notin ts, "expiry" \notin ts, NEW q
    PROVE  Typed(clearTimers(x, ts)) /\ Along(x, clearTimers(x, ts), q)
<1> DEFINE y == clearTimers(x, ts)
<1>1. /\ Typed(y) /\ KeepsForm(x, y) /\ KeepsCeremony(x, y) /\ KeepsCalls(x, y)
      /\ y.intent = x.intent
      /\ y.timers = [t \in TimerName |-> IF t \in ts THEN Never ELSE x.timers[t]]
  BY ClearTimersFrame
<1> HIDE DEF y
<1>2. SameWatch(x, y)
  BY <1>1 DEF KeepsForm, SameWatch, TimerName
<1> QED BY <1>1, <1>2, AlongAgrees DEF KeepsCeremony, KeepsCalls, y

\* A patch of the intent that is onward.
LEMMA PatchAlong ==
    ASSUME NEW x, Typed(x), NEW i \in Intent, NEW q, Onward(x.intent, i, q)
    PROVE  /\ Typed(patch(x, i)) /\ Along(x, patch(x, i), q)
           /\ patch(x, i).intent = i /\ patch(x, i).sign = x.sign
<1> DEFINE y == patch(x, i)
<1>1. /\ Typed(y) /\ KeepsForm(x, y) /\ KeepsCeremony(x, y) /\ KeepsCalls(x, y)
      /\ y.intent = i /\ y.timers = x.timers
  BY PatchFrame
<1> HIDE DEF y
<1>2. SameWatch(x, y) /\ Signs(x, y)
  BY <1>1 DEF KeepsForm, KeepsCeremony, SameWatch, Signs
<1> QED BY <1>1, <1>2, AlongFrame DEF KeepsCeremony, KeepsCalls, y

\* Abandoning a ceremony,
LEMMA AbandonAlong ==
    ASSUME NEW x, Typed(x), NEW q
    PROVE  /\ Typed(abandonSign(x)) /\ Along(x, abandonSign(x), q)
           /\ abandonSign(x).intent = x.intent /\ abandonSign(x).sign = NoSign
           /\ SameWatch(x, abandonSign(x)) /\ abandonSign(x).asks = x.asks
<1> DEFINE ts == (IF x.sign.stage # "none" THEN {"signPrompt"} ELSE {})
                 \cup (IF awaitingResend(x) THEN {"execute"} ELSE {})
           c == clearTimers(x, ts)
           y == abandonSign(x)
<1>1. /\ Typed(c) /\ KeepsForm(x, c) /\ c.intent = x.intent
      /\ c.timers = [t \in TimerName |-> IF t \in ts THEN Never ELSE x.timers[t]]
  BY ClearTimersFrame
<1>2. "poll" \notin ts /\ "expiry" \notin ts
  OBVIOUS
<1>3. y = [c EXCEPT !.sign = NoSign, !.pendingIntentSig = None,
                    !.awaitingPull = FALSE, !.isSigningPull = FALSE]
  BY DEF abandonSign
<1>4. /\ Typed(y) /\ KeepsForm(x, y) /\ y.intent = x.intent /\ y.asks = x.asks
      /\ y.sign = NoSign
  BY AbandonSignFrame DEF KeepsCalls
<1>5. y.timers = c.timers
  <2> HIDE DEF c, y
  <2> QED BY <1>1, <1>3 DEF Typed, Model
<1> HIDE DEF c, ts, y
<1>6. SameWatch(x, y)
  BY <1>1, <1>2, <1>4, <1>5 DEF KeepsForm, SameWatch, TimerName
<1>7. Signs(x, y)
  BY <1>4 DEF Signs, NoSign
<1> QED BY <1>4, <1>6, <1>7, OnwardSelf, AlongFrame DEF y

\* ending its sign flow,
LEMMA EndSignFlowAlong ==
    ASSUME NEW x, Typed(x), NEW f, NEW q
    PROVE  /\ Typed(endSignFlow(x, f)) /\ Along(x, endSignFlow(x, f), q)
           /\ endSignFlow(x, f).intent = x.intent /\ endSignFlow(x, f).sign = NoSign
<1> DEFINE y == endSignFlow(x, f)
<1>1. /\ Typed(y) /\ KeepsForm(x, y) /\ KeepsCalls(x, y)
      /\ y.sign = NoSign /\ y.intent = x.intent /\ y.timers = x.timers
  BY EndSignFlowFrame
<1> HIDE DEF y
<1>2. SameWatch(x, y) /\ Signs(x, y)
  BY <1>1 DEF KeepsForm, SameWatch, Signs, NoSign
<1> QED BY <1>1, <1>2, OnwardSelf, AlongFrame DEF KeepsCalls, y

\* superseding the quotes in the air,
LEMMA SupersedeAlong ==
    ASSUME NEW x, Typed(x), NEW q
    PROVE  /\ Typed(supersedeFlights(x)) /\ Along(x, supersedeFlights(x), q)
           /\ supersedeFlights(x).intent = x.intent
           /\ supersedeFlights(x).sign = x.sign
<1> DEFINE y == supersedeFlights(x)
<1>1. /\ Typed(y) /\ KeepsForm(x, y) /\ KeepsCeremony(x, y)
      /\ y.intent = x.intent /\ y.timers = x.timers /\ y.asks = x.asks
  BY SupersedeFrame
<1> HIDE DEF y
<1>2. SameWatch(x, y)
  BY <1>1 DEF KeepsForm, SameWatch
<1> QED BY <1>1, <1>2, AlongAgrees DEF KeepsCeremony, y

\* a call that sends nothing and reads nothing,
LEMMA PerformAlong ==
    ASSUME NEW x, Typed(x), NEW a \in Ask, a.op \notin {"execute", "status"}, NEW q
    PROVE  /\ Typed(perform(x, a)) /\ Along(x, perform(x, a), q)
           /\ perform(x, a).intent = x.intent
<1> DEFINE y == perform(x, a)
<1>1. /\ Typed(y) /\ KeepsForm(x, y) /\ KeepsCeremony(x, y)
      /\ y.intent = x.intent /\ y.timers = x.timers
  BY PerformFrame
<1>2. y.asks = x.asks \cup {a}
  BY DEF perform, Typed, Model
<1> HIDE DEF y
<1>3. SameWatch(x, y) /\ Signs(x, y)
  BY <1>1 DEF KeepsForm, KeepsCeremony, SameWatch, Signs
<1> QED BY <1>1, <1>2, <1>3, OnwardSelf, AlongFrame DEF y

\* and the flights and the allocations that wait for them.
LEMMA FlightsAlong ==
    ASSUME NEW x, Typed(x), NEW q
    PROVE  /\ \A ref, ok : /\ Typed(endAllocation(x, ref, ok))
                           /\ Along(x, endAllocation(x, ref, ok), q)
                           /\ endAllocation(x, ref, ok).intent = x.intent
           /\ \A id : /\ Typed(withoutFlight(x, id)) /\ Along(x, withoutFlight(x, id), q)
                      /\ withoutFlight(x, id).intent = x.intent
           /\ \A g \in Flight : /\ Typed(putFlight(x, g)) /\ Along(x, putFlight(x, g), q)
                                /\ putFlight(x, g).intent = x.intent
<1>1. ASSUME NEW y, Typed(y), KeepsForm(x, y), KeepsCeremony(x, y), y.intent = x.intent,
             y.timers = x.timers, y.asks = x.asks
      PROVE  Along(x, y, q)
  <2>1. SameWatch(x, y)
    BY <1>1 DEF KeepsForm, SameWatch
  <2> QED BY <1>1, <2>1, AlongAgrees DEF KeepsCeremony
<1>2. ASSUME NEW ref, NEW ok
      PROVE  /\ Typed(endAllocation(x, ref, ok)) /\ Along(x, endAllocation(x, ref, ok), q)
             /\ endAllocation(x, ref, ok).intent = x.intent
  BY <1>1, EndAllocationFrame
<1>3. ASSUME NEW id
      PROVE  /\ Typed(withoutFlight(x, id)) /\ Along(x, withoutFlight(x, id), q)
             /\ withoutFlight(x, id).intent = x.intent
  BY <1>1, WithoutFlightFrame DEF KeepsCalls
<1>4. ASSUME NEW g \in Flight
      PROVE  /\ Typed(putFlight(x, g)) /\ Along(x, putFlight(x, g), q)
             /\ putFlight(x, g).intent = x.intent
  BY <1>1, PutFlightFrame DEF KeepsCalls
<1> QED BY <1>2, <1>3, <1>4

-----------------------------------------------------------------------------
(* Status moves. *)

\* A move changes neither the poll nor what is watched, and at most ends the ceremony.
LEMMA MoveFrame ==
    ASSUME NEW x, Typed(x), NEW to \in IntentStatus, NEW u \in Intent
    PROVE  LET y == transition(x, to, u)
           IN  /\ Typed(y) /\ SameWatch(x, y) /\ y.asks = x.asks
               /\ y.sign = x.sign \/ (y.sign = NoSign /\ leaves(x, to))
               /\ y = x \/ (canTransitionTo(x.intent.status, to) /\ y.intent = movedTo(u, to))
               /\ canTransitionTo(x.intent.status, to) => y.intent = movedTo(u, to)
<1> DEFINE from == x.intent.status
           v == movedTo(u, to)
           moved == patch(x, v)
           next == IF to \in QUOTE_BUSY_STATES /\ from \notin QUOTE_BUSY_STATES
                   THEN supersedeFlights(moved) ELSE moved
           y == transition(x, to, u)
<1>1. y = IF ~canTransitionTo(from, to) THEN x
          ELSE IF leaves(x, to) THEN abandonSign(next) ELSE next
  BY DEF transition, leaves, movedTo
<1>2. v \in Intent
  BY DEF Intent, movedTo
<1> HIDE DEF v
<1>3. /\ Typed(moved) /\ SameWatch(x, moved) /\ moved.sign = x.sign
      /\ moved.intent = v /\ moved.asks = x.asks
  BY <1>2, PatchFrame DEF KeepsForm, KeepsCeremony, KeepsCalls, SameWatch
<1> HIDE DEF moved
<1>4. /\ Typed(next) /\ SameWatch(x, next) /\ next.sign = x.sign
      /\ next.intent = v /\ next.asks = x.asks
  BY <1>3, SupersedeFrame DEF KeepsForm, KeepsCeremony, SameWatch
<1> HIDE DEF next
<1>5. CASE ~canTransitionTo(from, to)
  BY <1>1, <1>5 DEF SameWatch
<1>6. CASE canTransitionTo(from, to) /\ leaves(x, to)
  <2> DEFINE z == abandonSign(next)
  <2>1. /\ Typed(z) /\ SameWatch(next, z) /\ z.sign = NoSign
        /\ z.intent = next.intent /\ z.asks = next.asks
    BY <1>4, AbandonAlong
  <2>2. y = z
    BY <1>1, <1>6
  <2> HIDE DEF z, y
  <2> QED BY <1>4, <1>6, <2>1, <2>2 DEF SameWatch, v, y
<1>7. CASE canTransitionTo(from, to) /\ ~leaves(x, to)
  <2>1. y = next
    BY <1>1, <1>7
  <2> HIDE DEF y
  <2> QED BY <1>4, <1>7, <2>1 DEF v, y
<1> QED BY <1>5, <1>6, <1>7

\* A move of what is not in flight to where nothing is goes along.
LEMMA MoveAlong ==
    ASSUME NEW x, Typed(x), ~InFlight(x), NEW to \in IntentStatus \ QUOTE_BUSY_STATES,
           NEW u \in Intent, NEW q,
           u.reconciling => x.intent.reconciling,
           u.quote.canSolve => u.quote \in {x.intent.quote, q},
           u.intentId \in {x.intent.intentId, None, q.intent}
    PROVE  /\ Typed(transition(x, to, u)) /\ Along(x, transition(x, to, u), q)
           /\ x.intent.status \notin QUOTE_BUSY_STATES
                 => transition(x, to, u).intent.status \notin QUOTE_BUSY_STATES
<1> DEFINE y == transition(x, to, u)
<1>1. /\ Typed(y) /\ SameWatch(x, y) /\ y.asks = x.asks
      /\ y.sign = x.sign \/ y.sign = NoSign
      /\ y = x \/ y.intent = movedTo(u, to)
  BY MoveFrame
<1>2. /\ movedTo(u, to).status = to /\ movedTo(u, to).quote = u.quote
      /\ movedTo(u, to).intentId = u.intentId
      /\ movedTo(u, to).reconciling = u.reconciling
  BY DEF movedTo, Intent
<1> HIDE DEF y
<1>3. Onward(x.intent, y.intent, q)
  BY <1>1, <1>2, StatusSets DEF Onward, InFlight
<1>4. Signs(x, y)
  BY <1>1 DEF Signs, NoSign
<1> QED BY <1>1, <1>2, <1>3, <1>4, AlongFrame DEF y

-----------------------------------------------------------------------------
(* Quoting: no order is on screen, and none comes on. *)

\* A patch from rest to rest.
LEMMA RestOnward ==
    ASSUME NEW i, NEW j, NEW q, i.status \notin QUOTE_BUSY_STATES, j.status \notin QUOTE_BUSY_STATES,
           j.reconciling => i.reconciling, j.quote.canSolve => j.quote \in {i.quote, q},
           j.intentId \in {i.intentId, None, q.intent}
    PROVE  Onward(i, j, q)
BY StatusSets DEF Onward

\* Sending a quote's request, or dropping it.
LEMMA SendQuoteAlong ==
    ASSUME NEW x, Typed(x), x.intent.status \notin QUOTE_BUSY_STATES, NEW g \in Flight, NEW q
    PROVE  Along(x, sendQuote(x, g), q)
<1> DEFINE told == endAllocation(x, g.ref, FALSE)
           dropped == withoutFlight(told, g.id)
           bare == [x.intent EXCEPT !.quote = NoQuote]
           failed == [x.intent EXCEPT !.status = "failed"]
           next == IF g.silent THEN x ELSE transition(x, "quoting", x.intent)
           sent == [g EXCEPT !.stage = "api"]
           ask == [NoAsk EXCEPT !.op = "quote", !.id = g.id]
           put == putFlight(next, sent)
<1>1. x.intent \in Intent /\ x.intent.quote \in Quote
  BY DEF Typed, Model, Intent
<1>2. Typed(dropped) /\ Along(x, dropped, q) /\ dropped.intent = x.intent
  <2>1. Typed(told) /\ Along(x, told, q) /\ told.intent = x.intent
    BY FlightsAlong
  <2> HIDE DEF told
  <2>2. Typed(dropped) /\ Along(told, dropped, q) /\ dropped.intent = told.intent
    BY <2>1, FlightsAlong
  <2> HIDE DEF dropped
  <2> QED BY <2>1, <2>2, AlongTrans
<1> HIDE DEF dropped
<1>3. /\ bare \in Intent /\ bare.reconciling = x.intent.reconciling /\ ~bare.quote.canSolve
      /\ failed \in Intent /\ failed.status = "failed" /\ failed.quote = x.intent.quote
      /\ failed.reconciling = x.intent.reconciling
      /\ bare.intentId = x.intent.intentId /\ failed.intentId = x.intent.intentId
  BY <1>1, NoQuoteType DEF Intent, IntentStatus, NoQuote
<1> HIDE DEF bare, failed
<1>4. /\ "quoting" \in IntentStatus \ QUOTE_BUSY_STATES /\ "failed" \notin QUOTE_BUSY_STATES
      /\ ~InFlight(x) /\ ~InFlight(dropped)
  BY <1>2, StatusSets DEF IntentStatus, QUOTE_BUSY_STATES, InFlight
<1>5. Along(dropped, transition(dropped, "quoting", bare), q)
  BY <1>2, <1>3, <1>4, MoveAlong
<1>6. Along(dropped, patch(dropped, failed), q)
  <2>1. Onward(dropped.intent, failed, q)
    BY <1>2, <1>3, <1>4, RestOnward
  <2> QED BY <1>2, <1>3, <2>1, PatchAlong
<1>7. Typed(next) /\ Along(x, next, q)
  BY <1>1, <1>4, MoveAlong, AlongSelf
<1>8. sent \in Flight /\ ask \in Ask /\ ask.op = "quote"
  BY DEF Flight, Ask, NoAsk, OrNone
<1> HIDE DEF next, sent, ask
<1>9. Typed(put) /\ Along(next, put, q)
  BY <1>7, <1>8, FlightsAlong
<1> HIDE DEF put
<1>10. Along(put, perform(put, ask), q)
  BY <1>8, <1>9, PerformAlong
<1>11. \/ sendQuote(x, g) = dropped
       \/ sendQuote(x, g) = transition(dropped, "quoting", bare)
       \/ sendQuote(x, g) = patch(dropped, failed)
       \/ sendQuote(x, g) = perform(put, ask)
  BY DEF sendQuote, dropped, told, bare, failed, put, next, sent, ask
<1>12. /\ Along(x, transition(dropped, "quoting", bare), q)
       /\ Along(x, patch(dropped, failed), q)
  BY <1>2, <1>5, <1>6, AlongTrans
<1>13. Along(x, perform(put, ask), q)
  BY <1>7, <1>9, <1>10, AlongTrans
<1> QED BY <1>2, <1>11, <1>12, <1>13

\* Starting a quote.
LEMMA StartQuoteAlong ==
    ASSUME NEW x, Typed(x), x.intent.status \notin QUOTE_BUSY_STATES, NEW o \in QuoteOpts, NEW q
    PROVE  Along(x, startQuote(x, o), q)
<1> DEFINE access == quoteAccessDecision(x.ctx.address # None, x.ctx.trade, o.ref # 0)
           g == [id |-> nextId(x), stage |-> "session", amount |-> o.amount,
                 silent |-> o.silent, ref |-> o.ref, ctx |-> x.ctx,
                 preview |-> access = "preview"]
           ask == [NoAsk EXCEPT !.op = "session", !.id = g.id]
           put == putFlight(x, g)
<1>1. nextId(x) \in Nat
  BY NextIdFresh
<1>2. g \in Flight
  <2>1. x.ctx \in Context
    BY DEF Typed, Model
  <2> HIDE DEF access
  <2> QED BY <1>1, <2>1 DEF QuoteOpts, Flight
<1>3. ask \in Ask /\ ask.op = "session"
  BY <1>1 DEF Ask, NoAsk, OrNone
<1>4. Along(x, endAllocation(x, o.ref, FALSE), q)
  BY FlightsAlong
<1>5. \/ startQuote(x, o) = endAllocation(x, o.ref, FALSE)
      \/ startQuote(x, o) = perform(put, ask)
      \/ startQuote(x, o) = sendQuote(x, g)
  BY DEF startQuote
<1> HIDE DEF g, ask
<1>6. Along(x, sendQuote(x, g), q)
  BY <1>2, SendQuoteAlong
<1>7. Typed(put) /\ Along(x, put, q)
  BY <1>2, FlightsAlong
<1> HIDE DEF put
<1>8. Along(put, perform(put, ask), q)
  BY <1>3, <1>7, PerformAlong
<1>9. Along(x, perform(put, ask), q)
  BY <1>7, <1>8, AlongTrans
<1> QED BY <1>4, <1>5, <1>6, <1>9

\* A flight overtaken by a form edit.
LEMMA DropStaleAlong ==
    ASSUME NEW x, Typed(x), NEW g, NEW q
    PROVE  Along(x, dropStaleFlight(x, g), q)
<1> DEFINE told == endAllocation(x, g.ref, FALSE)
           y == withoutFlight(told, g.id)
<1>1. Typed(told) /\ Along(x, told, q)
  BY FlightsAlong
<1> HIDE DEF told
<1>2. Along(told, y, q)
  BY <1>1, FlightsAlong
<1> HIDE DEF y
<1>3. Along(x, y, q)
  BY <1>1, <1>2, AlongTrans
<1> QED BY <1>3 DEF dropStaleFlight, told, y

\* A quote that threw.
LEMMA QuoteFailedAlong ==
    ASSUME NEW x, Typed(x), x.intent.status \notin QUOTE_BUSY_STATES, NEW g, NEW q
    PROVE  Along(x, quoteFailed(x, g), q)
<1> DEFINE next == endAllocation(x, g.ref, FALSE)
           failed == [x.intent EXCEPT !.status = "failed", !.quote = NoQuote]
           quoted == [next.intent EXCEPT !.status = "quoted"]
<1>1. Typed(next) /\ Along(x, next, q) /\ next.intent = x.intent
  BY FlightsAlong
<1> HIDE DEF next
<1>2. x.intent \in Intent
  BY DEF Typed, Model
<1>3. /\ failed \in Intent /\ failed.status \notin QUOTE_BUSY_STATES /\ ~failed.quote.canSolve
      /\ failed.reconciling = x.intent.reconciling /\ failed.intentId = x.intent.intentId
  BY <1>2, NoQuoteType, ZenonT(60) DEF Intent, IntentStatus, QUOTE_BUSY_STATES, NoQuote
<1>4. /\ quoted \in Intent /\ quoted.status \notin QUOTE_BUSY_STATES
      /\ quoted.quote = x.intent.quote /\ quoted.reconciling = x.intent.reconciling
      /\ quoted.intentId = x.intent.intentId
  BY <1>1, <1>2 DEF Intent, IntentStatus, QUOTE_BUSY_STATES
<1>5. \/ quoteFailed(x, g) = next
      \/ quoteFailed(x, g) = patch(next, failed)
      \/ quoteFailed(x, g) = patch(next, quoted)
  BY DEF quoteFailed, allocationFailed, next, failed, quoted
<1> HIDE DEF failed, quoted
<1>6. Along(next, patch(next, failed), q) /\ Along(next, patch(next, quoted), q)
  <2>1. Onward(next.intent, failed, q) /\ Onward(next.intent, quoted, q)
    BY <1>1, <1>3, <1>4, RestOnward
  <2> QED BY <1>1, <1>3, <1>4, <2>1, PatchAlong
<1> QED BY <1>1, <1>5, <1>6, AlongTrans

\* A session answer.
LEMMA OnSessionAlong ==
    ASSUME NEW x, Good(x), NEW id, NEW result, NEW q
    PROVE  Along(x, onSession(x, id, result), q)
<1> DEFINE found == {f \in x.flights : f.id = id /\ f.stage = "session"}
           g == CHOOSE f \in found : TRUE
           y == onSession(x, id, result)
           w == withoutFlight(x, id)
<1>1. CASE found = {}
  BY <1>1, AlongSelf DEF onSession
<1>2. CASE found # {}
  <2>1. g \in x.flights
    BY <1>2
  <2>2. y = dropStaleFlight(x, g) \/ y = sendQuote(x, g) \/ y = quoteFailed(w, g)
    BY <1>2 DEF onSession
  <2> HIDE DEF g, found, y
  <2>3. g \in Flight /\ x.intent.status \notin QUOTE_BUSY_STATES /\ Typed(x)
    BY <2>1, FlightAtRest DEF Good
  <2>4. Typed(w) /\ w.intent = x.intent /\ Along(x, w, q)
    BY <2>3, FlightsAlong
  <2> HIDE DEF w
  <2>5. Along(x, dropStaleFlight(x, g), q) /\ Along(x, sendQuote(x, g), q)
    BY <2>3, DropStaleAlong, SendQuoteAlong
  <2>6. Along(w, quoteFailed(w, g), q)
    BY <2>3, <2>4, QuoteFailedAlong
  <2>7. Along(x, quoteFailed(w, g), q)
    BY <2>4, <2>6, AlongTrans
  <2> QED BY <2>2, <2>5, <2>7 DEF y
<1> QED BY <1>1, <1>2

\* A refused quote.
LEMMA RefuseQuoteAlong ==
    ASSUME NEW x, Typed(x), x.intent.status \notin QUOTE_BUSY_STATES, NEW g, NEW shown \in Quote,
           ~shown.canSolve, NEW q
    PROVE  Along(x, refuseQuote(x, g, shown), q)
<1> DEFINE next == endAllocation(x, g.ref, FALSE)
           with == [x.intent EXCEPT !.quote = shown]
<1>1. Typed(next) /\ next.intent = x.intent /\ Along(x, next, q)
  BY FlightsAlong
<1>2. with \in Intent /\ with.quote = shown /\ with.reconciling = x.intent.reconciling
      /\ with.intentId = x.intent.intentId
  BY DEF Typed, Model, Intent
<1>3. "failed" \in IntentStatus \ QUOTE_BUSY_STATES
  BY DEF IntentStatus, QUOTE_BUSY_STATES
<1>4. refuseQuote(x, g, shown) = next \/ refuseQuote(x, g, shown) = transition(next, "failed", with)
  BY DEF refuseQuote
<1> HIDE DEF next, with
<1>5. Along(next, transition(next, "failed", with), q)
  BY <1>1, <1>2, <1>3, StatusSets, MoveAlong DEF InFlight
<1> QED BY <1>1, <1>4, <1>5, AlongTrans

\* What a form or a host owns has no part in the order.
LEMMA FormAlong ==
    ASSUME NEW x, Typed(x), NEW q
    PROVE  /\ \A k \in TradeKey : LET y == [x EXCEPT !.quotedTrade = k]
                                  IN  Typed(y) /\ Along(x, y, q) /\ y.intent = x.intent
           /\ \A p \in Plan : LET y == [x EXCEPT !.refresh = p]
                              IN  Typed(y) /\ Along(x, y, q) /\ y.intent = x.intent
           /\ \A p \in Addresses \X OrNone(Intents) :
                 LET y == [x EXCEPT !.seenDepositAddresses = @ \cup {p}]
                 IN  Typed(y) /\ Along(x, y, q) /\ y.intent = x.intent
           /\ \A c \in Context : LET y == [x EXCEPT !.ctx = c]
                                 IN  Typed(y) /\ Along(x, y, q) /\ y.intent = x.intent
           /\ \A h \in BOOLEAN : LET y == [x EXCEPT !.hidden = h]
                                 IN  Typed(y) /\ Along(x, y, q) /\ y.intent = x.intent
<1>1. ASSUME NEW y, y.poll = x.poll, y.watched = x.watched, y.timers = x.timers, y.sign = x.sign,
             y.asks = x.asks, y.intent = x.intent
      PROVE  Along(x, y, q)
  BY <1>1, AlongAgrees DEF SameWatch
<1>2. ASSUME NEW k \in TradeKey
      PROVE  LET y == [x EXCEPT !.quotedTrade = k]
             IN  Typed(y) /\ Along(x, y, q) /\ y.intent = x.intent
  <2> DEFINE y == [x EXCEPT !.quotedTrade = k]
  <2>1. /\ Typed(y) /\ y.poll = x.poll /\ y.watched = x.watched /\ y.timers = x.timers
        /\ y.sign = x.sign /\ y.asks = x.asks /\ y.intent = x.intent
    BY DEF Typed, Model, OrNone
  <2> HIDE DEF y
  <2> QED BY <1>1, <2>1 DEF y
<1>3. ASSUME NEW p \in Plan
      PROVE  LET y == [x EXCEPT !.refresh = p]
             IN  Typed(y) /\ Along(x, y, q) /\ y.intent = x.intent
  <2> DEFINE y == [x EXCEPT !.refresh = p]
  <2>1. /\ Typed(y) /\ y.poll = x.poll /\ y.watched = x.watched /\ y.timers = x.timers
        /\ y.sign = x.sign /\ y.asks = x.asks /\ y.intent = x.intent
    BY DEF Typed, Model, Plan
  <2> HIDE DEF y
  <2> QED BY <1>1, <2>1 DEF y
<1>4. ASSUME NEW p \in Addresses \X OrNone(Intents)
      PROVE  LET y == [x EXCEPT !.seenDepositAddresses = @ \cup {p}]
             IN  Typed(y) /\ Along(x, y, q) /\ y.intent = x.intent
  <2> DEFINE y == [x EXCEPT !.seenDepositAddresses = @ \cup {p}]
  <2>1. /\ Typed(y) /\ y.poll = x.poll /\ y.watched = x.watched /\ y.timers = x.timers
        /\ y.sign = x.sign /\ y.asks = x.asks /\ y.intent = x.intent
    BY DEF Typed, Model
  <2> HIDE DEF y
  <2> QED BY <1>1, <2>1 DEF y
<1>5. ASSUME NEW c \in Context
      PROVE  LET y == [x EXCEPT !.ctx = c]
             IN  Typed(y) /\ Along(x, y, q) /\ y.intent = x.intent
  <2> DEFINE y == [x EXCEPT !.ctx = c]
  <2>1. /\ Typed(y) /\ y.poll = x.poll /\ y.watched = x.watched /\ y.timers = x.timers
        /\ y.sign = x.sign /\ y.asks = x.asks /\ y.intent = x.intent
    BY DEF Typed, Model
  <2> HIDE DEF y
  <2> QED BY <1>1, <2>1 DEF y
<1>6. ASSUME NEW h \in BOOLEAN
      PROVE  LET y == [x EXCEPT !.hidden = h]
             IN  Typed(y) /\ Along(x, y, q) /\ y.intent = x.intent
  <2> DEFINE y == [x EXCEPT !.hidden = h]
  <2>1. /\ Typed(y) /\ y.poll = x.poll /\ y.watched = x.watched /\ y.timers = x.timers
        /\ y.sign = x.sign /\ y.asks = x.asks /\ y.intent = x.intent
    BY DEF Typed, Model
  <2> HIDE DEF y
  <2> QED BY <1>1, <2>1 DEF y
<1> QED BY <1>2, <1>3, <1>4, <1>5, <1>6

\* An accepted quote: no order yet.
LEMMA AcceptQuoteAlong ==
    ASSUME NEW x, Typed(x), x.intent.status \notin QUOTE_BUSY_STATES, NEW g \in Flight,
           NEW q \in Quote, NEW n \in Nat
    PROVE  Along(x, acceptQuote(x, g, q, n), q)
<1> DEFINE holder == IF q.preview THEN None ELSE g.ctx.address
           until == IF q.address # None THEN q.depositDeadline ELSE Never
           accepted == [x.intent EXCEPT
                           !.intentId = q.intent, !.quote = q,
                           !.quotedAddress = holder,
                           !.quotedChainId = g.ctx.chainId,
                           !.quotedFromAmount = g.amount,
                           !.depositDeadline = until]
           still == [accepted EXCEPT !.pollExhausted = FALSE]
           landed == \/ x.intent.status = "quoted"
                     \/ ~g.silent /\ canTransitionTo(x.intent.status, "quoted")
           next == IF g.silent THEN patch(x, accepted)
                   ELSE IF x.intent.status = "quoted" THEN patch(x, still)
                   ELSE transition(x, "quoted", still)
           traded == IF landed THEN [next EXCEPT !.quotedTrade = tradeKey(g.ctx)] ELSE next
           due == q.expiry - QUOTE_REFRESH_BUFFER
           plan == [on |-> TRUE, amount |-> g.amount, hasAllocatedDeposit |-> q.address # None]
           timed == setTimer(traded, "refresh", due)
           planned == IF due > n THEN [timed EXCEPT !.refresh = plan] ELSE traded
           y == acceptQuote(x, g, q, n)
<1>1. g.ctx \in Context /\ g.amount \in AmountField
  BY DEF Flight
<1>2. g.ctx.address \in OrNone(Wallets) /\ g.ctx.chainId \in OrNone(Chains)
  BY <1>1 DEF Context
<1>3. /\ q.intent \in OrNone(Intents) /\ q.expiry \in Int /\ q.depositDeadline \in Int
      /\ q.preview \in BOOLEAN
  BY DEF Quote, Times
<1>4. y = x \/ y = endAllocation(planned, g.ref, TRUE)
  <2>1. y = IF g.silent /\ x.intent.status # "quoted" THEN x
            ELSE endAllocation(planned, g.ref, TRUE)
    BY Zenon DEF acceptQuote, planned, timed, due, plan, traded, landed, next, still, accepted,
       holder, until
  <2> HIDE DEF y, planned
  <2> QED BY <2>1
<1> HIDE DEF y
<1>5. /\ accepted \in Intent /\ accepted.status = x.intent.status
      /\ accepted.quote = q /\ accepted.reconciling = x.intent.reconciling
      /\ accepted.intentId = q.intent
  <2>1. holder \in OrNone(Wallets) /\ until \in Times
    BY <1>2, <1>3 DEF OrNone, Times, Never
  <2>2. g.amount \in OrNone(AmountField) /\ x.intent \in Intent
    BY <1>1 DEF OrNone, Typed, Model
  <2> HIDE DEF holder, until
  <2> QED BY <1>2, <1>3, <2>1, <2>2 DEF Intent
<1> HIDE DEF accepted
<1>6. /\ still \in Intent /\ still.status = accepted.status
      /\ still.quote = accepted.quote /\ still.reconciling = accepted.reconciling
      /\ still.intentId = accepted.intentId
  BY <1>5 DEF Intent
<1> HIDE DEF still
<1>7. Typed(next) /\ Along(x, next, q)
  <2>1. Onward(x.intent, accepted, q) /\ Onward(x.intent, still, q)
    BY <1>5, <1>6, RestOnward
  <2>2. /\ Typed(patch(x, accepted)) /\ Along(x, patch(x, accepted), q)
        /\ Typed(patch(x, still)) /\ Along(x, patch(x, still), q)
    BY <1>5, <1>6, <2>1, PatchAlong
  <2>3. "quoted" \in IntentStatus \ QUOTE_BUSY_STATES /\ ~InFlight(x)
    BY StatusSets DEF IntentStatus, QUOTE_BUSY_STATES, InFlight
  <2>4. Typed(transition(x, "quoted", still)) /\ Along(x, transition(x, "quoted", still), q)
    BY <1>5, <1>6, <2>3, MoveAlong
  <2> QED BY <2>2, <2>4
<1> HIDE DEF next, landed
<1>8. Typed(traded) /\ Along(x, traded, q)
  <2>1. tradeKey(g.ctx) \in TradeKey
    BY <1>1, TradeKeyType
  <2>2. traded = next \/ (Typed(traded) /\ Along(next, traded, q))
    BY <1>7, <2>1, FormAlong
  <2> HIDE DEF traded
  <2> QED BY <1>7, <2>2, AlongTrans
<1> HIDE DEF traded
<1>9. due \in Times /\ plan \in Plan /\ "refresh" \in TimerName \ {"poll", "expiry"}
  BY <1>1, <1>3, MachineConstants DEF Times, Plan, TimerName
<1> HIDE DEF due, plan
<1>10. Typed(timed) /\ Along(x, timed, q)
  BY <1>8, <1>9, SetTimerAlong, AlongTrans
<1> HIDE DEF timed
<1>11. Typed(planned) /\ Along(x, planned, q)
  <2>1. planned = traded \/ (Typed(planned) /\ Along(timed, planned, q))
    BY <1>9, <1>10, FormAlong
  <2> HIDE DEF planned
  <2> QED BY <1>8, <1>10, <2>1, AlongTrans
<1> HIDE DEF planned
<1>12. Along(planned, endAllocation(planned, g.ref, TRUE), q)
  BY <1>11, FlightsAlong
<1>13. Along(x, endAllocation(planned, g.ref, TRUE), q)
  BY <1>11, <1>12, AlongTrans
<1> QED BY <1>4, <1>13, AlongSelf DEF y

\* A quote answer, of any age.
LEMMA OnQuoteAlong ==
    ASSUME NEW x, Good(x), NEW id, NEW reply, reply.quote \in Quote, NEW n \in Nat
    PROVE  Along(x, onQuote(x, id, reply, n), reply.quote)
<1> DEFINE found == {f \in x.flights : f.id = id /\ f.stage = "api"}
           g == CHOOSE f \in found : TRUE
           y == onQuote(x, id, reply, n)
           w == withoutFlight(x, id)
           q == reply.quote
           p == <<q.address, q.intent>>
           seen == [w EXCEPT !.seenDepositAddresses = @ \cup {p}]
           shown == IF reply.success /\ ~q.canSolve THEN q ELSE NoQuote
<1>1. CASE found = {}
  BY <1>1, AlongSelf DEF onQuote
<1>2. CASE found # {}
  <2>1. g \in x.flights
    BY <1>2
  <2>2. \/ y = dropStaleFlight(x, g)
        \/ y = quoteFailed(w, g)
        \/ y = refuseQuote(w, g, shown)
        \/ y = acceptQuote(w, g, q, n)
        \/ y = refuseQuote(w, g, NoQuote)
        \/ q.address # None /\ y = acceptQuote(seen, g, q, n)
    BY <1>2 DEF onQuote
  <2> HIDE DEF g, found, y
  <2>3. g \in Flight /\ x.intent.status \notin QUOTE_BUSY_STATES /\ Typed(x)
    BY <2>1, FlightAtRest DEF Good
  <2>4. Typed(w) /\ w.intent = x.intent /\ Along(x, w, q)
    BY <2>3, FlightsAlong
  <2> HIDE DEF w
  <2>5. shown \in Quote /\ ~shown.canSolve /\ ~NoQuote.canSolve
    BY NoQuoteType DEF NoQuote
  <2>6. q.address # None => p \in Addresses \X OrNone(Intents)
    BY DEF Quote, OrNone
  <2>7. q \in Quote
    OBVIOUS
  <2> HIDE DEF q, p, shown
  <2>8. Along(x, dropStaleFlight(x, g), q) /\ Along(w, quoteFailed(w, g), q)
    BY <2>3, <2>4, DropStaleAlong, QuoteFailedAlong
  <2>9. Along(w, refuseQuote(w, g, shown), q) /\ Along(w, refuseQuote(w, g, NoQuote), q)
    BY <2>3, <2>4, <2>5, NoQuoteType, RefuseQuoteAlong
  <2>10. Along(w, acceptQuote(w, g, q, n), q)
    BY <2>3, <2>4, <2>7, AcceptQuoteAlong
  <2>11. q.address # None => Along(x, acceptQuote(seen, g, q, n), q)
    <3>1. SUFFICES ASSUME q.address # None PROVE Along(x, acceptQuote(seen, g, q, n), q)
      OBVIOUS
    <3>2. Typed(seen) /\ Along(w, seen, q) /\ seen.intent = w.intent
      BY <2>4, <2>6, <3>1, FormAlong
    <3> HIDE DEF seen
    <3>3. Along(seen, acceptQuote(seen, g, q, n), q)
      BY <2>3, <2>4, <2>7, <3>2, AcceptQuoteAlong
    <3> QED BY <2>4, <3>2, <3>3, AlongTrans
  <2>12. \A z : Along(w, z, q) => Along(x, z, q)
    BY <2>4, AlongTrans
  <2> QED BY <2>2, <2>8, <2>9, <2>10, <2>11, <2>12 DEF y, q
<1> QED BY <1>1, <1>2

-----------------------------------------------------------------------------
(* The ceremony. *)

\* A step that touches neither the order nor its ceremony.
Apartness(x, y) ==
    /\ Typed(y) /\ SameWatch(x, y)
    /\ y.intent = x.intent /\ y.sign = x.sign /\ y.asks = x.asks

\* Such a step goes along, and what it leaves out of flight stays so.
LEMMA ApartAlong ==
    ASSUME NEW x, NEW y, Apartness(x, y), NEW q
    PROVE  Along(x, y, q)
BY AlongAgrees DEF Apartness

\* The flags of the second tap and the held signature are apart.
LEMMA FlagsAlong ==
    ASSUME NEW x, Typed(x)
    PROVE  /\ \A b \in BOOLEAN : Apartness(x, [x EXCEPT !.awaitingPull = b])
           /\ \A b \in BOOLEAN : Apartness(x, [x EXCEPT !.isSigningPull = b])
           /\ \A s \in OrNone(Intents) : Apartness(x, [x EXCEPT !.pendingIntentSig = s])
<1>1. ASSUME NEW b \in BOOLEAN PROVE Apartness(x, [x EXCEPT !.awaitingPull = b])
  BY <1>1 DEF Typed, Model, Apartness, SameWatch
<1>2. ASSUME NEW b \in BOOLEAN PROVE Apartness(x, [x EXCEPT !.isSigningPull = b])
  BY <1>2 DEF Typed, Model, Apartness, SameWatch
<1>3. ASSUME NEW s \in OrNone(Intents) PROVE Apartness(x, [x EXCEPT !.pendingIntentSig = s])
  BY <1>3 DEF Typed, Model, Apartness, SameWatch
<1> QED BY <1>1, <1>2, <1>3

\* A flow that continues the one there is, or that no execute answers.
FreshFlow(x, f) ==
    \/ x.sign.stage \notin {"none", "execute"} /\ f.id = x.sign.id
    \/ \A a \in x.asks : a.op = "execute" => a.id # f.id

\* Putting such a flow, with nothing sent, goes along.
LEMMA FlowAlong ==
    ASSUME NEW x, Typed(x), NEW f \in SignFlow, f.stage # "execute", FreshFlow(x, f), NEW q
    PROVE  LET y == [x EXCEPT !.sign = f]
           IN  /\ Typed(y) /\ Along(x, y, q) /\ y.sign = f /\ y.intent = x.intent
               /\ y.asks = x.asks /\ SameWatch(x, y)
<1> DEFINE y == [x EXCEPT !.sign = f]
<1>1. /\ Typed(y) /\ KeepsForm(x, y) /\ KeepsCalls(x, y) /\ y.sign = f
      /\ y.intent = x.intent /\ y.timers = x.timers
  BY SignFrame
<1> HIDE DEF y
<1>2. SameWatch(x, y) /\ y.asks = x.asks
  BY <1>1 DEF KeepsForm, KeepsCalls, SameWatch
<1>3. Signs(x, y)
  BY <1>1, <1>2 DEF Signs, FreshFlow
<1> QED BY <1>1, <1>2, <1>3, OnwardSelf, AlongFrame DEF y

\* So does asking the wallet with it.
LEMMA AskAlong ==
    ASSUME NEW x, Typed(x), NEW a \in Ask, a.op \notin {"execute", "status"},
           NEW f \in SignFlow, f.stage # "execute", FreshFlow(x, f), NEW q
    PROVE  /\ Along(x, [perform(x, a) EXCEPT !.sign = f], q)
           /\ Along(x, [openPrompt(x, a) EXCEPT !.sign = f], q)
<1> DEFINE p == perform(x, a)
           o == openPrompt(x, a)
<1>1. /\ Typed(p) /\ KeepsForm(x, p) /\ KeepsCeremony(x, p)
      /\ p.intent = x.intent /\ p.timers = x.timers
  BY PerformFrame
<1>2. Along(x, p, q)
  BY PerformAlong
<1>3. FreshFlow(p, f)
  <2>1. p.asks = x.asks \cup {a}
    BY DEF perform, Typed, Model
  <2> HIDE DEF p
  <2> QED BY <1>1, <2>1 DEF FreshFlow, KeepsCeremony
<1>4. o = setTimer(p, "signPrompt", AtOnce)
  BY DEF openPrompt
<1> HIDE DEF p
<1>5. "signPrompt" \in TimerName \ {"poll", "expiry"} /\ AtOnce \in Times
  BY DEF TimerName, AtOnce, Times
<1>6. Typed(o) /\ Along(p, o, q) /\ o.asks = p.asks /\ o.sign = p.sign
  <2>1. Typed(setTimer(p, "signPrompt", AtOnce)) /\ Along(p, setTimer(p, "signPrompt", AtOnce), q)
    BY <1>1, <1>5, SetTimerAlong
  <2>2. KeepsCeremony(p, setTimer(p, "signPrompt", AtOnce))
        /\ KeepsCalls(p, setTimer(p, "signPrompt", AtOnce))
    BY <1>1, <1>5, SetTimerFrame
  <2> HIDE DEF o
  <2> QED BY <1>4, <2>1, <2>2 DEF KeepsCeremony, KeepsCalls
<1> HIDE DEF o
<1>7. FreshFlow(o, f)
  BY <1>3, <1>6 DEF FreshFlow
<1>8. Along(p, [p EXCEPT !.sign = f], q) /\ Along(o, [o EXCEPT !.sign = f], q)
  BY <1>1, <1>3, <1>6, <1>7, FlowAlong
<1>9. Along(x, o, q)
  BY <1>2, <1>6, AlongTrans
<1>10. Along(x, [p EXCEPT !.sign = f], q)
  BY <1>2, <1>8, AlongTrans
<1>11. Along(x, [o EXCEPT !.sign = f], q)
  BY <1>8, <1>9, AlongTrans
<1> QED BY <1>10, <1>11 DEF p, o

\* What is not in flight comes to rest along.
LEMMA RestAlong ==
    ASSUME NEW x, Typed(x), ~InFlight(x), NEW to \in IntentStatus \ QUOTE_BUSY_STATES, NEW q
    PROVE  Typed(transition(x, to, x.intent)) /\ Along(x, transition(x, to, x.intent), q)
<1>1. x.intent \in Intent
  BY DEF Typed, Model
<1> QED BY <1>1, MoveAlong

\* The statuses at rest a ceremony can come to.
LEMMA RestStatuses ==
    {"quoted", "failed", "expired", "completed", "refunded"} \subseteq IntentStatus \ QUOTE_BUSY_STATES
BY DEF IntentStatus, QUOTE_BUSY_STATES

\* A quote's expiry.
LEMMA TickExpiryAlong ==
    ASSUME NEW x, Typed(x), ~InFlight(x), NEW n, NEW q
    PROVE  Along(x, tickExpiry(x, n), q)
<1>1. tickExpiry(x, n) = x \/ tickExpiry(x, n) = transition(x, "expired", x.intent)
  BY DEF tickExpiry
<1> QED BY <1>1, RestAlong, RestStatuses, AlongSelf

\* The approval or the end of the flow after the first signature.
LEMMA CompletePullAlong ==
    ASSUME NEW x, Typed(x), ~InFlight(x), NEW f \in SignFlow, f.stage # "execute",
           FreshFlow(x, f), NEW q
    PROVE  Along(x, completePull(x, f), q)
<1> DEFINE y == completePull(x, f)
           held == [x EXCEPT !.sign = f]
           ask == [NoAsk EXCEPT !.op = "approval", !.id = f.id]
           g == [f EXCEPT !.stage = "approval"]
<1>1. \/ y = endSignFlow(x, f)
      \/ y = transition(held, "quoted", x.intent)
      \/ y = [perform(x, ask) EXCEPT !.sign = g]
  BY DEF completePull
<1> HIDE DEF y
<1>2. Along(x, endSignFlow(x, f), q)
  BY EndSignFlowAlong
<1>3. Along(x, transition(held, "quoted", x.intent), q)
  <2>1. Typed(held) /\ Along(x, held, q) /\ held.intent = x.intent
    BY FlowAlong
  <2> HIDE DEF held
  <2>2. Along(held, transition(held, "quoted", held.intent), q)
    BY <2>1, RestAlong, RestStatuses DEF InFlight
  <2> QED BY <2>1, <2>2, AlongTrans
<1>4. /\ ask \in Ask /\ ask.op = "approval"
      /\ g \in SignFlow /\ g.stage = "approval" /\ g.id = f.id
  BY DEF Ask, NoAsk, OrNone, SignFlow
<1> HIDE DEF ask, g
<1>5. Along(x, [perform(x, ask) EXCEPT !.sign = g], q)
  BY <1>4, AskAlong DEF FreshFlow
<1> QED BY <1>1, <1>2, <1>3, <1>5 DEF y

\* The second tap.
LEMMA BeginPullSignAlong ==
    ASSUME NEW x, Good(x), NEW n, NEW q
    PROVE  Along(x, beginPullSign(x, n), q)
<1> DEFINE y == beginPullSign(x, n)
           f == [NoSign EXCEPT !.stage = "approval", !.id = nextId(x),
                               !.origin = "pull", !.sig = x.pendingIntentSig]
           w == [x EXCEPT !.awaitingPull = FALSE]
           s == [x EXCEPT !.isSigningPull = TRUE]
<1>1. \/ y = x
      \/ /\ x.pendingIntentSig # None /\ x.sign.stage = "none"
         /\ y = transition(w, "quoted", x.intent) \/ y = completePull(s, f)
  BY DEF beginPullSign
<1>2. nextId(x) \in Nat /\ nextId(x) \notin {a.id : a \in x.asks}
  BY NextIdFresh DEF Good, idsHeld
<1>3. f \in SignFlow /\ f.stage = "approval" /\ f.id = nextId(x)
  BY <1>2, FieldTypes, NoSignType DEF SignFlow, NoSign
<1>4. FreshFlow(x, f)
  BY <1>2, <1>3 DEF FreshFlow
<1>5. Typed(x)
  BY DEF Good
<1>6. Apartness(x, w) /\ Apartness(x, s)
  BY <1>5, FlagsAlong
<1> HIDE DEF y, f, w, s
<1>7. CASE x.pendingIntentSig # None /\ x.sign.stage = "none"
  <2>1. ~InFlight(x)
    BY <1>7 DEF Good, CeremonySafe, InFlight, POLL_INFLIGHT_STATES
  <2>2. Along(w, transition(w, "quoted", w.intent), q)
    BY <1>6, <2>1, RestAlong, RestStatuses DEF Apartness, InFlight
  <2>3. FreshFlow(s, f)
    BY <1>4, <1>6 DEF Apartness, FreshFlow
  <2>4. Along(s, completePull(s, f), q)
    BY <1>3, <1>6, <2>1, <2>3, CompletePullAlong DEF Apartness, InFlight
  <2>5. Along(x, w, q) /\ Along(x, s, q) /\ w.intent = x.intent
    BY <1>6, ApartAlong DEF Apartness
  <2>6. Along(x, transition(w, "quoted", x.intent), q)
    BY <2>2, <2>5, AlongTrans
  <2>7. Along(x, completePull(s, f), q)
    BY <2>4, <2>5, AlongTrans
  <2> QED BY <1>1, <2>6, <2>7, AlongSelf DEF y
<1> QED BY <1>1, <1>7, AlongSelf DEF y

\* A prompt that failed.
LEMMA SignFlowFailedAlong ==
    ASSUME NEW x, Typed(x), ~InFlight(x), NEW failure, NEW q
    PROVE  Along(x, signFlowFailed(x, failure), q)
<1> DEFINE y == signFlowFailed(x, failure)
           quiet == clearTimer(x, "signPrompt")
           next == endSignFlow(quiet, x.sign)
           w == [next EXCEPT !.awaitingPull = FALSE]
<1>1. \/ y = x
      \/ y = transition(next, "failed", x.intent) \/ y = transition(next, "quoted", x.intent)
      \/ y = transition(w, "quoted", x.intent) \/ y = next
  BY DEF signFlowFailed
<1> HIDE DEF y
<1>2. "signPrompt" \in TimerName \ {"poll", "expiry"} /\ "signPrompt" \in TimerName
  BY DEF TimerName
<1>3. Typed(quiet) /\ Along(x, quiet, q) /\ quiet.intent = x.intent
  BY <1>2, ClearTimerAlong, ClearTimerFrame
<1> HIDE DEF quiet
<1>4. Typed(next) /\ Along(quiet, next, q) /\ next.intent = quiet.intent
  BY <1>3, EndSignFlowAlong
<1> HIDE DEF next
<1>5. Apartness(next, w)
  BY <1>4, FlagsAlong
<1> HIDE DEF w
<1>6. Typed(w) /\ Along(next, w, q) /\ w.intent = next.intent
  BY <1>5, ApartAlong DEF Apartness
<1>7. Along(x, next, q) /\ next.intent = x.intent /\ w.intent = x.intent
  BY <1>3, <1>4, <1>6, AlongTrans
<1>8. Along(x, w, q)
  BY <1>6, <1>7, AlongTrans
<1>9. ~InFlight(next) /\ ~InFlight(w)
  BY <1>7 DEF InFlight
<1>10. /\ Along(next, transition(next, "failed", next.intent), q)
       /\ Along(next, transition(next, "quoted", next.intent), q)
       /\ Along(w, transition(w, "quoted", w.intent), q)
  BY <1>4, <1>6, <1>9, RestAlong, RestStatuses
<1>11. /\ Along(x, transition(next, "failed", x.intent), q)
       /\ Along(x, transition(next, "quoted", x.intent), q)
  BY <1>7, <1>10, AlongTrans
<1>12. Along(x, transition(w, "quoted", x.intent), q)
  BY <1>7, <1>8, <1>10, AlongTrans
<1> QED BY <1>1, <1>7, <1>11, <1>12, AlongSelf DEF y

\* An approval's answer.
LEMMA OnApprovalAlong ==
    ASSUME NEW x, Good(x), NEW id, NEW result, NEW q
    PROVE  Along(x, onApproval(x, id, result), q)
<1> DEFINE y == onApproval(x, id, result)
           f == x.sign
           ask == [NoAsk EXCEPT !.op = "signPull", !.id = f.id, !.intentId = x.intent.quote.intent]
           g == [f EXCEPT !.stage = "pull"]
<1>1. CASE f.stage # "approval"
  BY <1>1, AlongSelf DEF onApproval
<1>2. CASE f.stage = "approval"
  <2>1. \/ y = x \/ y = signFlowFailed(x, result) \/ y = transition(x, "quoted", x.intent)
        \/ y = endSignFlow(x, f) \/ y = [openPrompt(x, ask) EXCEPT !.sign = g]
    BY <1>2 DEF onApproval
  <2>2. ~InFlight(x) /\ Typed(x)
    BY <1>2 DEF Good, CeremonySafe, InFlight, POLL_INFLIGHT_STATES
  <2>3. /\ ask \in Ask /\ ask.op = "signPull"
        /\ g \in SignFlow /\ g.stage = "pull" /\ g.id = x.sign.id
    <3>1. f \in SignFlow /\ x.intent.quote.intent \in OrNone(Intents) /\ f.id = x.sign.id
      BY FieldTypes DEF Quote
    <3> HIDE DEF f
    <3> QED BY <3>1 DEF Ask, NoAsk, OrNone, SignFlow
  <2> HIDE DEF y, ask, g
  <2>4. Along(x, [openPrompt(x, ask) EXCEPT !.sign = g], q)
    <3>1. FreshFlow(x, g)
      BY <1>2, <2>3 DEF FreshFlow
    <3> QED BY <2>2, <2>3, <3>1, AskAlong
  <2>5. Along(x, signFlowFailed(x, result), q) /\ Along(x, endSignFlow(x, f), q)
    BY <2>2, SignFlowFailedAlong, EndSignFlowAlong
  <2>6. Along(x, transition(x, "quoted", x.intent), q)
    BY <2>2, RestAlong, RestStatuses
  <2> QED BY <2>1, <2>4, <2>5, <2>6, AlongSelf DEF y
<1> QED BY <1>1, <1>2

\* Cancel.
LEMMA CancelSignAlong ==
    ASSUME NEW x, Typed(x), NEW q
    PROVE  Along(x, cancelSignRequested(x), q)
<1> DEFINE y == abandonSign(x)
<1>1. /\ Typed(y) /\ Along(x, y, q) /\ y.intent = x.intent
  BY AbandonAlong
<1>2. \/ cancelSignRequested(x) = x
      \/ ~InFlight(x) /\ cancelSignRequested(x) = transition(y, "quoted", x.intent)
  BY DEF cancelSignRequested, InFlight, POLL_INFLIGHT_STATES
<1> HIDE DEF y
<1>3. ~InFlight(x) => Along(y, transition(y, "quoted", y.intent), q)
  BY <1>1, RestAlong, RestStatuses DEF InFlight
<1>4. ~InFlight(x) => Along(x, transition(y, "quoted", x.intent), q)
  BY <1>1, <1>3, AlongTrans
<1> QED BY <1>2, <1>4, AlongSelf

\* Giving up the resends: the order stays, with no request out.
LEMMA StopResendingAlong ==
    ASSUME NEW x, Typed(x), NEW f, NEW q
    PROVE  Along(x, stopResending(x, f), q)
<1> DEFINE e == endSignFlow(x, f)
           i == [x.intent EXCEPT !.notSent = TRUE]
<1>1. Typed(e) /\ Along(x, e, q) /\ e.intent = x.intent
  BY EndSignFlowAlong
<1>2. i \in Intent /\ Onward(x.intent, i, q)
  BY DEF Typed, Model, Intent, Onward
<1> HIDE DEF e, i
<1>3. Along(e, patch(e, i), q)
  BY <1>1, <1>2, PatchAlong
<1>4. Along(x, patch(e, i), q)
  BY <1>1, <1>3, AlongTrans
<1> QED BY <1>4 DEF stopResending, e, i

\* A refusal before acceptance.
LEMMA OnNotAcceptedAlong ==
    ASSUME NEW x, Typed(x), x.sign.stage = "execute", NEW r \in Int, NEW n \in Nat, NEW q
    PROVE  Along(x, onNotAccepted(x, x.sign, r, n), q)
<1> DEFINE quiet == [x EXCEPT !.pendingIntentSig = None]
           delay == decideExecuteResend(x.sign.resends, r, executeDeadline(x.intent.quote), n)
           d == n + delay
           t == setTimer(quiet, "execute", d)
           g == [x.sign EXCEPT !.resendAt = d]
           y == [t EXCEPT !.sign = g]
<1>1. Apartness(x, quiet)
  <2>1. None \in OrNone(Intents)
    BY DEF OrNone
  <2> QED BY <2>1, FlagsAlong
<1> HIDE DEF quiet
<1>2. Typed(quiet) /\ Along(x, quiet, q)
  BY <1>1, ApartAlong DEF Apartness
<1>3. CASE delay = Never
  <2>1. onNotAccepted(x, x.sign, r, n) = stopResending(quiet, x.sign)
    BY <1>3 DEF onNotAccepted, quiet
  <2>2. Along(quiet, stopResending(quiet, x.sign), q)
    BY <1>2, StopResendingAlong
  <2> QED BY <1>2, <2>1, <2>2, AlongTrans
<1>4. CASE delay # Never
  <2>1. onNotAccepted(x, x.sign, r, n) = y
    BY <1>4 DEF onNotAccepted, y, t, g, d, delay, quiet
  <2>2. d \in Nat
    BY <1>4, ResendDelay
  <2> HIDE DEF delay, d
  <2>3. /\ g \in SignFlow /\ g.stage = "execute" /\ g.id = x.sign.id
        /\ g.request = x.sign.request
    BY <2>2 DEF SignFlow, Times, Typed, Model
  <2> HIDE DEF g
  <2>4. "execute" \in TimerName \ {"poll", "expiry"} /\ d \in Times
    BY <2>2 DEF TimerName, Times
  <2>5. Typed(t) /\ Along(quiet, t, q)
    BY <1>2, <2>4, SetTimerAlong
  <2>6. KeepsCeremony(quiet, t)
    BY <1>2, <2>4, SetTimerFrame
  <2> HIDE DEF t
  <2>7. /\ Typed(y) /\ KeepsForm(t, y) /\ KeepsCalls(t, y) /\ y.sign = g
        /\ y.intent = t.intent /\ y.timers = t.timers
    BY <2>3, <2>5, SignFrame
  <2> HIDE DEF y
  <2>8. SameWatch(t, y) /\ y.asks = t.asks
    BY <2>7 DEF KeepsForm, KeepsCalls, SameWatch
  <2>9. Signs(t, y)
    BY <1>1, <2>3, <2>6, <2>7 DEF Signs, Apartness, KeepsCeremony
  <2>10. Along(t, y, q)
    BY <2>7, <2>8, <2>9, OnwardSelf, AlongFrame
  <2>11. Along(x, t, q)
    BY <1>2, <2>5, AlongTrans
  <2> QED BY <2>1, <2>10, <2>11, AlongTrans
<1> QED BY <1>3, <1>4

-----------------------------------------------------------------------------
(* What takes the order further: Confirm, a dispatch, a resend. *)

\* The order goes on, and what is known of it with it.
Proceeds(x, y, q) == Ordered(y) /\ Goes(x, y, q)

\* What goes along proceeds.
LEMMA AlongProceeds ==
    ASSUME NEW x, Ordered(x), NEW y, Good(y), NEW q, Along(x, y, q)
    PROVE  Proceeds(x, y, q)
BY AlongOrdered, AlongGoes DEF Proceeds

\* It may go along first, if it leaves the order as it is.
LEMMA AlongThenGoes ==
    ASSUME NEW x, NEW y, NEW z, NEW q, Along(x, y, q), y.intent = x.intent, Goes(y, z, q)
    PROVE  Goes(x, z, q)
<1>1. Sends(x, z)
  BY DEF Along, Carries, Goes, Sends
<1>2. \A a \in z.asks : a.op = "status" => a \in x.asks \/ a.read = "unread"
  BY DEF Along, Carries, Goes
<1> QED BY <1>1, <1>2 DEF Goes, InFlight

\* An order is taken from its quote: to its deposit, or to be signed.
LEMMA EnterOrdered ==
    ASSUME NEW x, Good(x), Ordered(x), x.intent.status = "quoted", x.intent.intentId # None,
           ~x.poll.live, NEW to \in {"awaiting_deposit", "signing"}
    PROVE  LET y == transition(x, to, x.intent)
           IN  /\ Typed(y) /\ Ordered(y) /\ SameWatch(x, y)
               /\ y.sign = x.sign /\ y.sign.stage = "none" /\ y.asks = x.asks
               /\ y.intent.status = to /\ y.intent.intentId = x.intent.intentId
               /\ y.intent.quote = x.intent.quote
<1> DEFINE y == transition(x, to, x.intent)
<1>1. canTransitionTo(x.intent.status, to) /\ ~leaves(x, to) /\ to \in IntentStatus
  BY DEF canTransitionTo, INTENT_STATUS_TRANSITIONS, leaves, IntentStatus
<1>2. /\ Typed(y) /\ SameWatch(x, y) /\ y.asks = x.asks /\ y.sign = x.sign
      /\ y.intent = movedTo(x.intent, to)
  BY <1>1, MoveFrame, FieldTypes DEF Good
<1>3. /\ y.intent.status = to /\ y.intent.intentId = x.intent.intentId
      /\ y.intent.quote = x.intent.quote /\ y.intent.reconciling = x.intent.reconciling
  BY <1>2, FieldTypes DEF movedTo, Intent
<1>4. x.sign.stage = "none"
  <2>1. x.sign.stage \in {"none", "intent", "approval", "pull", "execute"}
    BY FieldTypes DEF SignFlow
  <2> QED BY <2>1 DEF Good, CeremonySafe
<1>5. ~x.intent.reconciling
  BY DEF Ordered, InFlight, POLL_INFLIGHT_STATES
<1> HIDE DEF y
<1>6. Ordered(y)
  BY <1>2, <1>3, <1>4, <1>5 DEF Ordered, SameWatch, armed
<1> QED BY <1>2, <1>3, <1>4, <1>6 DEF y

\* Confirm.
LEMMA BeginSignGoes ==
    ASSUME NEW x, Good(x), Ordered(x), OrderQuoted(x.intent), x.poll.live => InFlight(x),
           NEW n, NEW q
    PROVE  Proceeds(x, beginSign(x, n), q)
<1> DEFINE k == x.intent.quote
           y == beginSign(x, n)
           s == transition(x, "signing", x.intent)
           w == transition(x, "awaiting_deposit", x.intent)
           id == nextId(x)
           ask == [NoAsk EXCEPT !.op = "signIntent", !.id = id, !.intentId = k.intent]
           flow == [NoSign EXCEPT !.stage = "intent", !.id = id]
<1>1. \/ y = x
      \/ /\ x.intent.status = "quoted" /\ k.canSolve /\ ~k.preview
         /\ \/ y = w
            \/ y = transition(x, "expired", x.intent)
            \/ k.address = None /\ y = [openPrompt(s, ask) EXCEPT !.sign = flow]
  BY DEF beginSign, canSignQuote, s, w, ask, flow
<1>2. Good(y)
  BY BeginSignGood
<1> HIDE DEF y
<1>3. CASE y = x
  BY <1>3, AlongSelf, AlongGoes DEF Proceeds, y
<1>4. CASE x.intent.status = "quoted" /\ k.canSolve /\ ~k.preview
  <2>1. x.intent.intentId # None /\ ~x.poll.live /\ ~InFlight(x) /\ Typed(x)
    BY <1>4 DEF OrderQuoted, InFlight, POLL_INFLIGHT_STATES, Good
  <2>2. /\ Typed(s) /\ Ordered(s) /\ SameWatch(x, s) /\ s.sign.stage = "none" /\ s.asks = x.asks
        /\ s.intent.status = "signing" /\ s.intent.intentId = x.intent.intentId
        /\ s.intent.quote = k
    BY <1>4, <2>1, EnterOrdered
  <2>3. /\ Ordered(w) /\ w.asks = x.asks
        /\ w.intent.status = "awaiting_deposit" /\ w.intent.intentId = x.intent.intentId
        /\ w.intent.quote = k
    BY <1>4, <2>1, EnterOrdered
  <2>4. k.intent \in OrNone(Intents)
    BY FieldTypes DEF Quote
  <2> HIDE DEF s, w
  <2>5. CASE y = w
    <3>1. "awaiting_deposit" \notin Claimed
      BY DEF Claimed
    <3> QED BY <2>1, <2>3, <2>5, <3>1 DEF Proceeds, Goes, Sends, y
  <2>6. CASE y = transition(x, "expired", x.intent)
    <3>1. Along(x, y, q)
      BY <2>1, <2>6, RestAlong, RestStatuses
    <3> QED BY <1>2, <3>1, AlongProceeds DEF y
  <2>7. CASE k.address = None /\ y = [openPrompt(s, ask) EXCEPT !.sign = flow]
    <3>1. id \in Nat /\ id \notin {a.id : a \in x.asks}
      BY <2>1, NextIdFresh DEF idsHeld
    <3>2. ask \in Ask /\ ask.op = "signIntent"
      BY <2>4, <3>1 DEF Ask, NoAsk, OrNone
    <3>3. flow \in SignFlow /\ flow.stage = "intent" /\ flow.id = id
      BY <3>1, NoSignType DEF SignFlow, NoSign
    <3> HIDE DEF ask, flow, id
    <3>4. FreshFlow(s, flow)
      BY <2>2, <3>1, <3>3 DEF FreshFlow
    <3>5. Along(s, y, q)
      BY <2>2, <2>7, <3>2, <3>3, <3>4, AskAlong
    <3>6. Ordered(y) /\ Goes(s, y, q)
      BY <1>2, <2>2, <3>5, AlongOrdered, AlongGoes
    <3>7. Signable(x.intent)
      BY <1>4, <2>7 DEF Signable
    <3>8. Goes(x, y, q)
      BY <1>4, <2>1, <2>2, <3>6, <3>7 DEF Goes, Sends
    <3> QED BY <3>6, <3>8 DEF Proceeds, y
  <2> QED BY <1>1, <1>3, <2>5, <2>6, <2>7
<1> QED BY <1>1, <1>3, <1>4

\* The dispatch.
LEMMA RunExecuteGoes ==
    ASSUME NEW x, Good(x), Ordered(x), x.intent.status = "signing", ~x.poll.live,
           NEW f \in SignFlow, NEW pullSig \in OrNone(Intents),
           \A a \in x.asks : a.op = "execute" => a.id # f.id, NEW q
    PROVE  Proceeds(x, runExecute(x, f, pullSig), q)
<1> DEFINE i == x.intent.intentId
           g == [f EXCEPT !.stage = "execute", !.request = i,
                          !.pullSig = pullSig, !.resends = 0, !.resendAt = Never]
           staged == [x EXCEPT !.sign = g]
           e == transition(staged, "executing", x.intent)
           ask == [NoAsk EXCEPT !.op = "execute", !.id = f.id, !.intentId = x.intent.intentId,
                                !.sig = f.sig, !.pullSig = pullSig]
           y == perform(e, ask)
<1>1. runExecute(x, f, pullSig) = y
  BY DEF runExecute, y, e, ask, staged, g
<1>2. g \in SignFlow /\ g.stage = "execute" /\ g.request = i /\ g.id = f.id
  <2>1. i \in OrNone(Intents) /\ Never \in Times
    BY FieldTypes DEF Never, Times
  <2> HIDE DEF i
  <2> QED BY <2>1 DEF SignFlow
<1>3. /\ ask \in Ask /\ ask.op = "execute" /\ ask.id = f.id /\ ask.intentId = i
      /\ ask.read = "unread"
  BY FieldTypes DEF Ask, NoAsk, OrNone, SignFlow
<1>4. i # None /\ ~x.intent.reconciling /\ ~InFlight(x)
  BY DEF Ordered, InFlight, POLL_INFLIGHT_STATES, QUOTE_BUSY_STATES
<1> HIDE DEF g, ask
<1>5. /\ Typed(staged) /\ KeepsForm(x, staged) /\ KeepsCalls(x, staged) /\ staged.sign = g
      /\ staged.intent = x.intent /\ staged.timers = x.timers
  BY <1>2, SignFrame DEF Good
<1> HIDE DEF staged
<1>6. /\ canTransitionTo(staged.intent.status, "executing") /\ ~leaves(staged, "executing")
      /\ "executing" \in IntentStatus
  BY <1>2, <1>5 DEF canTransitionTo, INTENT_STATUS_TRANSITIONS, leaves, IntentStatus
<1>7. /\ Typed(e) /\ SameWatch(staged, e) /\ e.sign = staged.sign
      /\ e.intent = movedTo(x.intent, "executing") /\ e.asks = staged.asks
  BY <1>5, <1>6, FieldTypes, MoveFrame
<1>8. /\ e.intent.status = "executing" /\ e.intent.intentId = i
      /\ e.intent.quote = x.intent.quote /\ e.intent.reconciling = x.intent.reconciling
  BY <1>7, FieldTypes DEF movedTo, Intent
<1> HIDE DEF e
<1>9. /\ Typed(y) /\ KeepsForm(e, y) /\ KeepsCeremony(e, y)
      /\ y.intent = e.intent /\ y.timers = e.timers
  BY <1>3, <1>7, PerformFrame
<1>10. y.asks = x.asks \cup {ask}
  BY <1>5, <1>7 DEF perform, Typed, Model, KeepsCalls
<1> HIDE DEF y
<1>11. y.sign = g /\ SameWatch(x, y)
  BY <1>5, <1>7, <1>9 DEF KeepsForm, KeepsCeremony, SameWatch
<1>12. /\ y.intent.status = "executing" /\ y.intent.intentId = i
       /\ y.intent.quote = x.intent.quote /\ ~y.intent.reconciling
  BY <1>4, <1>8, <1>9
<1>13. InFlight(y) /\ "signing" \in Claimed
  BY <1>12, StatusSets DEF InFlight
<1>14. Ordered(y)
  BY <1>2, <1>3, <1>4, <1>10, <1>11, <1>12, <1>13 DEF Ordered, SameWatch, armed
<1>15. Goes(x, y, q)
  BY <1>3, <1>4, <1>10, <1>12, <1>13 DEF Goes, Sends
<1> QED BY <1>1, <1>14, <1>15 DEF Proceeds

\* A signature, or its refusal.
LEMMA OnSignedGoes ==
    ASSUME NEW x, Good(x), Ordered(x), x.poll.live => InFlight(x), NEW id,
           NEW purpose \in {"intent", "pull"}, NEW result, NEW signed \in OrNone(Intents), NEW q
    PROVE  Proceeds(x, onSigned(x, id, purpose, result, signed), q)
<1> DEFINE y == onSigned(x, id, purpose, result, signed)
           quiet == clearTimer(x, "signPrompt")
           sf == [x.sign EXCEPT !.sig = signed]
           next == [quiet EXCEPT !.pendingIntentSig = signed]
           tapped == [quiet EXCEPT !.awaitingPull = FALSE]
           waiting == [next EXCEPT !.awaitingPull = TRUE, !.sign = NoSign]
<1>1. Good(y)
  BY OnSignedGood
<1>2. CASE x.sign.stage # purpose
  BY <1>2, AlongSelf, AlongGoes DEF onSigned, Proceeds
<1>3. CASE x.sign.stage = purpose
  <2>1. \/ y = x \/ y = abandonSign(x)
        \/ y = signFlowFailed(quiet, result)
        \/ y = runExecute(tapped, x.sign, signed)
        \/ purpose = "intent" /\ y = runExecute(next, sf, None)
        \/ purpose = "intent" /\ y = waiting
        \/ purpose = "intent" /\ y = completePull(next, sf)
    BY <1>3 DEF onSigned
  <2>2. /\ x.intent.status = "signing" /\ x.sign.stage \notin {"none", "execute"} /\ Typed(x)
        /\ ~InFlight(x) /\ ~x.poll.live
    BY <1>3, StageStatus DEF Good, InFlight, POLL_INFLIGHT_STATES
  <2>3. \A a \in x.asks : a.op = "execute" => a.id # x.sign.id
    BY <2>2 DEF Ordered
  <2>4. "signPrompt" \in TimerName /\ "signPrompt" \in TimerName \ {"poll", "expiry"}
    BY DEF TimerName
  <2>5. /\ Good(quiet) /\ ~armed(quiet, "signPrompt") /\ quiet.intent = x.intent
        /\ KeepsCeremony(x, quiet)
    BY ClearPromptGood
  <2>6. Typed(quiet) /\ Along(x, quiet, q) /\ quiet.asks = x.asks /\ quiet.poll = x.poll
    BY <2>2, <2>4, ClearTimerAlong, ClearTimerFrame DEF KeepsCalls, KeepsForm
  <2> HIDE DEF y, quiet
  <2>7. quiet.sign = x.sign /\ quiet.awaitingPull = x.awaitingPull
    BY <2>5 DEF KeepsCeremony
  <2>8. ASSUME NEW z, Apartness(quiet, z)
        PROVE  /\ Typed(z) /\ Along(x, z, q) /\ z.intent = x.intent /\ z.sign = x.sign
               /\ z.asks = x.asks /\ ~z.poll.live /\ ~InFlight(z) /\ z.intent.status = "signing"
    <3>1. /\ Typed(z) /\ Along(quiet, z, q) /\ z.intent = x.intent /\ z.sign = x.sign
          /\ z.asks = x.asks /\ z.poll = x.poll
      BY <2>5, <2>6, <2>7, <2>8, ApartAlong DEF Apartness, SameWatch
    <3> QED BY <2>2, <2>6, <3>1, AlongTrans DEF InFlight
  <2>9. Apartness(quiet, tapped) /\ Apartness(quiet, next)
    BY <2>6, FlagsAlong
  <2>10. ~armed(tapped, "signPrompt") /\ ~armed(next, "signPrompt")
    BY <2>5 DEF armed, Good, Typed, Model
  <2>11. Good(tapped) /\ ~tapped.awaitingPull
    BY <2>5, PullFlagsGood
  <2>12. /\ next.pendingIntentSig = signed /\ next.timers = quiet.timers
         /\ next.flights = quiet.flights /\ next.awaitingPull = x.awaitingPull
    BY <2>5, <2>7 DEF Good, Typed, Model
  <2> HIDE DEF tapped, next
  <2>13. Good(next)
    BY <2>2, <2>5, <2>7, <2>8, <2>9, <2>12
    DEF Good, CeremonySafe, VerdictsSafe, FlightsSafe, armed, awaitingResend
  <2>14. purpose = "intent" => ~next.awaitingPull
    BY <1>3, <2>12 DEF Good, CeremonySafe
  <2>15. sf \in SignFlow /\ sf.stage = purpose /\ sf.id = x.sign.id
    BY <1>3, FieldTypes DEF SignFlow
  <2>16. x.sign \in SignFlow /\ None \in OrNone(Intents)
    BY FieldTypes DEF OrNone
  <2> HIDE DEF sf
  <2>17. Ordered(tapped) /\ Ordered(next)
    BY <2>8, <2>9, <2>11, <2>13, AlongOrdered
  <2>18. ASSUME NEW z, NEW f \in SignFlow, NEW p \in OrNone(Intents), Good(z), Ordered(z),
                Apartness(quiet, z), f.id = x.sign.id
         PROVE  Proceeds(x, runExecute(z, f, p), q)
    <3>1. Proceeds(z, runExecute(z, f, p), q)
      BY <2>3, <2>8, <2>18, RunExecuteGoes
    <3> QED BY <2>8, <2>18, <3>1, AlongThenGoes DEF Proceeds
  <2>19. /\ Proceeds(x, runExecute(tapped, x.sign, signed), q)
         /\ Proceeds(x, runExecute(next, sf, None), q)
    BY <2>9, <2>11, <2>13, <2>15, <2>16, <2>17, <2>18
  <2>20. Along(x, abandonSign(x), q)
    BY <2>2, AbandonAlong
  <2>21. Along(x, signFlowFailed(quiet, result), q)
    <3>1. Along(quiet, signFlowFailed(quiet, result), q)
      BY <2>2, <2>5, <2>6, SignFlowFailedAlong DEF InFlight
    <3> QED BY <2>6, <3>1, AlongTrans
  <2>22. Along(x, waiting, q)
    <3> DEFINE flag == [next EXCEPT !.awaitingPull = TRUE]
    <3>1. Apartness(next, flag) /\ Typed(next) /\ Along(x, next, q)
      BY <2>8, <2>9, FlagsAlong
    <3>2. waiting = [flag EXCEPT !.sign = NoSign]
      OBVIOUS
    <3> HIDE DEF flag
    <3>3. Typed(flag) /\ Along(x, flag, q)
      BY <3>1, ApartAlong, AlongTrans DEF Apartness
    <3> DEFINE z == [flag EXCEPT !.sign = NoSign]
    <3>4. /\ Typed(z) /\ KeepsForm(flag, z) /\ KeepsCalls(flag, z) /\ z.sign = NoSign
          /\ z.intent = flag.intent /\ z.timers = flag.timers
      BY <3>3, NoSignType, SignFrame
    <3> HIDE DEF z
    <3>5. SameWatch(flag, z) /\ z.asks = flag.asks /\ Signs(flag, z)
      BY <3>4 DEF KeepsForm, KeepsCalls, SameWatch, Signs, NoSign
    <3>6. Along(flag, z, q)
      BY <3>4, <3>5, OnwardSelf, AlongFrame
    <3> QED BY <3>2, <3>3, <3>6, AlongTrans DEF z
  <2> HIDE DEF waiting
  <2>23. purpose = "intent" => Along(x, completePull(next, sf), q)
    <3>1. SUFFICES ASSUME purpose = "intent" PROVE Along(x, completePull(next, sf), q)
      OBVIOUS
    <3>2. Typed(next) /\ Along(x, next, q) /\ ~InFlight(next) /\ next.sign = x.sign
      BY <2>8, <2>9
    <3>3. FreshFlow(next, sf)
      BY <2>2, <2>15, <3>2 DEF FreshFlow
    <3>4. Along(next, completePull(next, sf), q)
      BY <2>15, <3>1, <3>2, <3>3, CompletePullAlong
    <3> QED BY <3>2, <3>4, AlongTrans
  <2>24. Along(x, y, q) => Proceeds(x, y, q)
    BY <1>1, AlongProceeds DEF y
  <2>25. y = x => Along(x, y, q)
    BY AlongSelf
  <2> QED BY <2>1, <2>19, <2>20, <2>21, <2>22, <2>23, <2>24, <2>25 DEF y
<1> QED BY <1>2, <1>3

\* A resend.
LEMMA ResendExecuteGoes ==
    ASSUME NEW x, ReadyToSend(x), awaitingResend(x), Ordered(x), NEW n, NEW q
    PROVE  Proceeds(x, resendExecute(x, n), q)
<1> DEFINE y == resendExecute(x, n)
           f == x.sign
           id == nextId(x)
           ask == [NoAsk EXCEPT !.op = "execute", !.id = id, !.intentId = f.request,
                                !.sig = f.sig, !.pullSig = f.pullSig]
           k == f.resends + 1
           g == [f EXCEPT !.id = id, !.resends = k, !.resendAt = Never]
           p == perform(x, ask)
           z == [p EXCEPT !.sign = g]
<1>1. y = stopResending(x, f) \/ y = z
  BY DEF resendExecute, ReadyToSend
<1>2. id \in Nat /\ id \notin {a.id : a \in x.asks} /\ Typed(x)
  BY NextIdFresh DEF ReadyToSend, idsHeld
<1>3. /\ x.intent.status = "executing" /\ x.sign.stage = "execute" /\ InFlight(x)
      /\ x.sign.request = x.intent.intentId /\ ~x.intent.reconciling
  BY DEF ReadyToSend, Ordered, InFlight, POLL_INFLIGHT_STATES
<1>4. Proceeds(x, stopResending(x, f), q)
  <2>1. Good(stopResending(x, f)) /\ Along(x, stopResending(x, f), q)
    BY <1>2, StopResendingGood, StopResendingAlong
  <2> QED BY <2>1, AlongProceeds
<1>5. /\ f \in SignFlow /\ f.stage = "execute"
      /\ f.request = x.intent.intentId
  BY <1>2, <1>3 DEF Typed, Model
<1> HIDE DEF y, id, f
<1>6. /\ ask \in Ask /\ ask.op = "execute" /\ ask.id = id /\ ask.intentId = x.intent.intentId
      /\ ask.read = "unread"
  BY <1>2, <1>5 DEF Ask, NoAsk, OrNone, SignFlow
<1>7. /\ g \in SignFlow /\ g.stage = "execute" /\ g.id = id /\ g.request = x.intent.intentId
  <2>1. k \in Nat /\ Never \in Times
    BY <1>5 DEF SignFlow, Times, Never
  <2> HIDE DEF k
  <2> QED BY <1>2, <1>5, <2>1 DEF SignFlow
<1> HIDE DEF ask, g
<1>8. /\ Typed(p) /\ KeepsForm(x, p) /\ p.intent = x.intent /\ p.timers = x.timers
  BY <1>2, <1>6, PerformFrame
<1>9. p.asks = x.asks \cup {ask}
  BY <1>2 DEF perform, Typed, Model
<1> HIDE DEF p
<1>10. /\ KeepsForm(p, z) /\ KeepsCalls(p, z) /\ z.sign = g
       /\ z.intent = p.intent /\ z.timers = p.timers
  BY <1>7, <1>8, SignFrame
<1> HIDE DEF z
<1>11. /\ SameWatch(x, z) /\ z.asks = x.asks \cup {ask} /\ z.sign = g /\ z.intent = x.intent
  BY <1>8, <1>9, <1>10 DEF KeepsForm, KeepsCalls, SameWatch
<1>12. Ordered(z)
  BY <1>2, <1>3, <1>6, <1>7, <1>11 DEF Ordered, SameWatch, armed, InFlight
<1>13. Goes(x, z, q)
  BY <1>3, <1>6, <1>11 DEF Goes, Sends, InFlight
<1> QED BY <1>1, <1>4, <1>12, <1>13 DEF Proceeds, y

\* The poll tick's share of it.
LEMMA ResendBackstopGoes ==
    ASSUME NEW x, Good(x), awaitingResend(x), Ordered(x), NEW n, NEW q
    PROVE  Proceeds(x, resendBackstop(x, n), q)
<1> DEFINE y == clearTimer(x, "execute")
<1>1. ReadyToSend(y) /\ awaitingResend(y)
  BY DisarmedReady
<1>2. resendBackstop(x, n) = x \/ resendBackstop(x, n) = resendExecute(y, n)
  BY DEF resendBackstop
<1>3. "execute" \in TimerName \ {"poll", "expiry"} /\ "execute" \in TimerName
  BY DEF TimerName
<1>4. Along(x, y, q) /\ y.intent = x.intent /\ Typed(y) /\ KeepsCeremony(x, y)
  BY <1>3, ClearTimerAlong, ClearTimerFrame DEF Good
<1> HIDE DEF y
<1>5. Ordered(y)
  <2>1. y.sign = x.sign /\ x.sign.stage = "execute" /\ x.intent.status = "executing"
    BY <1>4 DEF KeepsCeremony, awaitingResend, Good, CeremonySafe
  <2>2. \A a \in y.asks : a.op \in {"execute", "status"} => a \in x.asks \/ a.op = "status"
    BY <1>4 DEF Along, Carries
  <2>3. \A a \in y.asks : a.op = "status" => a \in x.asks \/ ReadFor(x, a)
    BY <1>4 DEF Along
  <2> QED BY <1>4, <2>1, <2>2, <2>3 DEF Ordered, Along, Watches, ReadFor, Carries, armed, InFlight
<1>6. Proceeds(y, resendExecute(y, n), q)
  BY <1>1, <1>5, ResendExecuteGoes
<1>7. Proceeds(x, resendExecute(y, n), q)
  BY <1>4, <1>6, AlongThenGoes DEF Proceeds
<1>8. Proceeds(x, x, q)
  BY AlongSelf, AlongGoes DEF Proceeds
<1> QED BY <1>2, <1>7, <1>8

-----------------------------------------------------------------------------
(* Verdicts. *)

\* What an execute's answer may say: an answer that was not mapped says
\* "executing", and one that is in doubt "failed" or "quoted".
ExecuteVerdict(r) ==
    r.kind = "response" =>
        /\ r.unmapped => r.status = "executing"
        /\ r.reconciling => r.status \in {"failed", "quoted"}

\* The order has ended as st, its marker says whether anything moved.
Ended(x, y, st, marker) ==
    /\ InFlight(x) /\ Ordered(y)
    /\ y.intent.status = st /\ st \in {"completed", "refunded", "failed", "expired"}
    /\ st = "failed" => y.intent.mayHaveMoved = ~marker
    /\ y.intent.intentId = x.intent.intentId /\ y.intent.quote = x.intent.quote
    /\ y.asks \subseteq x.asks

\* A move of an order in flight, its ceremony over: further, or to its end.
LEMMA MoveOrdered ==
    ASSUME NEW x, Typed(x), Ordered(x), x.sign.stage # "execute",
           NEW to \in IntentStatus, NEW u \in Intent, InFlight(x),
           u.intentId = x.intent.intentId, u.quote = x.intent.quote,
           canTransitionTo(x.intent.status, to),
           u.reconciling => to \in POLL_INFLIGHT_STATES,
           u.pollExhausted = x.intent.pollExhausted
    PROVE  LET y == transition(x, to, u)
           IN  /\ Ordered(y) /\ Typed(y) /\ SameWatch(x, y) /\ y.asks = x.asks
               /\ y.sign.stage # "execute"
               /\ y.intent.status = to /\ y.intent.intentId = x.intent.intentId
               /\ y.intent.quote = x.intent.quote /\ y.intent.mayHaveMoved = u.mayHaveMoved
               /\ y.intent.reconciling = u.reconciling
<1> DEFINE y == transition(x, to, u)
<1>1. /\ Typed(y) /\ SameWatch(x, y) /\ y.asks = x.asks
      /\ y.sign = x.sign \/ y.sign = NoSign
      /\ y.intent = movedTo(u, to)
  BY MoveFrame
<1>2. /\ y.intent.status = to /\ y.intent.intentId = u.intentId /\ y.intent.quote = u.quote
      /\ y.intent.mayHaveMoved = u.mayHaveMoved /\ y.intent.reconciling = u.reconciling
      /\ y.intent.pollExhausted = u.pollExhausted
  BY <1>1 DEF movedTo, Intent
<1>3. y.sign.stage # "execute" /\ (y.sign.stage # "none" => y.sign = x.sign)
  BY <1>1 DEF NoSign
<1> HIDE DEF y
<1>4. x.intent.intentId # None
  BY StatusSets DEF Ordered, InFlight
<1>5. Ordered(y)
  BY <1>1, <1>2, <1>3, <1>4 DEF Ordered, SameWatch, armed, InFlight
<1> QED BY <1>1, <1>2, <1>3, <1>5 DEF y

\* What an execute's answer is read as.
LEMMA ExecuteDecision ==
    ASSUME NEW r, ExecuteReply(r), ExecuteVerdict(r), r.kind = "response"
    PROVE  LET d == decideExecuteResult(r)
           IN  /\ d.kind = "failed" => /\ r.status = "failed" /\ ~r.success /\ ~r.reconciling
                                       /\ d.mayHaveMoved = ~r.marker
               /\ d.kind # "failed" => d.status # "failed"
               /\ d.status \in {"completed", "refunded"} =>
                     d.status = r.status /\ ~d.reconciling /\ ~r.unmapped
<1>1. CASE r.status = "failed" /\ ~r.success /\ ~r.reconciling
  BY <1>1 DEF decideExecuteResult, failureMayHaveMoved
<1>2. CASE r.status = "failed" /\ ~(~r.success /\ ~r.reconciling)
  BY <1>2 DEF decideExecuteResult, ExecuteReply
<1>3. CASE r.status = "completed"
  BY <1>3 DEF decideExecuteResult, ExecuteVerdict
<1>4. CASE r.status \notin {"failed", "completed"}
  BY <1>4 DEF decideExecuteResult, ExecuteVerdict
<1> QED BY <1>1, <1>2, <1>3, <1>4

\* An execute's answer: the order goes on, or has ended as the answer says.
LEMMA OnExecutedGoes ==
    ASSUME NEW x, Good(x), Ordered(x), NEW id, NEW r, ExecuteReply(r), ExecuteVerdict(r),
           NEW n \in Nat, NEW q
    PROVE  LET y == onExecuted(x, id, r, n)
           IN  \/ Proceeds(x, y, q)
               \/ r.kind = "response" /\ ~r.reconciling /\ Ended(x, y, r.status, r.marker)
<1> DEFINE y == onExecuted(x, id, r, n)
           f == x.sign
           bare == [x EXCEPT !.pendingIntentSig = None]
           next == endSignFlow(bare, f)
           doubtful == [x.intent EXCEPT !.reconciling = TRUE]
           unsent == [x.intent EXCEPT !.notSent = TRUE]
           d == decideExecuteResult(r)
           ended == [x.intent EXCEPT !.mayHaveMoved = d.mayHaveMoved]
           inDoubt == d.reconciling \/ r.unmapped
           moved == [x.intent EXCEPT !.reconciling = inDoubt]
<1>1. CASE f.stage # "execute" \/ awaitingResend(x)
  BY <1>1, AlongSelf, AlongGoes DEF onExecuted, Proceeds
<1>2. CASE f.stage = "execute" /\ ~awaitingResend(x)
  <2>1. \/ y = x
        \/ r.kind = "notAccepted" /\ y = onNotAccepted(x, f, r.retryAfter, n)
        \/ y = patch(next, doubtful)
        \/ y = patch(next, unsent)
        \/ r.kind = "response" /\ d.kind = "failed" /\ y = transition(next, "failed", ended)
        \/ /\ r.kind = "response" /\ d.kind # "failed"
           /\ inDoubt => canTransitionTo(x.intent.status, d.status)
           /\ y = transition(next, d.status, moved)
    BY <1>2 DEF onExecuted
  <2>2. Good(y)
    BY OnExecutedGood
  <2> HIDE DEF y
  <2>3. Typed(x) /\ x.intent \in Intent /\ x.intent.status = "executing" /\ InFlight(x)
    BY <1>2, StatusSets DEF Good, Typed, Model, CeremonySafe, InFlight
  <2>4. ~x.intent.reconciling /\ x.intent.intentId # None
    BY <1>2, <2>3, StatusSets DEF Ordered, InFlight
  <2>5. Along(x, y, q) => Proceeds(x, y, q)
    BY <2>2, AlongProceeds DEF y
  <2>6. r.kind = "notAccepted" => Along(x, onNotAccepted(x, f, r.retryAfter, n), q)
    BY <1>2, <2>3, OnNotAcceptedAlong DEF ExecuteReply
  <2>7. Typed(next) /\ Along(x, next, q) /\ next.intent = x.intent /\ next.sign = NoSign
        /\ next.asks = x.asks
    <3>1. Apartness(x, bare)
      <4>1. None \in OrNone(Intents)
        BY DEF OrNone
      <4> QED BY <2>3, <4>1, FlagsAlong
    <3> HIDE DEF bare
    <3>2. Typed(bare) /\ Along(x, bare, q) /\ bare.intent = x.intent /\ bare.asks = x.asks
      BY <3>1, ApartAlong DEF Apartness
    <3>3. /\ Typed(next) /\ Along(bare, next, q) /\ next.intent = bare.intent
          /\ next.sign = NoSign /\ next.asks = bare.asks
      BY <3>2, EndSignFlowAlong, EndSignFlowFrame DEF KeepsCalls
    <3> HIDE DEF next
    <3> QED BY <3>2, <3>3, AlongTrans
  <2> HIDE DEF next
  <2>8. InFlight(next) /\ next.sign.stage = "none"
    BY <2>3, <2>7 DEF InFlight, NoSign
  <2>9. Ordered(next)
    <3>1. \A a \in next.asks : a.op = "status" => a \in x.asks
      BY <2>7
    <3> QED BY <2>3, <2>4, <2>7, <2>8, <3>1 DEF Ordered, Along, Watches, armed, InFlight
  <2>10. CASE y = patch(next, doubtful)
    <3>1. /\ doubtful \in Intent /\ doubtful.status = "executing"
          /\ doubtful.intentId = x.intent.intentId /\ doubtful.quote = x.intent.quote
          /\ doubtful.pollExhausted = x.intent.pollExhausted
      BY <2>3 DEF Intent
    <3> HIDE DEF doubtful
    <3>2. /\ KeepsForm(next, y) /\ KeepsCeremony(next, y) /\ KeepsCalls(next, y)
          /\ y.intent = doubtful /\ y.timers = next.timers
      BY <2>7, <2>10, <3>1, PatchFrame
    <3>3. InFlight(y)
      BY <3>1, <3>2, StatusSets DEF InFlight
    <3>4. y.sign = NoSign /\ NoSign.stage = "none" /\ y.asks = x.asks /\ SameWatch(next, y)
      BY <2>7, <3>2 DEF KeepsForm, KeepsCeremony, KeepsCalls, SameWatch, NoSign
    <3>5. Ordered(y)
      BY <2>4, <2>7, <2>8, <2>9, <3>1, <3>2, <3>3, <3>4 DEF Ordered, SameWatch, armed
    <3>6. Goes(x, y, q)
      BY <2>3, <3>1, <3>2, <3>3, <3>4, StatusSets DEF Goes, Sends
    <3> QED BY <3>5, <3>6 DEF Proceeds, y
  <2>11. CASE y = patch(next, unsent)
    <3>1. unsent \in Intent /\ Onward(x.intent, unsent, q)
      BY <2>3 DEF Intent, Onward
    <3> HIDE DEF unsent
    <3>2. Along(next, y, q)
      BY <2>7, <2>11, <3>1, PatchAlong
    <3>3. Along(x, y, q)
      BY <2>7, <3>2, AlongTrans
    <3> QED BY <2>5, <3>3 DEF y
  <2>12. CASE r.kind = "response" /\ d.kind = "failed" /\ y = transition(next, "failed", ended)
    <3>1. d.mayHaveMoved = ~r.marker /\ r.status = "failed" /\ ~r.reconciling
      BY <2>12, ExecuteDecision
    <3>2. d.mayHaveMoved \in BOOLEAN
      BY <2>12, ExecuteResultType
    <3> HIDE DEF d
    <3>3. /\ ended \in Intent /\ ended.mayHaveMoved = ~r.marker /\ ~ended.reconciling
          /\ ended.intentId = x.intent.intentId /\ ended.quote = x.intent.quote
          /\ ended.pollExhausted = x.intent.pollExhausted
      BY <2>3, <2>4, <3>1, <3>2 DEF Intent
    <3> HIDE DEF ended
    <3>4. canTransitionTo(x.intent.status, "failed") /\ "failed" \in IntentStatus
      BY <2>3 DEF canTransitionTo, INTENT_STATUS_TRANSITIONS, IntentStatus
    <3>5. /\ Ordered(y) /\ y.asks = next.asks
          /\ y.intent.status = "failed" /\ y.intent.intentId = x.intent.intentId
          /\ y.intent.quote = x.intent.quote /\ y.intent.mayHaveMoved = ~r.marker
      BY <2>7, <2>8, <2>9, <2>12, <3>3, <3>4, MoveOrdered
    <3> QED BY <2>3, <2>7, <2>12, <3>1, <3>5 DEF Ended, y
  <2>13. CASE /\ r.kind = "response" /\ d.kind # "failed"
              /\ inDoubt => canTransitionTo(x.intent.status, d.status)
              /\ y = transition(next, d.status, moved)
    <3>1. /\ d.status # "failed"
          /\ d.status \in {"completed", "refunded"} =>
                d.status = r.status /\ ~d.reconciling /\ ~r.unmapped
      BY <2>13, ExecuteDecision
    <3>2. d.status \in IntentStatus \ {"idle", "quoting"} /\ d.reconciling \in BOOLEAN
      BY <2>13, ExecuteResultType
    <3> HIDE DEF d
    <3>3. inDoubt \in BOOLEAN
      BY <2>13, <3>2 DEF ExecuteReply
    <3>4. d.status \in {"completed", "refunded"} => ~inDoubt
      BY <3>1
    <3> HIDE DEF inDoubt
    <3>5. /\ moved \in Intent /\ moved.reconciling = inDoubt
          /\ moved.intentId = x.intent.intentId /\ moved.quote = x.intent.quote
          /\ moved.pollExhausted = x.intent.pollExhausted
      BY <2>3, <3>3 DEF Intent
    <3> HIDE DEF moved
    <3>6. CASE ~canTransitionTo(x.intent.status, d.status)
      <4>1. y = next
        BY <2>7, <2>13, <3>6 DEF transition
      <4> QED BY <2>5, <2>7, <4>1 DEF y
    <3>7. CASE canTransitionTo(x.intent.status, d.status)
      <4>1. d.status \in {"bridging", "settling", "completed", "refunded"}
        BY <2>3, <3>1, <3>7 DEF canTransitionTo, INTENT_STATUS_TRANSITIONS
      <4>2. d.status \in {"bridging", "settling"} =>
               d.status \in POLL_INFLIGHT_STATES /\ d.status \in Claimed
        BY DEF POLL_INFLIGHT_STATES, Claimed
      <4>3. /\ Ordered(y) /\ y.asks = next.asks
            /\ y.intent.status = d.status /\ y.intent.intentId = x.intent.intentId
            /\ y.intent.quote = x.intent.quote
        BY <2>7, <2>8, <2>9, <2>13, <3>2, <3>4, <3>5, <3>7, <4>1, <4>2, MoveOrdered
      <4>4. CASE d.status \in {"bridging", "settling"}
        <5>1. Goes(x, y, q)
          BY <2>3, <2>7, <4>2, <4>3, <4>4, StatusSets DEF Goes, Sends, InFlight
        <5> QED BY <4>3, <5>1 DEF Proceeds, y
      <4>5. CASE d.status \in {"completed", "refunded"}
        BY <2>3, <2>7, <2>13, <3>1, <4>3, <4>5 DEF Ended, ExecuteVerdict, y
      <4> QED BY <4>1, <4>4, <4>5
    <3> QED BY <3>6, <3>7
  <2>14. y = x => Along(x, y, q)
    BY AlongSelf
  <2> QED BY <2>1, <2>5, <2>6, <2>10, <2>11, <2>12, <2>13, <2>14 DEF y
<1> QED BY <1>1, <1>2

-----------------------------------------------------------------------------
(* Status. *)

\* The order stands: what is shown of it and what is asked about it.
Stands(x, y) ==
    /\ y.intent.status = x.intent.status /\ y.intent.intentId = x.intent.intentId
    /\ y.intent.quote = x.intent.quote /\ y.intent.mayHaveMoved = x.intent.mayHaveMoved
    /\ y.asks = x.asks

\* The order was told to be under way as st.
Told(x, y, st) ==
    /\ Ordered(y)
    /\ y.intent.status = st /\ st \in POLL_INFLIGHT_STATES
    /\ y.intent.intentId = x.intent.intentId /\ y.intent.quote = x.intent.quote
    /\ y.asks \subseteq x.asks

\* What news of it, read as st, makes of an order.
Answered(x, y, st, marker, q) ==
    Proceeds(x, y, q) \/ Told(x, y, st) \/ Ended(x, y, st, marker)

\* What stands went nowhere.
LEMMA StandsGoes ==
    ASSUME NEW x, NEW y, NEW z, NEW q
    PROVE  /\ Goes(x, y, q) /\ Stands(y, z) => Goes(x, z, q)
           /\ Stands(x, y) /\ Goes(y, z, q) => Goes(x, z, q)
           /\ Stands(x, y) => Goes(x, y, q)
<1>1. ASSUME Goes(x, y, q), Stands(y, z) PROVE Goes(x, z, q)
  <2>1. Sends(x, z)
    BY <1>1 DEF Goes, Sends, Stands, InFlight
  <2> QED BY <1>1, <2>1 DEF Goes, Stands, InFlight
<1>2. ASSUME Stands(x, y), Goes(y, z, q) PROVE Goes(x, z, q)
  <2>1. Sends(x, z)
    BY <1>2 DEF Goes, Sends, Stands
  <2>2. Signable(y.intent) /\ y.intent.status = "quoted"
           => Signable(x.intent) /\ x.intent.status = "quoted"
    BY <1>2 DEF Stands, Signable
  <2> QED BY <1>2, <2>1, <2>2 DEF Goes, Stands, InFlight
<1>3. ASSUME Stands(x, y) PROVE Goes(x, y, q)
  <2>1. Sends(x, y)
    BY <1>3 DEF Sends, Stands
  <2> QED BY <1>3, <2>1 DEF Goes, Stands, InFlight
<1> QED BY <1>1, <1>2, <1>3

\* News of an order that stands, before the news or after it.
LEMMA StandsAnswered ==
    ASSUME NEW x, NEW y, NEW z, NEW st, NEW marker, NEW q
    PROVE  /\ Answered(x, y, st, marker, q) /\ Stands(y, z) /\ Ordered(z)
                 => Answered(x, z, st, marker, q)
           /\ Stands(x, y) /\ Answered(y, z, st, marker, q) => Answered(x, z, st, marker, q)
           /\ Stands(x, y) /\ Ordered(y) => Answered(x, y, st, marker, q)
<1>1. ASSUME Answered(x, y, st, marker, q), Stands(y, z), Ordered(z)
      PROVE  Answered(x, z, st, marker, q)
  <2>1. CASE Proceeds(x, y, q)
    BY <1>1, <2>1, StandsGoes DEF Answered, Proceeds
  <2>2. CASE Told(x, y, st)
    BY <1>1, <2>2 DEF Answered, Told, Stands
  <2>3. CASE Ended(x, y, st, marker)
    BY <1>1, <2>3 DEF Answered, Ended, Stands
  <2> QED BY <1>1, <2>1, <2>2, <2>3 DEF Answered
<1>2. ASSUME Stands(x, y), Answered(y, z, st, marker, q)
      PROVE  Answered(x, z, st, marker, q)
  <2>1. CASE Proceeds(y, z, q)
    BY <1>2, <2>1, StandsGoes DEF Answered, Proceeds
  <2>2. CASE Told(y, z, st)
    BY <1>2, <2>2 DEF Answered, Told, Stands
  <2>3. CASE Ended(y, z, st, marker)
    BY <1>2, <2>3 DEF Answered, Ended, Stands, InFlight
  <2> QED BY <1>2, <2>1, <2>2, <2>3 DEF Answered
<1>3. Stands(x, y) /\ Ordered(y) => Answered(x, y, st, marker, q)
  BY StandsGoes DEF Answered, Proceeds
<1> QED BY <1>1, <1>2, <1>3

\* A patch of what is said of the order: in doubt or not, sent or not.
LEMMA SayOrdered ==
    ASSUME NEW x, Typed(x), Ordered(x), x.sign.stage # "execute", InFlight(x),
           NEW i \in Intent, i.status = x.intent.status, i.intentId = x.intent.intentId,
           i.quote = x.intent.quote, i.pollExhausted = x.intent.pollExhausted,
           i.mayHaveMoved = x.intent.mayHaveMoved
    PROVE  LET y == patch(x, i)
           IN  /\ Typed(y) /\ Ordered(y) /\ Stands(x, y) /\ SameWatch(x, y)
               /\ y.sign = x.sign /\ y.intent = i
<1> DEFINE y == patch(x, i)
<1>1. /\ Typed(y) /\ KeepsForm(x, y) /\ KeepsCeremony(x, y) /\ KeepsCalls(x, y)
      /\ y.intent = i /\ y.timers = x.timers
  BY PatchFrame
<1> HIDE DEF y
<1>2. SameWatch(x, y) /\ y.sign = x.sign /\ y.asks = x.asks
  BY <1>1 DEF KeepsForm, KeepsCeremony, KeepsCalls, SameWatch
<1>3. Stands(x, y)
  BY <1>1, <1>2 DEF Stands
<1>4. Ordered(y)
  BY <1>1, <1>2 DEF Ordered, SameWatch, armed, InFlight
<1> QED BY <1>1, <1>2, <1>3, <1>4 DEF y

\* A move of an order, with what it leaves of its ceremony.
LEMMA NewsOrdered ==
    ASSUME NEW x, Typed(x), Ordered(x), x.sign.stage = "execute" => x.intent.status = "executing",
           x.poll.live => InFlight(x), x.intent.intentId # None,
           NEW to \in IntentStatus, NEW u \in Intent,
           u.intentId = x.intent.intentId, u.quote = x.intent.quote,
           canTransitionTo(x.intent.status, to), ~u.reconciling,
           u.pollExhausted = x.intent.pollExhausted
    PROVE  LET y == transition(x, to, u)
           IN  /\ Ordered(y) /\ Typed(y) /\ SameWatch(x, y) /\ y.asks = x.asks
               /\ y.sign.stage # "execute" /\ ~y.intent.notSent
               /\ y.intent.status = to /\ y.intent.intentId = x.intent.intentId
               /\ y.intent.quote = x.intent.quote /\ y.intent.mayHaveMoved = u.mayHaveMoved
<1> DEFINE y == transition(x, to, u)
<1>1. /\ Typed(y) /\ SameWatch(x, y) /\ y.asks = x.asks
      /\ y.sign = x.sign \/ (y.sign = NoSign /\ leaves(x, to))
      /\ y.intent = movedTo(u, to)
  BY MoveFrame
<1>2. /\ y.intent.status = to /\ y.intent.intentId = u.intentId /\ y.intent.quote = u.quote
      /\ y.intent.mayHaveMoved = u.mayHaveMoved /\ y.intent.reconciling = u.reconciling
      /\ y.intent.pollExhausted = u.pollExhausted /\ ~y.intent.notSent
  BY <1>1 DEF movedTo, Intent
<1>3. x.sign.stage = "execute" => y.sign = NoSign
  <2>1. SUFFICES ASSUME x.sign.stage = "execute" PROVE y.sign = NoSign
    OBVIOUS
  <2> DEFINE moved == patch(x, movedTo(u, to))
             next == IF to \in QUOTE_BUSY_STATES /\ x.intent.status \notin QUOTE_BUSY_STATES
                     THEN supersedeFlights(moved) ELSE moved
  <2>2. x.intent.status = "executing"
    BY <2>1
  <2>3. y = abandonSign(next)
    BY <2>2, Zenon DEF transition, movedTo
  <2>4. movedTo(u, to) \in Intent
    BY DEF Intent, movedTo
  <2>5. Typed(moved)
    BY <2>4, PatchFrame
  <2> HIDE DEF moved
  <2>6. Typed(next)
    BY <2>5, SupersedeFrame
  <2> HIDE DEF next, y
  <2> QED BY <2>3, <2>6, AbandonSignFrame
<1>4. y.sign.stage # "execute" /\ (y.sign.stage # "none" => y.sign = x.sign)
  BY <1>1, <1>3 DEF NoSign
<1> HIDE DEF y
<1>5. Ordered(y)
  BY <1>1, <1>2, <1>4 DEF Ordered, SameWatch, armed, InFlight
<1> QED BY <1>1, <1>2, <1>4, <1>5 DEF y

\* What the table makes of news of an order in flight, or of one under way.
LEMMA NewsEdges ==
    ASSUME NEW from, NEW to \in IntentStatus \ {"idle", "quoting"}, canTransitionTo(from, to),
           from \in POLL_INFLIGHT_STATES \/ to \in POLL_INFLIGHT_STATES
    PROVE  to \in POLL_INFLIGHT_STATES \/
              (from \in POLL_INFLIGHT_STATES /\ to \in {"completed", "refunded", "failed", "expired"})
BY DEF canTransitionTo, INTENT_STATUS_TRANSITIONS, POLL_INFLIGHT_STATES, IntentStatus

\* One update, from the poll or the stream.
LEMMA ApplyStatusGoes ==
    ASSUME NEW x, Good(x), Ordered(x), x.poll.live => InFlight(x), x.intent.intentId # None,
           NEW u, StatusUpdate(u), u.unmapped => x.sign.stage # "execute",
           InFlight(x) \/ u.status \in POLL_INFLIGHT_STATES, NEW q
    PROVE  LET y == applyStatusUpdate(x, u)
           IN  /\ Answered(x, y, u.status, u.marker, q) /\ SameWatch(x, y) /\ Ordered(y)
               /\ Typed(y) /\ y.intent.intentId = x.intent.intentId
               /\ u.status = x.intent.status \/ canTransitionTo(x.intent.status, u.status)
                     => y.intent.status = u.status
<1> DEFINE v == mapStatusUpdate(x.intent, u)
           t == transition(x, u.status, v)
           next == IF u.status = x.intent.status THEN x ELSE t
           inDoubt == [next.intent EXCEPT !.reconciling = TRUE]
           doubted == IF u.unmapped /\ next.intent.status \in POLL_INFLIGHT_STATES
                      THEN patch(next, inDoubt) ELSE next
           cleared == [doubted.intent EXCEPT !.notSent = FALSE, !.reconciling = TRUE]
           y == applyStatusUpdate(x, u)
<1>1. Typed(x) /\ x.intent \in Intent /\ u.status \in IntentStatus
  BY FieldTypes DEF Good, StatusUpdate
<1>2. /\ v \in Intent /\ v.intentId = x.intent.intentId /\ v.quote = x.intent.quote
      /\ ~v.reconciling /\ v.pollExhausted = x.intent.pollExhausted
      /\ u.status = "failed" /\ InFlight(x) => v.mayHaveMoved = ~u.marker
  <2> DEFINE w == IF u.status = "failed" /\ x.intent.status \in POLL_INFLIGHT_STATES
                  THEN failureMayHaveMoved(u.marker) ELSE x.intent.mayHaveMoved
             k == [x.intent EXCEPT !.reconciling = FALSE, !.mayHaveMoved = w]
  <2>1. v \in Intent
    BY <1>1, MapStatusUpdateType
  <2>2. v = k
    BY <1>1 DEF mapStatusUpdate, Intent
  <2>3. u.status = "failed" /\ InFlight(x) => w = ~u.marker
    BY DEF failureMayHaveMoved, InFlight
  <2> HIDE DEF w, v
  <2>4. /\ k.intentId = x.intent.intentId /\ k.quote = x.intent.quote
        /\ ~k.reconciling /\ k.pollExhausted = x.intent.pollExhausted /\ k.mayHaveMoved = w
    BY <1>1 DEF Intent
  <2> HIDE DEF k
  <2> QED BY <2>1, <2>2, <2>3, <2>4
<1> HIDE DEF v
<1>3. /\ Typed(next) /\ Ordered(next) /\ SameWatch(x, next)
      /\ Answered(x, next, u.status, u.marker, q)
      /\ next.intent.intentId = x.intent.intentId
      /\ u.status = x.intent.status \/ canTransitionTo(x.intent.status, u.status)
            => next.intent.status = u.status
      /\ next = x \/ (~next.intent.notSent /\ next.sign.stage # "execute")
  <2>1. CASE next = x
    <3>1. Stands(x, x)
      BY DEF Stands
    <3>2. Answered(x, x, u.status, u.marker, q)
      BY <3>1, StandsAnswered
    <3>3. ~(u.status # x.intent.status /\ canTransitionTo(x.intent.status, u.status))
      <4>1. SUFFICES ASSUME u.status # x.intent.status, canTransitionTo(x.intent.status, u.status)
                     PROVE  FALSE
        OBVIOUS
      <4>2. t.intent = movedTo(v, u.status)
        BY <1>1, <1>2, <4>1, MoveFrame
      <4>3. movedTo(v, u.status).status = u.status
        BY <1>2 DEF movedTo, Intent
      <4> HIDE DEF t
      <4> QED BY <2>1, <4>1, <4>2, <4>3
    <3> HIDE DEF next
    <3> QED BY <1>1, <2>1, <3>2, <3>3 DEF SameWatch
  <2>2. CASE next # x
    <3>1. next = t /\ canTransitionTo(x.intent.status, u.status)
      BY <2>2 DEF transition
    <3>2. x.sign.stage = "execute" => x.intent.status = "executing"
      BY DEF Good, CeremonySafe
    <3>3. /\ Ordered(t) /\ Typed(t) /\ SameWatch(x, t) /\ t.asks = x.asks
          /\ t.sign.stage # "execute" /\ ~t.intent.notSent
          /\ t.intent.status = u.status /\ t.intent.intentId = x.intent.intentId
          /\ t.intent.quote = x.intent.quote /\ t.intent.mayHaveMoved = v.mayHaveMoved
      BY <1>1, <1>2, <3>1, <3>2, NewsOrdered
    <3> HIDE DEF t, next
    <3>4. \/ u.status \in POLL_INFLIGHT_STATES
          \/ InFlight(x) /\ u.status \in {"completed", "refunded", "failed", "expired"}
      BY <3>1, NewsEdges DEF StatusUpdate, InFlight
    <3>5. Told(x, t, u.status) \/ Ended(x, t, u.status, u.marker)
      BY <1>2, <3>3, <3>4 DEF Told, Ended
    <3> QED BY <3>1, <3>3, <3>5 DEF Answered
  <2> QED BY <2>1, <2>2
<1>4. next = x /\ u.unmapped => next.sign.stage # "execute"
  OBVIOUS
<1> HIDE DEF next
<1>5. /\ Typed(doubted) /\ Ordered(doubted) /\ SameWatch(x, doubted) /\ Stands(next, doubted)
      /\ doubted.sign = next.sign /\ doubted.intent.notSent = next.intent.notSent
  <2>1. CASE doubted = next
    BY <1>3, <2>1 DEF Stands
  <2>2. CASE doubted # next
    <3>1. u.unmapped /\ InFlight(next) /\ doubted = patch(next, inDoubt)
      BY <2>2 DEF InFlight
    <3>2. /\ inDoubt \in Intent /\ inDoubt.status = next.intent.status
          /\ inDoubt.intentId = next.intent.intentId
          /\ inDoubt.quote = next.intent.quote /\ inDoubt.pollExhausted = next.intent.pollExhausted
          /\ inDoubt.mayHaveMoved = next.intent.mayHaveMoved
          /\ inDoubt.notSent = next.intent.notSent
      BY <1>3 DEF Typed, Model, Intent
    <3> HIDE DEF inDoubt, doubted
    <3>3. next.sign.stage # "execute"
      BY <1>3, <1>4, <3>1
    <3>4. /\ Typed(doubted) /\ Ordered(doubted) /\ Stands(next, doubted)
          /\ SameWatch(next, doubted) /\ doubted.sign = next.sign /\ doubted.intent = inDoubt
      BY <1>3, <3>1, <3>2, <3>3, SayOrdered
    <3> QED BY <1>3, <3>2, <3>4 DEF SameWatch
  <2> QED BY <2>1, <2>2
<1>6. y = doubted \/ (doubted.intent.notSent /\ y = patch(doubted, cleared))
  BY DEF applyStatusUpdate, doubted, cleared, inDoubt, next, t, v
<1> HIDE DEF doubted, y
<1>7. Typed(y) /\ Ordered(y) /\ SameWatch(x, y) /\ Stands(next, y)
  <2>1. CASE doubted.intent.notSent /\ y = patch(doubted, cleared)
    <3>1. next = x
      BY <1>3, <1>5, <2>1
    <3>2. x.intent.status = "executing" /\ x.sign.stage = "none"
      BY <1>5, <2>1, <3>1 DEF Good, VerdictsSafe
    <3>3. doubted.sign.stage # "execute" /\ InFlight(doubted)
      BY <1>5, <3>1, <3>2, StatusSets DEF Stands, InFlight
    <3>4. /\ cleared \in Intent /\ cleared.status = doubted.intent.status
          /\ cleared.intentId = doubted.intent.intentId /\ cleared.quote = doubted.intent.quote
          /\ cleared.pollExhausted = doubted.intent.pollExhausted
          /\ cleared.mayHaveMoved = doubted.intent.mayHaveMoved
      BY <1>5 DEF Typed, Model, Intent
    <3> HIDE DEF cleared
    <3>5. /\ Typed(y) /\ Ordered(y) /\ Stands(doubted, y) /\ SameWatch(doubted, y)
      BY <1>5, <2>1, <3>3, <3>4, SayOrdered
    <3>6. SameWatch(x, y)
      BY <1>5, <3>5 DEF SameWatch
    <3>7. Stands(next, y)
      BY <1>5, <3>5 DEF Stands
    <3> QED BY <3>5, <3>6, <3>7
  <2>2. CASE y = doubted
    BY <1>5, <2>2
  <2> QED BY <1>6, <2>1, <2>2
<1>8. Answered(x, y, u.status, u.marker, q)
  BY <1>3, <1>7, StandsAnswered
<1> QED BY <1>3, <1>7, <1>8 DEF Stands, y

-----------------------------------------------------------------------------
(* The poll. *)

\* The poll of y is that of x, but for its counts.
SamePoll(x, y) ==
    /\ y.poll.live = x.poll.live /\ y.poll.gen = x.poll.gen
    /\ y.poll.intentId = x.poll.intentId /\ y.poll.resend = x.poll.resend
    /\ y.sign = x.sign /\ y.watched = x.watched /\ y.timers["expiry"] = x.timers["expiry"]
    /\ y.intent.reconciling = x.intent.reconciling /\ Stands(x, y)

\* A poll may count its reads, and may stop over an order it has given up or one
\* that has ended.
LEMMA CountOrdered ==
    ASSUME NEW x, Ordered(x), NEW y, SamePoll(x, y),
           \/ y.timers["poll"] = x.timers["poll"] /\ y.intent.pollExhausted = x.intent.pollExhausted
           \/ ~InFlight(y) \/ y.intent.pollExhausted
    PROVE  Ordered(y)
<1>1. InFlight(y) <=> InFlight(x)
  BY DEF SamePoll, Stands, InFlight
<1>2. y.poll.live => armed(y, "poll") \/ y.intent.pollExhausted \/ ~InFlight(y)
  BY <1>1 DEF Ordered, SamePoll, armed
<1>3. armed(y, "expiry") => y.watched.expiry # Never
  BY DEF Ordered, SamePoll, armed
<1> QED BY <1>1, <1>2, <1>3 DEF Ordered, SamePoll, Stands

\* The next read of a poll that reads.
LEMMA PollTickAlong ==
    ASSUME NEW x, Typed(x), x.poll.live => ~x.poll.resend, NEW elapsed, NEW q
    PROVE  /\ Along(x, pollTick(x, elapsed), q) /\ pollTick(x, elapsed).intent = x.intent
           /\ pollTick(x, elapsed).sign = x.sign
           /\ pollTick(x, elapsed).timers = x.timers
           /\ pollTick(x, elapsed).watched = x.watched
           /\ pollTick(x, elapsed).poll.live = x.poll.live
           /\ pollTick(x, elapsed).poll.intentId = x.poll.intentId
           /\ pollTick(x, elapsed).poll.phase = x.poll.phase
           /\ pollTick(x, elapsed).poll.resend = x.poll.resend
<1> DEFINE p == x.poll
           k == p.polls + 1
           ask == [NoAsk EXCEPT !.op = "status", !.id = p.gen, !.intentId = p.intentId,
                                !.attempt = k]
           s == IF elapsed THEN p.spent + 1 ELSE p.spent
           r == [p EXCEPT !.polls = k, !.spent = s]
           y == [perform(x, ask) EXCEPT !.poll = r]
<1>1. p \in PollState
  BY DEF Typed, Model
<1>2. CASE ~p.live
  <2>1. pollTick(x, elapsed) = x
    BY <1>2 DEF pollTick
  <2> QED BY <2>1, AlongSelf
<1>3. CASE p.live
  <2>1. pollTick(x, elapsed) = y
    BY <1>1, <1>3 DEF pollTick, PollState
  <2>2. /\ r.live = p.live /\ r.gen = p.gen /\ r.intentId = p.intentId /\ r.resend = p.resend
        /\ r.phase = p.phase
    <3> HIDE DEF p, k, s
    <3> QED BY <1>1 DEF PollState
  <2>3. /\ ask.op = "status" /\ ask.id = p.gen /\ ask.intentId = p.intentId
        /\ ask.read = "unread"
    <3> HIDE DEF p, k
    <3> QED BY DEF NoAsk
  <2> HIDE DEF ask, r
  <2>4. /\ y.asks = x.asks \cup {ask} /\ y.poll = r /\ y.intent = x.intent
        /\ y.sign = x.sign /\ y.timers = x.timers /\ y.watched = x.watched
    BY DEF perform, Typed, Model
  <2> HIDE DEF y
  <2>5. ReadFor(x, ask)
    BY <1>3, <2>3 DEF ReadFor, p
  <2>6. Carries(x, y, q)
    BY <2>3, <2>4 DEF Carries, InFlight
  <2>7. Signs(x, y)
    BY <2>4 DEF Signs
  <2>8. Watches(x, y)
    BY <1>3, <2>2, <2>4 DEF Watches, InFlight, p
  <2>9. Along(x, y, q)
    BY <2>3, <2>4, <2>5, <2>6, <2>7, <2>8 DEF Along, InFlight
  <2> QED BY <2>1, <2>2, <2>4, <2>9 DEF p
<1> QED BY <1>2, <1>3

\* A fresh budget: the poll is dropped, for the rules to arm one anew.
LEMMA RestartPollAlong ==
    ASSUME NEW x, Typed(x), NEW q
    PROVE  Along(x, restartPoll(x), q)
<1> DEFINE i == [x.intent EXCEPT !.pollExhausted = FALSE]
           y == [patch(x, i) EXCEPT !.poll = NoPoll]
<1>1. /\ i.status = x.intent.status /\ i.intentId = x.intent.intentId
      /\ i.quote = x.intent.quote /\ i.reconciling = x.intent.reconciling
  BY DEF Typed, Model, Intent
<1> HIDE DEF i
<1>2. /\ y.intent = i /\ y.poll = NoPoll /\ y.sign = x.sign /\ y.asks = x.asks
      /\ y.watched = x.watched /\ y.timers = x.timers
  BY DEF patch, Typed, Model
<1>3. restartPoll(x) = y
  BY DEF restartPoll, i
<1>4. ~NoPoll.live
  BY DEF NoPoll
<1> HIDE DEF y
<1>5. Carries(x, y, q)
  BY <1>1, <1>2 DEF Carries, InFlight
<1>6. Signs(x, y) /\ Watches(x, y)
  BY <1>2, <1>4 DEF Signs, Watches
<1> QED BY <1>1, <1>2, <1>3, <1>5, <1>6 DEF Along, InFlight

\* A poll that gives an order up says so.
LEMMA ExhaustOrdered ==
    ASSUME NEW x, Typed(x), Ordered(x), x.poll.intentId = x.intent.intentId
    PROVE  Ordered(exhaustPoll(x)) /\ Stands(x, exhaustPoll(x))
<1> DEFINE c == clearTimer(x, "poll")
           p == [x.poll EXCEPT !.stopped = TRUE]
           i == [x.intent EXCEPT !.pollExhausted = TRUE]
           y == [c EXCEPT !.poll = p, !.intent = i]
<1>1. "poll" \in TimerName
  BY DEF TimerName
<1>2. /\ Typed(c) /\ KeepsForm(x, c) /\ KeepsCeremony(x, c) /\ KeepsCalls(x, c)
      /\ c.intent = x.intent /\ c.timers = [x.timers EXCEPT !["poll"] = Never]
  BY <1>1, ClearTimerFrame
<1>3. exhaustPoll(x) = y
  <2> HIDE DEF c
  <2>1. exhaustPoll(x) = [c EXCEPT !.poll.stopped = TRUE,
                                   !.intent.pollExhausted = @ \/ x.intent.intentId = x.poll.intentId]
    BY DEF exhaustPoll, c
  <2>2. (c.intent.pollExhausted \/ x.intent.intentId = x.poll.intentId) = TRUE
    OBVIOUS
  <2> QED BY <1>2, <2>1, <2>2 DEF Typed, Model, KeepsForm
<1>4. /\ p.live = x.poll.live /\ p.gen = x.poll.gen /\ p.intentId = x.poll.intentId
      /\ p.resend = x.poll.resend
  BY DEF Typed, Model, PollState
<1>5. /\ i.status = x.intent.status /\ i.intentId = x.intent.intentId /\ i.quote = x.intent.quote
      /\ i.reconciling = x.intent.reconciling /\ i.mayHaveMoved = x.intent.mayHaveMoved
      /\ i.pollExhausted
  BY DEF Typed, Model, Intent
<1> HIDE DEF c, p, i
<1>6. /\ y.poll = p /\ y.intent = i /\ y.sign = c.sign /\ y.asks = c.asks
      /\ y.watched = c.watched /\ y.timers = c.timers
  BY <1>2 DEF Typed, Model
<1> HIDE DEF y
<1>7. /\ y.sign = x.sign /\ y.asks = x.asks /\ y.watched = x.watched
      /\ y.timers["expiry"] = x.timers["expiry"]
  BY <1>2, <1>6 DEF KeepsForm, KeepsCeremony, KeepsCalls, Typed, Model, TimerName
<1>8. SamePoll(x, y) /\ y.intent.pollExhausted
  BY <1>4, <1>5, <1>6, <1>7 DEF SamePoll, Stands
<1> QED BY <1>3, <1>8, CountOrdered DEF SamePoll

\* A poll that stops over an order that has ended.
LEMMA StopOrdered ==
    ASSUME NEW x, Typed(x), Ordered(x), ~InFlight(x), NEW p \in PollState,
           p.live = x.poll.live, p.gen = x.poll.gen, p.intentId = x.poll.intentId,
           p.resend = x.poll.resend
    PROVE  LET y == [clearTimer(x, "poll") EXCEPT !.poll = p]
           IN  Ordered(y) /\ Stands(x, y)
<1> DEFINE c == clearTimer(x, "poll")
           y == [c EXCEPT !.poll = p]
<1>1. "poll" \in TimerName
  BY DEF TimerName
<1>2. /\ Typed(c) /\ KeepsForm(x, c) /\ KeepsCeremony(x, c) /\ KeepsCalls(x, c)
      /\ c.intent = x.intent /\ c.timers = [x.timers EXCEPT !["poll"] = Never]
  BY <1>1, ClearTimerFrame
<1> HIDE DEF c
<1>3. /\ y.poll = p /\ y.intent = c.intent /\ y.sign = c.sign /\ y.asks = c.asks
      /\ y.watched = c.watched /\ y.timers = c.timers
  BY <1>2 DEF Typed, Model
<1> HIDE DEF y
<1>4. /\ y.sign = x.sign /\ y.asks = x.asks /\ y.watched = x.watched
      /\ y.timers["expiry"] = x.timers["expiry"]
  BY <1>2, <1>3 DEF KeepsForm, KeepsCeremony, KeepsCalls, Typed, Model, TimerName
<1>5. SamePoll(x, y) /\ ~InFlight(y)
  BY <1>2, <1>3, <1>4 DEF SamePoll, Stands, InFlight
<1> QED BY <1>5, CountOrdered DEF SamePoll, y, c

\* One that only counts.
LEMMA RecountOrdered ==
    ASSUME NEW x, Typed(x), Ordered(x), NEW p \in PollState,
           p.live = x.poll.live, p.gen = x.poll.gen, p.intentId = x.poll.intentId,
           p.resend = x.poll.resend
    PROVE  LET y == [x EXCEPT !.poll = p]
           IN  Typed(y) /\ Ordered(y) /\ Stands(x, y) /\ y.intent = x.intent /\ y.poll = p
<1> DEFINE y == [x EXCEPT !.poll = p]
<1>1. /\ y.poll = p /\ y.intent = x.intent /\ y.sign = x.sign /\ y.asks = x.asks
      /\ y.watched = x.watched /\ y.timers = x.timers /\ Typed(y)
  BY DEF Typed, Model
<1> HIDE DEF y
<1>2. SamePoll(x, y)
  BY <1>1 DEF SamePoll, Stands
<1> QED BY <1>1, <1>2, CountOrdered DEF SamePoll, y

\* The terminal statuses a read can report, and of what order.
TerminalRead(x, r) ==
    r.kind = "data" /\ r.terminal =>
        /\ r.status \in {"completed", "refunded", "failed", "expired"}
        /\ r.status = "expired" => x.intent.status \in {"awaiting_deposit", "expired"}

\* An order in flight can be told any end the Worker reads it.
LEMMA TerminalEdges ==
    ASSUME NEW x, InFlight(x), NEW r, TerminalRead(x, r), r.kind = "data", r.terminal
    PROVE  canTransitionTo(x.intent.status, r.status)
BY DEF TerminalRead, InFlight, canTransitionTo, INTENT_STATUS_TRANSITIONS, POLL_INFLIGHT_STATES

\* The order of a current read, before the news.
LEMMA ReadStands ==
    ASSUME NEW x, Good(x), Ordered(x), InFlight(x), x.sign.stage # "execute",
           NEW attempt, NEW r
    PROVE  LET unsent == IF readsNotSent(x, attempt, r)
                         THEN patch(x, [x.intent EXCEPT !.notSent = TRUE]) ELSE x
               read == IF escalatesToReconcile(unsent, attempt)
                       THEN patch(unsent, [unsent.intent EXCEPT !.reconciling = TRUE]) ELSE unsent
           IN  Good(read) /\ Ordered(read) /\ Stands(x, read) /\ SameWatch(x, read)
               /\ read.sign = x.sign
<1> DEFINE notSent == [x.intent EXCEPT !.notSent = TRUE]
           unsent == IF readsNotSent(x, attempt, r) THEN patch(x, notSent) ELSE x
           inDoubt == [unsent.intent EXCEPT !.reconciling = TRUE]
           read == IF escalatesToReconcile(unsent, attempt) THEN patch(unsent, inDoubt)
                   ELSE unsent
<1>1. Good(unsent) /\ Ordered(unsent) /\ Stands(x, unsent) /\ SameWatch(x, unsent)
      /\ unsent.sign = x.sign
  <2>1. CASE ~readsNotSent(x, attempt, r)
    BY <2>1 DEF Stands, SameWatch
  <2>2. CASE readsNotSent(x, attempt, r)
    <3>1. x.intent.status = "executing" /\ x.sign.stage = "none"
      BY <2>2 DEF readsNotSent
    <3>2. /\ notSent \in Intent /\ notSent.status = x.intent.status
          /\ notSent.intentId = x.intent.intentId /\ notSent.quote = x.intent.quote
          /\ notSent.pollExhausted = x.intent.pollExhausted
          /\ notSent.mayHaveMoved = x.intent.mayHaveMoved
      BY FieldTypes DEF Intent, Good
    <3> HIDE DEF notSent
    <3> DEFINE z == patch(x, notSent)
    <3>3. /\ Typed(z) /\ KeepsCeremony(x, z)
          /\ z.intent = notSent /\ z.flights = x.flights /\ z.timers = x.timers
      BY <3>2, PatchFrame DEF Good
    <3>4. /\ Ordered(z) /\ Stands(x, z) /\ SameWatch(x, z) /\ z.sign = x.sign
      BY <3>1, <3>2, SayOrdered DEF Good
    <3> HIDE DEF z
    <3>5. Good(z)
      BY <3>1, <3>2, <3>3
      DEF Good, CeremonySafe, VerdictsSafe, FlightsSafe, KeepsCeremony, armed, awaitingResend
    <3> QED BY <2>2, <3>4, <3>5 DEF z
  <2> QED BY <2>1, <2>2
<1> HIDE DEF unsent
<1>2. /\ inDoubt \in Intent /\ inDoubt.status = unsent.intent.status
      /\ inDoubt.intentId = unsent.intent.intentId /\ inDoubt.quote = unsent.intent.quote
      /\ inDoubt.pollExhausted = unsent.intent.pollExhausted
      /\ inDoubt.notSent = unsent.intent.notSent
      /\ inDoubt.mayHaveMoved = unsent.intent.mayHaveMoved
  BY <1>1, FieldTypes DEF Intent, Good
<1> HIDE DEF inDoubt
<1>3. Good(patch(unsent, inDoubt))
  BY <1>1, <1>2, SamePatchGood
<1>4. /\ Ordered(patch(unsent, inDoubt)) /\ Stands(unsent, patch(unsent, inDoubt))
      /\ SameWatch(unsent, patch(unsent, inDoubt)) /\ patch(unsent, inDoubt).sign = unsent.sign
  <2>1. Typed(unsent) /\ unsent.sign.stage # "execute" /\ InFlight(unsent)
    BY <1>1 DEF Good, Stands, InFlight
  <2> QED BY <1>1, <1>2, <2>1, SayOrdered
<1>5. /\ Good(read) /\ Ordered(read) /\ Stands(unsent, read) /\ SameWatch(unsent, read)
      /\ read.sign = unsent.sign
  <2> DEFINE z == patch(unsent, inDoubt)
  <2> HIDE DEF z
  <2>1. read = z \/ read = unsent
    BY DEF z
  <2>2. Stands(unsent, unsent) /\ SameWatch(unsent, unsent)
    BY DEF Stands, SameWatch
  <2> HIDE DEF read
  <2> QED BY <1>1, <1>3, <1>4, <2>1, <2>2 DEF z
<1> HIDE DEF read
<1>6. Stands(x, read) /\ SameWatch(x, read)
  BY <1>1, <1>5 DEF Stands, SameWatch
<1> QED BY <1>1, <1>5, <1>6 DEF read, inDoubt, unsent, notSent

\* The order at the end of a read: further along, told to be under way, or at its end.
Read(x, y, r, q) ==
    \/ Proceeds(x, y, q)
    \/ r.kind = "data" /\ Answered(x, y, r.status, r.marker, q)
    \/ r.kind = "notFound" /\ Ended(x, y, "failed", TRUE)

\* What stands after a read was read.
LEMMA StandsRead ==
    ASSUME NEW x, NEW y, NEW z, NEW r, NEW q, Read(x, y, r, q), Stands(y, z), Ordered(z)
    PROVE  Read(x, z, r, q)
<1>1. CASE Proceeds(x, y, q)
  BY <1>1, StandsGoes DEF Read, Proceeds
<1>2. CASE r.kind = "data" /\ Answered(x, y, r.status, r.marker, q)
  BY <1>2, StandsAnswered DEF Read
<1>3. CASE r.kind = "notFound" /\ Ended(x, y, "failed", TRUE)
  BY <1>3 DEF Read, Ended, Stands
<1> QED BY <1>1, <1>2, <1>3 DEF Read

\* Every answer to a read, late, foreign, empty or 404.
LEMMA OnStatusGoes ==
    ASSUME NEW x, Good(x), Ordered(x), NEW gen, NEW attempt \in Nat, NEW r,
           x.poll.live => InFlight(x) /\ x.poll.intentId = x.intent.intentId,
           x.poll.live /\ x.poll.gen = gen => x.sign.stage # "execute",
           r.kind = "data" => StatusUpdate(r), TerminalRead(x, r), NEW n, NEW q
    PROVE  Read(x, onStatus(x, gen, attempt, r, n), r, q)
<1> DEFINE y == onStatus(x, gen, attempt, r, n)
           ok == r.kind # "threw"
           a == IF ok THEN Max({x.poll.answered, attempt}) ELSE x.poll.answered
           answer == [x.poll EXCEPT !.answered = a]
           notSent == [x.intent EXCEPT !.notSent = TRUE]
           unsent == IF readsNotSent(x, attempt, r) THEN patch(x, notSent) ELSE x
           inDoubt == [unsent.intent EXCEPT !.reconciling = TRUE]
           read == IF escalatesToReconcile(unsent, attempt) THEN patch(unsent, inDoubt)
                   ELSE unsent
           swept == r.kind = "notFound" /\ sweptPastFinish(read, n)
           ended == [read.intent EXCEPT !.reconciling = FALSE, !.mayHaveMoved = FALSE]
           failed == transition(read, "failed", ended)
           told == applyStatusUpdate(read, r)
           next == IF swept THEN failed ELSE IF r.kind = "data" THEN told ELSE read
           stop == \/ swept /\ next.intent.status = "failed"
                   \/ r.kind = "data" /\ r.terminal
           stopped == [answer EXCEPT !.stopped = TRUE]
           restarted == [answer EXCEPT !.spent = 0]
           current == x.poll.live /\ x.poll.gen = gen
<1>1. CASE ~current
  <2>1. y = x
    BY <1>1 DEF onStatus
  <2>2. Stands(x, x)
    BY DEF Stands
  <2> QED BY <2>1, <2>2, StandsGoes DEF Read, Proceeds
<1>2. CASE current
  <2>1. InFlight(x) /\ x.poll.intentId = x.intent.intentId /\ x.sign.stage # "execute"
    BY <1>2
  <2>2. /\ Good(read) /\ Ordered(read) /\ Stands(x, read) /\ SameWatch(x, read)
        /\ read.sign = x.sign
    BY <2>1, ReadStands
  <2> HIDE DEF read
  <2>3. InFlight(read) /\ Typed(read) /\ read.intent.intentId # None
    BY <2>1, <2>2, StatusSets DEF Stands, InFlight, Good, Ordered
  <2>4. Read(x, read, r, q)
    BY <2>2, StandsGoes DEF Read, Proceeds
  <2>5. ASSUME swept
        PROVE  /\ Read(x, failed, r, q) /\ Typed(failed) /\ Ordered(failed) /\ SameWatch(x, failed)
               /\ failed.intent.intentId = x.intent.intentId /\ ~InFlight(failed)
    <3>1. read.intent.status = "executing"
      BY <2>2, <2>5 DEF sweptPastFinish, Good, VerdictsSafe
    <3>2. canTransitionTo("executing", "failed") /\ "failed" \in IntentStatus
          /\ "failed" \notin POLL_INFLIGHT_STATES
      BY DEF canTransitionTo, INTENT_STATUS_TRANSITIONS, IntentStatus, POLL_INFLIGHT_STATES
    <3>3. /\ ended \in Intent /\ ended.intentId = read.intent.intentId
          /\ ended.quote = read.intent.quote /\ ~ended.reconciling /\ ended.mayHaveMoved = FALSE
          /\ ended.pollExhausted = read.intent.pollExhausted
      BY <2>2, FieldTypes DEF Intent
    <3> HIDE DEF ended
    <3>4. read.sign.stage # "execute"
      BY <2>1, <2>2
    <3>5. /\ Ordered(failed) /\ Typed(failed) /\ SameWatch(read, failed)
          /\ failed.asks = read.asks /\ failed.intent.status = "failed"
          /\ failed.intent.intentId = read.intent.intentId
          /\ failed.intent.quote = read.intent.quote
          /\ failed.intent.mayHaveMoved = ended.mayHaveMoved
      BY <2>2, <2>3, <3>1, <3>2, <3>3, <3>4, MoveOrdered
    <3> HIDE DEF failed
    <3>6. Ended(x, failed, "failed", TRUE)
      BY <2>1, <2>2, <3>3, <3>5 DEF Ended, Stands
    <3>7. r.kind = "notFound"
      BY <2>5
    <3>8. Read(x, failed, r, q)
      BY <3>6, <3>7 DEF Read
    <3>9. SameWatch(x, failed) /\ failed.intent.intentId = x.intent.intentId
      BY <2>2, <3>5 DEF SameWatch, Stands
    <3> QED BY <3>2, <3>5, <3>8, <3>9 DEF InFlight
  <2>6. ASSUME r.kind = "data"
        PROVE  /\ Read(x, told, r, q) /\ Typed(told) /\ Ordered(told) /\ SameWatch(x, told)
               /\ told.intent.intentId = x.intent.intentId
               /\ r.terminal => ~InFlight(told)
    <3>1. StatusUpdate(r) /\ (r.unmapped => read.sign.stage # "execute")
      BY <2>1, <2>2, <2>6
    <3>2. /\ Answered(read, told, r.status, r.marker, q) /\ SameWatch(read, told)
          /\ Ordered(told) /\ Typed(told) /\ told.intent.intentId = read.intent.intentId
          /\ r.status = read.intent.status \/ canTransitionTo(read.intent.status, r.status)
                => told.intent.status = r.status
      BY <2>2, <2>3, <3>1, ApplyStatusGoes
    <3> HIDE DEF told
    <3>3. Answered(x, told, r.status, r.marker, q)
      BY <2>2, <3>2, StandsAnswered
    <3>4. ASSUME r.terminal PROVE ~InFlight(told)
      <4>1. canTransitionTo(x.intent.status, r.status)
        BY <2>1, <2>6, <3>4, TerminalEdges
      <4>2. told.intent.status = r.status
        BY <2>2, <3>2, <4>1 DEF Stands
      <4>3. r.status \in {"completed", "refunded", "failed", "expired"}
        BY <2>6, <3>4 DEF TerminalRead
      <4> QED BY <4>2, <4>3 DEF InFlight, POLL_INFLIGHT_STATES
    <3> QED BY <2>2, <2>6, <3>2, <3>3, <3>4 DEF Read, SameWatch, Stands
  <2>7. /\ Read(x, next, r, q) /\ Typed(next) /\ Ordered(next) /\ SameWatch(x, next)
        /\ next.intent.intentId = x.intent.intentId
        /\ stop => ~InFlight(next)
    <3> HIDE DEF swept, failed, told
    <3>1. CASE swept
      <4>1. r.kind = "notFound"
        BY <3>1 DEF swept
      <4> QED BY <2>5, <3>1, <4>1
    <3>2. CASE ~swept /\ r.kind = "data"
      BY <2>6, <3>2
    <3>3. CASE ~swept /\ r.kind # "data"
      BY <2>2, <2>3, <2>4, <3>3 DEF Stands
    <3> QED BY <3>1, <3>2, <3>3
  <2> HIDE DEF next, stop
  <2>8. answer \in PollState
    <3>1. x.poll \in PollState /\ x.poll.answered \in Nat
      BY FieldTypes DEF PollState
    <3>2. a \in Nat
      <4> DEFINE p == x.poll.answered
      <4>1. p \in Int /\ attempt \in Int
        BY <3>1
      <4> HIDE DEF p
      <4>2. Max({p, attempt}) \in {p, attempt}
        BY <4>1, MaxOfTwo
      <4> QED BY <3>1, <4>2 DEF p
    <3> HIDE DEF a
    <3> QED BY <3>1, <3>2 DEF PollState
  <2>9. /\ answer.live = x.poll.live /\ answer.gen = x.poll.gen
        /\ answer.intentId = x.poll.intentId /\ answer.resend = x.poll.resend
    <3> HIDE DEF a
    <3> QED BY FieldTypes DEF PollState
  <2> HIDE DEF answer
  <2>10. /\ stopped \in PollState /\ stopped.live = x.poll.live /\ stopped.gen = x.poll.gen
         /\ stopped.intentId = x.poll.intentId /\ stopped.resend = x.poll.resend
         /\ restarted \in PollState /\ restarted.live = x.poll.live /\ restarted.gen = x.poll.gen
         /\ restarted.intentId = x.poll.intentId /\ restarted.resend = x.poll.resend
    BY <2>8, <2>9 DEF PollState
  <2> HIDE DEF stopped, restarted
  <2>11. next.poll = x.poll
    BY <2>7 DEF SameWatch
  <2> DEFINE z1 == [clearTimer(next, "poll") EXCEPT !.poll = stopped]
             z2 == [next EXCEPT !.poll = restarted]
             z3 == [next EXCEPT !.poll = answer]
             z4 == exhaustPoll(z3)
  <2>12. ASSUME stop PROVE Ordered(z1) /\ Stands(next, z1)
    BY <2>7, <2>10, <2>11, <2>12, StopOrdered
  <2>13. Ordered(z2) /\ Stands(next, z2)
    BY <2>7, <2>10, <2>11, RecountOrdered
  <2>14. Typed(z3) /\ Ordered(z3) /\ Stands(next, z3) /\ z3.intent = next.intent /\ z3.poll = answer
    BY <2>7, <2>8, <2>9, <2>11, RecountOrdered
  <2>15. Ordered(z4) /\ Stands(next, z4)
    <3> HIDE DEF z3
    <3>1. z3.poll.intentId = z3.intent.intentId
      BY <2>1, <2>7, <2>9, <2>14
    <3>2. Ordered(z4) /\ Stands(z3, z4)
      BY <2>14, <3>1, ExhaustOrdered
    <3> QED BY <2>14, <3>2 DEF Stands
  <2>16. y = x \/ (stop /\ y = z1) \/ y = z2 \/ y = z3 \/ y = z4
    BY DEF onStatus, stop, stopped, restarted, answer, next, told, failed, swept, read, unsent
  <2> HIDE DEF y, z1, z2, z3, z4
  <2>17. Read(x, x, r, q)
    <3>1. Stands(x, x)
      BY DEF Stands
    <3> QED BY <3>1, StandsGoes DEF Read, Proceeds
  <2>18. y # x => Stands(next, y) /\ Ordered(y)
    BY <2>12, <2>13, <2>14, <2>15, <2>16
  <2> QED BY <2>7, <2>17, <2>18, StandsRead DEF y
<1> QED BY <1>1, <1>2

-----------------------------------------------------------------------------
(* The rules. *)

\* What the rules make of an intent: nothing, or an idle one, or an expired quote.
Ruled(x, y) ==
    \/ y.intent = x.intent
    \/ ~InFlight(x) /\ y.intent.status \in {"idle", "expired"}

\* The expiry a quote on screen counts down to, and what has been seen of it.
ExpiryKey(x) ==
    IF x.intent.status = "quoted" /\ x.intent.quote.held /\ x.intent.quote.address = None
    THEN x.intent.quote.expiry ELSE Never
Tracks(x) == ExpiryKey(x) \in {x.watched.expiry, Never}
CountsDown(x) == armed(x, "expiry") => x.intent.status = "quoted"

\* Two rules leave what each leaves.
LEMMA RuledTrans ==
    ASSUME NEW x, NEW y, NEW z, Ruled(x, y), Ruled(y, z)
    PROVE  Ruled(x, z)
BY DEF Ruled, InFlight

\* A model with something seen goes along.
LEMMA SeenAlong ==
    ASSUME NEW x, Typed(x), NEW w, [x EXCEPT !.watched = w] \in Model,
           w.expiry = x.watched.expiry, NEW q
    PROVE  LET y == [x EXCEPT !.watched = w]
           IN  Typed(y) /\ Along(x, y, q) /\ y.intent = x.intent
<1> DEFINE y == [x EXCEPT !.watched = w]
<1>1. /\ Typed(y) /\ y.intent = x.intent /\ y.sign = x.sign /\ y.asks = x.asks
      /\ y.poll = x.poll /\ y.timers = x.timers /\ y.watched = w
  BY DEF Typed, Model
<1> HIDE DEF y
<1>2. SameWatch(x, y)
  BY <1>1 DEF SameWatch
<1> QED BY <1>1, <1>2, AlongAgrees DEF y

\* A wallet change drops a quote or a ceremony, never an order.
LEMMA WatchWalletAlong ==
    ASSUME NEW x, Good(x), NEW q
    PROVE  /\ Along(x, watchWallet(x), q) /\ Ruled(x, watchWallet(x))
           /\ ExpiryKey(watchWallet(x)) \in {ExpiryKey(x), Never}
<1> DEFINE y == watchWallet(x)
           key == [address |-> x.ctx.address, chainId |-> x.ctx.chainId,
                   quotedAddress |-> x.intent.quotedAddress,
                   quotedChainId |-> x.intent.quotedChainId]
           w == [x.watched EXCEPT !.wallet = key]
           next == [x EXCEPT !.watched = w]
           quiet == clearTimers(next, {"debounce", "refresh", "signPrompt"})
           z == [quiet EXCEPT !.intent = INITIAL_INTENT_STATE, !.refresh = NoRefresh,
                              !.awaitingPull = FALSE, !.isSigningPull = FALSE,
                              !.pendingIntentSig = None, !.sign = NoSign]
<1>1. x \in Model /\ x.watched \in Watched
  BY DEF Good, Typed, Model, Watched
<1>2. w \in Watched /\ w.expiry = x.watched.expiry
  <2>1. /\ x.ctx.address \in OrNone(Wallets) /\ x.ctx.chainId \in OrNone(Chains)
        /\ x.intent.quotedAddress \in OrNone(Wallets)
        /\ x.intent.quotedChainId \in OrNone(Chains)
    BY FieldTypes DEF Context, Intent
  <2>2. key \in [address : OrNone(Wallets), chainId : OrNone(Chains),
                 quotedAddress : OrNone(Wallets), quotedChainId : OrNone(Chains)]
    BY <2>1
  <2>3. key \in OrNone([address : OrNone(Wallets), chainId : OrNone(Chains),
                        quotedAddress : OrNone(Wallets), quotedChainId : OrNone(Chains)])
    <3> HIDE DEF key
    <3>1. QED BY <2>2 DEF OrNone
  <2> HIDE DEF key
  <2> QED BY <1>1, <2>3 DEF Watched
<1>3. [x EXCEPT !.watched.wallet = key] = next
  BY <1>1 DEF Model
<1>4. y = x \/ y = next \/ (x.intent.status \in WALLET_INTERRUPTIBLE_STATES /\ y = z)
  BY <1>3 DEF watchWallet
<1> HIDE DEF y, key
<1>5. next \in Model
  BY <1>1, <1>2 DEF Model, Watched
<1>6. Typed(next) /\ Along(x, next, q) /\ next.intent = x.intent
  <2> HIDE DEF w
  <2> QED BY <1>2, <1>5, SeenAlong DEF Good
<1> HIDE DEF next
<1>7. Typed(quiet) /\ Along(x, quiet, q) /\ quiet.intent = x.intent
  <2>1. "poll" \notin {"debounce", "refresh", "signPrompt"}
        /\ "expiry" \notin {"debounce", "refresh", "signPrompt"}
    OBVIOUS
  <2>2. quiet.intent = next.intent
    BY <1>6, ClearTimersFrame
  <2> QED BY <1>6, <2>1, <2>2, ClearTimersAlong, AlongTrans
<1> HIDE DEF quiet
<1>8. ASSUME x.intent.status \in WALLET_INTERRUPTIBLE_STATES
      PROVE  /\ Along(x, z, q) /\ Ruled(x, z) /\ ExpiryKey(z) = Never
  <2>1. /\ z.intent = INITIAL_INTENT_STATE /\ z.sign = NoSign /\ z.asks = quiet.asks
        /\ z.poll = quiet.poll /\ z.timers = quiet.timers /\ z.watched = quiet.watched
    BY <1>7, ZenonT(60) DEF Typed, Model
  <2>2. /\ INITIAL_INTENT_STATE.status = "idle" /\ INITIAL_INTENT_STATE.intentId = None
        /\ ~INITIAL_INTENT_STATE.reconciling /\ ~INITIAL_INTENT_STATE.quote.canSolve
    BY DEF INITIAL_INTENT_STATE, NoQuote
  <2> HIDE DEF z
  <2>3. ~InFlight(x)
    BY <1>8 DEF InFlight, WALLET_INTERRUPTIBLE_STATES, POLL_INFLIGHT_STATES
  <2>4. "idle" \notin POLL_INFLIGHT_STATES /\ "idle" \notin QUOTE_BUSY_STATES
    BY DEF POLL_INFLIGHT_STATES, QUOTE_BUSY_STATES
  <2>5. Onward(quiet.intent, z.intent, q)
    BY <1>7, <2>1, <2>2, <2>3, <2>4, StatusSets DEF Onward, InFlight
  <2>6. SameWatch(quiet, z) /\ Signs(quiet, z)
    BY <2>1 DEF SameWatch, Signs, NoSign
  <2>7. Along(quiet, z, q)
    BY <2>1, <2>5, <2>6, AlongFrame
  <2>8. ExpiryKey(z) = Never
    BY <2>1, <2>2 DEF ExpiryKey
  <2> QED BY <1>7, <2>1, <2>2, <2>3, <2>7, <2>8, AlongTrans DEF Ruled
<1>9. /\ Along(x, x, q) /\ Ruled(x, x) /\ ExpiryKey(x) \in {ExpiryKey(x), Never}
      /\ Ruled(x, next) /\ ExpiryKey(next) \in {ExpiryKey(x), Never}
  BY <1>6, AlongSelf DEF Ruled, ExpiryKey
<1> HIDE DEF z
<1> QED BY <1>4, <1>6, <1>8, <1>9 DEF y

\* A silent quote leaves the intent alone.
LEMMA SilentQuoteKeeps ==
    ASSUME NEW x, Typed(x), NEW o \in QuoteOpts, o.silent
    PROVE  startQuote(x, o).intent = x.intent
<1> DEFINE y == startQuote(x, o)
           access == quoteAccessDecision(x.ctx.address # None, x.ctx.trade, o.ref # 0)
           g == [id |-> nextId(x), stage |-> "session", amount |-> o.amount,
                 silent |-> o.silent, ref |-> o.ref, ctx |-> x.ctx,
                 preview |-> access = "preview"]
           told == endAllocation(x, o.ref, FALSE)
           dropped == withoutFlight(told, g.id)
           sent == [g EXCEPT !.stage = "api"]
           put == putFlight(x, g)
           api == putFlight(x, sent)
           ask == [NoAsk EXCEPT !.op = "session", !.id = g.id]
           call == [NoAsk EXCEPT !.op = "quote", !.id = g.id]
<1>1. g.silent /\ g.ref = o.ref
  OBVIOUS
<1>2. sendQuote(x, g) = dropped \/ sendQuote(x, g) = perform(api, call)
  BY DEF sendQuote
<1>3. y = told \/ y = perform(put, ask) \/ y = sendQuote(x, g)
  BY DEF startQuote
<1>4. /\ \A v, f : putFlight(v, f).intent = v.intent
      /\ \A v, a : perform(v, a).intent = v.intent
  <2>1. ASSUME NEW v, NEW f PROVE putFlight(v, f).intent = v.intent
    BY DEF putFlight
  <2>2. ASSUME NEW v, NEW a PROVE perform(v, a).intent = v.intent
    BY DEF perform
  <2> QED BY <2>1, <2>2
<1> HIDE DEF y, told, dropped, put, api, ask, call, g, sent
<1>5. put.intent = x.intent /\ api.intent = x.intent
  BY <1>4 DEF put, api
<1>6. told.intent = x.intent /\ dropped.intent = x.intent
  <2>1. Typed(told) /\ told.intent = x.intent
    BY FlightsAlong DEF told
  <2>2. dropped.intent = told.intent
    BY <2>1, FlightsAlong DEF dropped
  <2> QED BY <2>1, <2>2
<1> QED BY <1>2, <1>3, <1>4, <1>5, <1>6 DEF y

\* The upgrade of a preview leaves the intent alone.
LEMMA UpgradePreviewAlong ==
    ASSUME NEW x, Good(x), NEW q
    PROVE  Along(x, upgradePreview(x), q) /\ upgradePreview(x).intent = x.intent
<1> DEFINE y == upgradePreview(x)
           key == [trade |-> tradeKey(x.ctx), amount |-> x.amount,
                   preview |-> x.intent.quote.preview, status |-> x.intent.status]
           w == [x.watched EXCEPT !.upgrade = key]
           next == [x EXCEPT !.watched = w]
           opts == [quoteOpts(x.amount) EXCEPT !.silent = TRUE]
<1>1. x \in Model /\ x.watched \in Watched
  BY DEF Good, Typed, Model, Watched
<1>2. w \in Watched /\ w.expiry = x.watched.expiry
  <2>1. x.ctx \in Context /\ x.intent \in Intent /\ x.amount \in AmountField
    BY <1>1 DEF Model
  <2>2. /\ tradeKey(x.ctx) \in TradeKey /\ x.intent.quote.preview \in BOOLEAN
        /\ x.intent.status \in IntentStatus
    BY <2>1, TradeKeyType DEF Intent, Quote
  <2>3. key \in [trade : TradeKey, amount : AmountField, preview : BOOLEAN,
                 status : IntentStatus]
    BY <2>1, <2>2
  <2>4. key \in OrNone([trade : TradeKey, amount : AmountField, preview : BOOLEAN,
                        status : IntentStatus])
    <3> HIDE DEF key
    <3>1. QED BY <2>3 DEF OrNone
  <2> HIDE DEF key
  <2> QED BY <1>1, <2>4 DEF Watched
<1>3. [x EXCEPT !.watched.upgrade = key] = next
  BY <1>1 DEF Model
<1>4. y = x \/ y = next \/ (x.intent.status = "quoted" /\ y = startQuote(next, opts))
  BY <1>3 DEF upgradePreview, shouldUpgradePreviewQuote
<1> HIDE DEF y, key, w
<1>5. next \in Model
  BY <1>1, <1>2 DEF Model, Watched
<1>6. Typed(next) /\ Along(x, next, q) /\ next.intent = x.intent
  BY <1>2, <1>5, SeenAlong DEF Good
<1> HIDE DEF next
<1>7. opts \in QuoteOpts /\ opts.silent
  BY <1>1 DEF Model, QuoteOpts, quoteOpts
<1> HIDE DEF opts
<1>8. x.intent.status = "quoted" => /\ Along(next, startQuote(next, opts), q)
                                    /\ startQuote(next, opts).intent = x.intent
  BY <1>6, <1>7, StartQuoteAlong, SilentQuoteKeeps DEF QUOTE_BUSY_STATES
<1> QED BY <1>4, <1>6, <1>8, AlongSelf, AlongTrans DEF y

\* The countdown of a quote on screen is armed, or disarmed with it.
LEMMA ArmExpiryCarries ==
    ASSUME NEW x, Good(x), Ordered(x), NEW n, NEW q
    PROVE  LET y == armExpiry(x, n)
           IN  /\ Carries(x, y, q) /\ Ordered(y) /\ Ruled(x, y) /\ Tracks(y)
               /\ Tracks(x) => CountsDown(y)
<1> DEFINE y == armExpiry(x, n)
           key == ExpiryKey(x)
           w == [x.watched EXCEPT !.expiry = key]
           due == IF key = Never THEN Never ELSE AtOnce
           seen == [x EXCEPT !.watched = w]
           next == setTimer(seen, "expiry", due)
           ticked == tickExpiry(next, n)
<1>1. x \in Model /\ x.watched \in Watched
  BY DEF Good, Typed, Model, Watched
<1>2. key \in Times /\ due \in Times
  <2>1. x.intent.quote.expiry \in Times
    BY FieldTypes DEF Quote
  <2> QED BY <2>1 DEF Times, Never, AtOnce, ExpiryKey
<1>3. [x EXCEPT !.watched.expiry = key, !.timers["expiry"] = due] = next
  <2> HIDE DEF key, due
  <2> QED BY <1>1 DEF Model, setTimer
<1>4. \/ key = x.watched.expiry /\ y = x
      \/ key # x.watched.expiry /\ key = Never /\ y = next
      \/ key # x.watched.expiry /\ key # Never /\ y = ticked
  BY <1>3 DEF armExpiry, ExpiryKey
<1>5. key # Never => x.intent.status = "quoted"
  BY DEF ExpiryKey
<1> HIDE DEF y, key
<1>6. w \in Watched /\ w.expiry = key
  BY <1>1, <1>2 DEF Watched
<1>7. due # Never => key # Never
  OBVIOUS
<1> HIDE DEF w, due
<1>8. seen \in Model
  BY <1>1, <1>6 DEF Model, Watched
<1>9. Good(seen)
  BY <1>8, WatchedGood
<1>10. Good(next) /\ next.watched = w /\ next.intent = x.intent /\ next.sign = x.sign
       /\ next.asks = x.asks /\ next.poll = x.poll /\ next.timers["poll"] = x.timers["poll"]
       /\ next.timers["expiry"] = due
  <2>1. "expiry" \in TimerName \ {"signPrompt", "execute"} /\ "poll" \in TimerName
    BY DEF TimerName
  <2>2. /\ seen.watched = w /\ seen.intent = x.intent /\ seen.sign = x.sign
        /\ seen.asks = x.asks /\ seen.poll = x.poll /\ seen.timers = x.timers
    BY <1>1 DEF Model
  <2> HIDE DEF seen
  <2>3. Good(next)
    BY <1>2, <1>9, <2>1, SetTimerGood
  <2>4. seen.timers \in [TimerName -> Times]
    BY <1>9 DEF Good, Typed, Model
  <2>5. /\ next.watched = seen.watched /\ next.intent = seen.intent /\ next.sign = seen.sign
        /\ next.asks = seen.asks /\ next.poll = seen.poll
        /\ next.timers = [seen.timers EXCEPT !["expiry"] = due]
    BY DEF setTimer
  <2> HIDE DEF next
  <2> QED BY <2>1, <2>2, <2>3, <2>4, <2>5
<1> HIDE DEF seen, next
<1>11. Carries(x, next, q) /\ Ruled(x, next)
  BY <1>10 DEF Carries, Ruled, InFlight
<1>12. Ordered(next)
  BY <1>6, <1>7, <1>10 DEF Ordered, armed, InFlight
<1>13. ExpiryKey(next) = key
  BY <1>10 DEF ExpiryKey, key
<1>14. CASE key = x.watched.expiry /\ y = x
  <2>1. Carries(x, x, q)
    BY DEF Carries
  <2>2. Tracks(x)
    BY <1>14 DEF Tracks, key
  <2>3. CountsDown(x)
    BY <1>5, <1>14 DEF CountsDown, Ordered
  <2> QED BY <1>14, <2>1, <2>2, <2>3 DEF Ruled, y
<1>15. CASE key # x.watched.expiry /\ key = Never /\ y = next
  <2>1. Tracks(next)
    BY <1>13, <1>15 DEF Tracks
  <2>2. CountsDown(next)
    BY <1>7, <1>10, <1>15 DEF CountsDown, armed
  <2> QED BY <1>11, <1>12, <1>15, <2>1, <2>2 DEF y
<1>16. CASE key # x.watched.expiry /\ key # Never /\ y = ticked
  <2>1. x.intent.status = "quoted" /\ next.intent.status = "quoted" /\ ~InFlight(next)
        /\ ~InFlight(x)
    BY <1>5, <1>10, <1>16 DEF InFlight, POLL_INFLIGHT_STATES
  <2>2. Along(next, ticked, q)
    BY <1>10, <2>1, TickExpiryAlong DEF Good
  <2>3. Good(ticked)
    BY <1>10, TickExpiryGood
  <2>4. ticked.intent = next.intent \/ ticked.intent.status = "expired"
    <3>1. ticked = next \/ ticked = transition(next, "expired", next.intent)
      BY DEF tickExpiry
    <3>2. /\ Typed(next) /\ next.intent \in Intent /\ "expired" \in IntentStatus
      BY <1>10, FieldTypes, RestStatuses DEF Good
    <3> DEFINE t == transition(next, "expired", next.intent)
    <3>3. t = next \/ t.intent = movedTo(next.intent, "expired")
      BY <3>2, MoveFrame
    <3>4. movedTo(next.intent, "expired").status = "expired"
      BY <3>2 DEF movedTo, Intent
    <3> HIDE DEF t, ticked
    <3> QED BY <3>1, <3>3, <3>4 DEF t
  <2> HIDE DEF ticked
  <2>5. Carries(x, ticked, q)
    BY <1>11, <2>2, CarriesTrans DEF Along
  <2>6. Ordered(ticked)
    BY <1>12, <2>2, <2>3, AlongOrdered
  <2>7. Ruled(x, ticked)
    BY <1>10, <2>1, <2>4 DEF Ruled
  <2>8. ticked.watched.expiry = key
    BY <1>6, <1>10, <2>2 DEF Along, Watches
  <2>9. Tracks(ticked)
    BY <1>13, <2>4, <2>8 DEF Tracks, ExpiryKey
  <2>10. ~Tracks(x)
    BY <1>16 DEF Tracks, key
  <2> QED BY <1>16, <2>5, <2>6, <2>7, <2>9, <2>10 DEF y
<1> QED BY <1>4, <1>14, <1>15, <1>16

\* The poll that is due is armed, and no other.
LEMMA ArmPollCarries ==
    ASSUME NEW x, Good(x), Ordered(x), NEW n \in Nat, NEW q
    PROVE  LET y == armPoll(x, n)
           IN  /\ Carries(x, y, q) /\ Ordered(y) /\ y.intent = x.intent
               /\ y.watched = x.watched /\ y.timers["expiry"] = x.timers["expiry"]
               /\ y.poll.live <=> Due(y)
               /\ y.poll.live => /\ y.poll.intentId = y.intent.intentId
                                 /\ y.poll.resend = awaitingResend(y)
<1> DEFINE y == armPoll(x, n)
           i == x.intent
           k == pollCeilingAttempts(i.status, i.depositDeadline, n, unexecutedFinishAt(i.quote))
           poll == [NoPoll EXCEPT !.live = TRUE, !.intentId = i.intentId, !.phase = i.status,
                                  !.resend = awaitingResend(x), !.gen = nextId(x), !.max = k]
           quiet == clearTimer(x, "poll")
           due == n + STATUS_POLL
           timed == setTimer(x, "poll", due)
           off == [quiet EXCEPT !.poll = NoPoll]
           next == [timed EXCEPT !.poll = poll]
           ticked == pollTick(next, FALSE)
<1>1. \/ /\ y = x /\ Due(x) = x.poll.live
         /\ x.poll.live => x.poll.intentId = x.intent.intentId
                           /\ x.poll.resend = awaitingResend(x)
      \/ ~Due(x) /\ y = off
      \/ Due(x) /\ awaitingResend(x) /\ y = next
      \/ Due(x) /\ ~awaitingResend(x) /\ y = ticked
  BY DEF armPoll, Due, InFlight
<1> HIDE DEF y
<1>2. Typed(x) /\ x \in Model
  BY DEF Good, Typed
<1>3. /\ poll \in PollState /\ poll.live /\ poll.intentId = x.intent.intentId
      /\ poll.resend = awaitingResend(x) /\ poll.gen = nextId(x)
  <2>1. k \in Int
    <3>1. i.depositDeadline \in Int /\ unexecutedFinishAt(i.quote) \in Int
      BY FieldTypes, UnexecutedFinishType DEF Intent, Times
    <3> QED BY <3>1, PollCeilingType
  <2>2. nextId(x) \in Nat
    BY NextIdFresh DEF Good
  <2>3. i.intentId \in OrNone(Intents) /\ i.status \in IntentStatus
    BY FieldTypes
  <2>4. awaitingResend(x) \in BOOLEAN
    BY DEF awaitingResend
  <2> HIDE DEF k
  <2> DEFINE id == nextId(x)
             waiting == awaitingResend(x)
  <2> HIDE DEF id, waiting
  <2>5. poll = [NoPoll EXCEPT !.live = TRUE, !.intentId = i.intentId, !.phase = i.status,
                              !.resend = waiting, !.gen = id, !.max = k]
    BY DEF id, waiting
  <2>6. id \in Nat /\ waiting \in BOOLEAN
    BY <2>2, <2>4 DEF id, waiting
  <2> HIDE DEF poll
  <2>7. /\ poll.live /\ poll.intentId = i.intentId /\ poll.resend = waiting /\ poll.gen = id
    BY <2>5 DEF NoPoll
  <2>8. poll \in PollState
    BY <2>1, <2>3, <2>5, <2>6 DEF PollState, NoPoll, Times
  <2> QED BY <2>7, <2>8 DEF id, waiting
<1> HIDE DEF poll
<1>4. "poll" \in TimerName \ {"signPrompt", "execute"} /\ due \in Times /\ due # Never
      /\ "expiry" \in TimerName \ {"poll"}
  BY DecisionConstants DEF TimerName, Times, Never
<1> HIDE DEF due
<1>5. \A a \in x.asks : a.id # nextId(x)
  BY <1>2, NextIdFresh DEF idsHeld
<1>6. /\ off.poll = NoPoll /\ off.intent = x.intent /\ off.sign = x.sign /\ off.asks = x.asks
      /\ off.watched = x.watched /\ off.timers["expiry"] = x.timers["expiry"]
  <2>1. /\ quiet.intent = x.intent /\ quiet.sign = x.sign /\ quiet.asks = x.asks
        /\ quiet.watched = x.watched /\ quiet.timers["expiry"] = x.timers["expiry"]
        /\ quiet \in Model
    BY <1>2, <1>4 DEF clearTimer, Model, Never, Times
  <2> HIDE DEF quiet
  <2> QED BY <2>1 DEF Model
<1>7. /\ next.poll = poll /\ next.intent = x.intent /\ next.sign = x.sign /\ next.asks = x.asks
      /\ next.watched = x.watched /\ next.timers["expiry"] = x.timers["expiry"]
      /\ next.timers["poll"] = due
  <2>1. /\ timed.intent = x.intent /\ timed.sign = x.sign /\ timed.asks = x.asks
        /\ timed.watched = x.watched /\ timed.timers["expiry"] = x.timers["expiry"]
        /\ timed.timers["poll"] = due /\ timed \in Model
    BY <1>2, <1>4 DEF setTimer, Model
  <2> HIDE DEF timed
  <2> QED BY <1>3, <2>1 DEF Model
<1>8. Good(next)
  <2>1. Good(timed)
    BY <1>4, SetTimerGood
  <2> HIDE DEF timed
  <2> QED BY <1>3, <2>1, PollGood
<1> HIDE DEF off, next
<1>9. CASE y = x /\ Due(x) = x.poll.live
           /\ (x.poll.live => x.poll.intentId = x.intent.intentId
                              /\ x.poll.resend = awaitingResend(x))
  BY <1>9 DEF Carries, y
<1>10. CASE ~Due(x) /\ y = off
  <2>1. ~off.poll.live
    BY <1>6 DEF NoPoll
  <2>2. Carries(x, off, q)
    BY <1>6 DEF Carries, InFlight
  <2>3. Ordered(off)
    BY <1>6, <2>1 DEF Ordered, armed, InFlight
  <2>4. ~Due(off)
    BY <1>6, <1>10 DEF Due, awaitingResend, InFlight
  <2> QED BY <1>6, <1>10, <2>1, <2>2, <2>3, <2>4 DEF y
<1>11. ASSUME Due(x)
       PROVE  /\ Carries(x, next, q) /\ Ordered(next) /\ next.poll.live /\ Due(next)
              /\ awaitingResend(next) = awaitingResend(x)
  <2>1. Carries(x, next, q)
    BY <1>7 DEF Carries, InFlight
  <2>2. armed(next, "poll")
    BY <1>4, <1>7 DEF armed
  <2>3. \A a \in next.asks : a.id # next.poll.gen
    BY <1>3, <1>5, <1>7
  <2>4. armed(next, "expiry") => next.watched.expiry # Never
    BY <1>7 DEF Ordered, armed
  <2>5. Ordered(next)
    BY <1>7, <2>2, <2>3, <2>4 DEF Ordered, InFlight
  <2>6. Due(next) /\ awaitingResend(next) = awaitingResend(x)
    BY <1>7, <1>11 DEF Due, awaitingResend, InFlight
  <2> QED BY <1>3, <1>7, <2>1, <2>5, <2>6
<1>12. CASE Due(x) /\ awaitingResend(x) /\ y = next
  BY <1>3, <1>7, <1>11, <1>12 DEF y
<1>13. CASE Due(x) /\ ~awaitingResend(x) /\ y = ticked
  <2>1. ~next.poll.resend /\ Typed(next)
    BY <1>3, <1>7, <1>8, <1>13 DEF Good
  <2>2. /\ Along(next, ticked, q) /\ ticked.intent = next.intent /\ ticked.sign = next.sign
        /\ ticked.timers = next.timers /\ ticked.watched = next.watched
        /\ ticked.poll.live = next.poll.live /\ ticked.poll.intentId = next.poll.intentId
        /\ ticked.poll.resend = next.poll.resend
    BY <2>1, PollTickAlong
  <2>3. Good(ticked)
    BY <1>8, PollTickGood
  <2> HIDE DEF ticked
  <2>4. Ordered(ticked)
    BY <1>11, <1>13, <2>2, <2>3, AlongOrdered
  <2>5. Carries(x, ticked, q)
    BY <1>11, <1>13, <2>2, CarriesTrans DEF Along
  <2>6. Due(ticked) /\ awaitingResend(ticked) = awaitingResend(next)
    BY <1>11, <1>13, <2>2 DEF Due, awaitingResend, InFlight
  <2> QED BY <1>3, <1>7, <1>11, <1>13, <2>2, <2>4, <2>5, <2>6 DEF y
<1> QED BY <1>1, <1>9, <1>10, <1>12, <1>13

\* One pass of the rules.
LEMMA PassCarries ==
    ASSUME NEW x, Good(x), Ordered(x), NEW n \in Nat, NEW q
    PROVE  LET y == settlePass(x, n)
           IN  /\ Good(y) /\ Carries(x, y, q) /\ Ordered(y) /\ Ruled(x, y) /\ Tracks(y)
               /\ Tracks(x) => Settled(y)
<1> DEFINE a == watchWallet(x)
           b == upgradePreview(a)
           c == armExpiry(b, n)
           y == armPoll(c, n)
<1>1. /\ Good(a) /\ Ordered(a) /\ Along(x, a, q) /\ Ruled(x, a)
      /\ ExpiryKey(a) \in {ExpiryKey(x), Never}
  BY WatchWalletGood, WatchWalletAlong, AlongOrdered
<1> HIDE DEF a
<1>2. Good(b) /\ Ordered(b) /\ Along(a, b, q) /\ b.intent = a.intent
  BY <1>1, UpgradePreviewGood, UpgradePreviewAlong, AlongOrdered
<1> HIDE DEF b
<1>3. Tracks(x) => Tracks(b)
  <2>1. ExpiryKey(b) = ExpiryKey(a)
    BY <1>2 DEF ExpiryKey
  <2>2. b.watched.expiry = x.watched.expiry
    BY <1>1, <1>2 DEF Along, Watches
  <2> QED BY <1>1, <2>1, <2>2 DEF Tracks
<1>4. /\ Good(c) /\ Carries(b, c, q) /\ Ordered(c) /\ Ruled(b, c) /\ Tracks(c)
      /\ Tracks(b) => CountsDown(c)
  BY <1>2, ArmExpiryGood, ArmExpiryCarries
<1> HIDE DEF c
<1>5. /\ Good(y) /\ Carries(c, y, q) /\ Ordered(y) /\ y.intent = c.intent
      /\ y.watched = c.watched /\ y.timers["expiry"] = c.timers["expiry"]
      /\ y.poll.live <=> Due(y)
      /\ y.poll.live => /\ y.poll.intentId = y.intent.intentId
                        /\ y.poll.resend = awaitingResend(y)
  BY <1>4, ArmPollGood, ArmPollCarries
<1> HIDE DEF y
<1>6. Carries(x, y, q)
  <2>1. Carries(x, a, q) /\ Carries(a, b, q)
    BY <1>1, <1>2 DEF Along
  <2>2. Carries(x, b, q)
    BY <2>1, CarriesTrans
  <2>3. Carries(x, c, q)
    BY <1>4, <2>2, CarriesTrans
  <2> QED BY <1>5, <2>3, CarriesTrans
<1>7. Ruled(x, y)
  <2>1. Ruled(x, b)
    BY <1>1, <1>2 DEF Ruled
  <2>2. Ruled(x, c)
    BY <1>4, <2>1, RuledTrans
  <2> QED BY <1>5, <2>2 DEF Ruled
<1>8. Tracks(y)
  BY <1>4, <1>5 DEF Tracks, ExpiryKey
<1>9. Tracks(x) => Settled(y)
  BY <1>3, <1>4, <1>5 DEF Settled, CountsDown, armed
<1>10. settlePass(x, n) = y
  BY DEF settlePass, y, c, b, a
<1> QED BY <1>5, <1>6, <1>7, <1>8, <1>9, <1>10

\* The rules that follow every update: the order stays, and is watched.
LEMMA SettleCarries ==
    ASSUME NEW x, Good(x), Ordered(x), NEW n \in Nat, NEW q
    PROVE  LET y == settle(x, n)
           IN  Carries(x, y, q) /\ Ordered(y) /\ Ruled(x, y) /\ Settled(y)
<1> DEFINE p1 == settlePass(x, n)
           p2 == settlePass(p1, n)
           p3 == settlePass(p2, n)
           p4 == settlePass(p3, n)
<1>1. Good(p1) /\ Carries(x, p1, q) /\ Ordered(p1) /\ Ruled(x, p1) /\ Tracks(p1)
  BY PassCarries
<1> HIDE DEF p1
<1>2. /\ Good(p2) /\ Carries(x, p2, q) /\ Ordered(p2) /\ Ruled(x, p2) /\ Tracks(p2)
      /\ Settled(p2)
  BY <1>1, PassCarries, CarriesTrans, RuledTrans
<1> HIDE DEF p2
<1>3. Good(p3) /\ Carries(x, p3, q) /\ Ordered(p3) /\ Ruled(x, p3) /\ Tracks(p3)
  BY <1>2, PassCarries, CarriesTrans, RuledTrans
<1> HIDE DEF p3
<1>4. Carries(x, p4, q) /\ Ordered(p4) /\ Ruled(x, p4) /\ Settled(p4)
  BY <1>3, PassCarries, CarriesTrans, RuledTrans
<1>5. settle(x, n) = IF p2 = p1 THEN p1 ELSE p4
  BY DEF settle, p4, p3, p2, p1
<1> HIDE DEF p4
<1> QED BY <1>2, <1>4, <1>5

-----------------------------------------------------------------------------
(* Messages of the host. *)

\* The order was given up: by Reset, or by an emptied amount.
Dropped(x, y) ==
    /\ Ordered(y) /\ y.intent = INITIAL_INTENT_STATE /\ y.asks = x.asks

\* A new context may ask for a new quote, never for another order.
LEMMA ContextChangedAlong ==
    ASSUME NEW x, Typed(x), NEW c \in Context, NEW q
    PROVE  Along(x, contextChanged(x, c), q)
<1> DEFINE y == contextChanged(x, c)
           next == [x EXCEPT !.ctx = c]
           timed == setTimer(next, "debounce", AtOnce)
<1>1. y = next \/ y = supersedeFlights(timed) \/ y = supersedeFlights(next)
  BY DEF contextChanged
<1>2. Typed(next) /\ Along(x, next, q)
  BY FormAlong
<1> HIDE DEF y, next
<1>3. Typed(timed) /\ Along(x, timed, q)
  <2>1. "debounce" \in TimerName \ {"poll", "expiry"} /\ AtOnce \in Times
    BY DEF TimerName, AtOnce, Times
  <2> QED BY <1>2, <2>1, SetTimerAlong, AlongTrans
<1> HIDE DEF timed
<1>4. Along(x, supersedeFlights(timed), q) /\ Along(x, supersedeFlights(next), q)
  BY <1>2, <1>3, SupersedeAlong, AlongTrans
<1> QED BY <1>1, <1>2, <1>4 DEF y

\* A model whose order was dropped, with its ceremony: what watches it is left
\* for the rules to take down.
LEMMA DroppedOrdered ==
    ASSUME NEW x, Ordered(x), NEW y, SameWatch(x, y), y.asks = x.asks,
           y.intent = INITIAL_INTENT_STATE, y.sign = NoSign
    PROVE  Dropped(x, y)
<1>1. /\ ~y.intent.reconciling /\ y.intent.status = "idle" /\ y.sign.stage = "none"
  BY DEF INITIAL_INTENT_STATE, NoSign
<1>2. "idle" \notin QUOTE_BUSY_STATES /\ ~InFlight(y)
  BY <1>1 DEF QUOTE_BUSY_STATES, POLL_INFLIGHT_STATES, InFlight
<1>3. armed(y, "expiry") => y.watched.expiry # Never
  BY DEF SameWatch, Ordered, armed
<1>4. y.poll.live => \A a \in y.asks : a.op = "status" /\ a.id = y.poll.gen =>
                        a.intentId = y.poll.intentId /\ ~y.poll.resend
  BY DEF SameWatch, Ordered
<1> QED BY <1>1, <1>2, <1>3, <1>4 DEF Dropped, Ordered

\* An edited amount asks for a new quote; an emptied one may drop the order.
LEMMA QuoteRequestedAlong ==
    ASSUME NEW x, Typed(x), Ordered(x), NEW amount \in AmountField, NEW q
    PROVE  LET y == quoteRequested(x, amount)
           IN  Along(x, y, q) \/ (amount \in {"", "0"} /\ Dropped(x, y))
<1> DEFINE y == quoteRequested(x, amount)
           c == clearTimer(x, "debounce")
           quiet == clearTimer(c, "refresh")
           kept == IF amount = x.amount THEN quiet ELSE supersedeFlights(quiet)
           next == [kept EXCEPT !.amount = amount, !.refresh = NoRefresh]
           idle == patch(next, INITIAL_INTENT_STATE)
           z == abandonSign(idle)
<1>1. \/ y = setTimer(next, "debounce", AtOnce) \/ y = next
      \/ amount \in {"", "0"} /\ y = z
  BY DEF quoteRequested
<1>2. /\ "debounce" \in TimerName \ {"poll", "expiry"}
      /\ "refresh" \in TimerName \ {"poll", "expiry"}
      /\ AtOnce \in Times
  BY DEF TimerName, AtOnce, Times
<1>3. NoRefresh \in Plan
  BY DEF NoRefresh, Plan, AmountField
<1> HIDE DEF y
<1>4. /\ Typed(c) /\ Along(x, c, q) /\ SameWatch(x, c) /\ c.asks = x.asks
  <2>1. Typed(c) /\ Along(x, c, q)
    BY <1>2, ClearTimerAlong
  <2>2. /\ KeepsForm(x, c) /\ KeepsCeremony(x, c) /\ KeepsCalls(x, c)
        /\ c.timers = [x.timers EXCEPT !["debounce"] = Never]
    BY <1>2, ClearTimerFrame
  <2> HIDE DEF c
  <2> QED BY <1>2, <2>1, <2>2, FieldTypes DEF SameWatch, KeepsForm, KeepsCalls, TimerName
<1> HIDE DEF c
<1>5. /\ Typed(quiet) /\ Along(x, quiet, q) /\ SameWatch(x, quiet) /\ quiet.asks = x.asks
  <2>1. Typed(quiet) /\ Along(c, quiet, q)
    BY <1>2, <1>4, ClearTimerAlong
  <2>2. /\ KeepsForm(c, quiet) /\ KeepsCeremony(c, quiet) /\ KeepsCalls(c, quiet)
        /\ quiet.timers = [c.timers EXCEPT !["refresh"] = Never]
    BY <1>2, <1>4, ClearTimerFrame
  <2>3. c.timers \in [TimerName -> Times]
    BY <1>4 DEF Typed, Model
  <2> HIDE DEF quiet
  <2>4. SameWatch(x, quiet) /\ quiet.asks = x.asks
    BY <1>4, <2>2, <2>3 DEF SameWatch, KeepsForm, KeepsCalls, TimerName
  <2>5. Along(x, quiet, q)
    BY <1>4, <2>1, AlongTrans
  <2> QED BY <2>1, <2>4, <2>5
<1> HIDE DEF quiet
<1>6. /\ Typed(kept) /\ Along(x, kept, q) /\ SameWatch(x, kept) /\ kept.asks = x.asks
  <2> DEFINE s == supersedeFlights(quiet)
  <2>1. /\ Typed(s) /\ KeepsForm(quiet, s) /\ s.timers = quiet.timers /\ s.asks = quiet.asks
        /\ Along(quiet, s, q)
    BY <1>5, SupersedeFrame, SupersedeAlong
  <2>2. kept = quiet \/ kept = s
    OBVIOUS
  <2> HIDE DEF s, kept
  <2>3. SameWatch(x, s) /\ s.asks = x.asks
    BY <1>5, <2>1 DEF SameWatch, KeepsForm
  <2>4. Along(x, s, q)
    BY <1>5, <2>1, AlongTrans
  <2> QED BY <1>5, <2>1, <2>2, <2>3, <2>4
<1> HIDE DEF kept
<1>7. /\ Typed(next) /\ Along(x, next, q) /\ SameWatch(x, next) /\ next.asks = x.asks
  <2>1. /\ Typed(next) /\ next.asks = kept.asks /\ next.intent = kept.intent
        /\ next.sign = kept.sign /\ next.poll = kept.poll /\ next.watched = kept.watched
        /\ next.timers = kept.timers
    BY <1>3, <1>6 DEF Typed, Model, Plan
  <2> HIDE DEF next
  <2>2. SameWatch(kept, next)
    BY <2>1 DEF SameWatch
  <2>3. Along(kept, next, q)
    BY <2>1, <2>2, AlongAgrees
  <2>4. Along(x, next, q)
    BY <1>6, <2>3, AlongTrans
  <2>5. SameWatch(x, next) /\ next.asks = x.asks
    BY <1>6, <2>1 DEF SameWatch
  <2> QED BY <2>1, <2>4, <2>5
<1> HIDE DEF next
<1>8. Along(x, setTimer(next, "debounce", AtOnce), q)
  BY <1>2, <1>7, SetTimerAlong, AlongTrans
<1>9. Dropped(x, z)
  <2>1. /\ Typed(idle) /\ KeepsForm(next, idle) /\ KeepsCalls(next, idle)
        /\ idle.intent = INITIAL_INTENT_STATE /\ idle.timers = next.timers
    BY <1>7, InitialIntentType, PatchFrame
  <2> HIDE DEF idle
  <2>2. /\ z.intent = INITIAL_INTENT_STATE /\ z.sign = NoSign /\ SameWatch(idle, z)
        /\ z.asks = idle.asks
    BY <2>1, AbandonAlong
  <2> HIDE DEF z
  <2>3. SameWatch(x, z) /\ z.asks = x.asks
    BY <1>7, <2>1, <2>2 DEF SameWatch, KeepsForm, KeepsCalls
  <2> QED BY <2>2, <2>3, DroppedOrdered
<1> QED BY <1>1, <1>7, <1>8, <1>9 DEF y

\* An allocation is a quote, asked for before there is an order.
LEMMA AllocateRequestedAlong ==
    ASSUME NEW x, Typed(x), NEW q
    PROVE  Along(x, allocateRequested(x), q)
<1> DEFINE y == allocateRequested(x)
           ref == nextId(x)
           told == [x EXCEPT !.event = "refused"]
           left == x.allocs \cup {ref}
           next == [x EXCEPT !.allocs = left]
           opts == [quoteOpts(x.amount) EXCEPT !.ref = ref]
<1>1. [x EXCEPT !.allocs = @ \cup {ref}] = next
  BY DEF Typed, Model
<1>2. y = told \/ (x.intent.status \notin QUOTE_BUSY_STATES /\ y = startQuote(next, opts))
  <2>1. ~allocationRefused(x) => x.intent.status \notin QUOTE_BUSY_STATES
    BY DEF allocationRefused, ALLOCATABLE_STATES, QUOTE_BUSY_STATES
  <2> HIDE DEF next, opts, told, ref
  <2> QED BY <1>1, <2>1 DEF allocateRequested, next, opts, told, ref
<1> HIDE DEF y
<1>3. ref \in Nat \ {0}
  BY NextIdFresh
<1>4. opts \in QuoteOpts
  <2> HIDE DEF ref
  <2>1. x.amount \in AmountField
    BY DEF Typed, Model
  <2> QED BY <1>3, <2>1 DEF QuoteOpts, quoteOpts
<1> HIDE DEF ref, opts
<1>5. Along(x, told, q)
  <2>1. /\ told.intent = x.intent /\ told.sign = x.sign /\ told.poll = x.poll
        /\ told.watched = x.watched /\ told.timers = x.timers /\ told.asks = x.asks
    BY DEF Typed, Model
  <2> HIDE DEF told
  <2>2. SameWatch(x, told)
    BY <2>1 DEF SameWatch
  <2> QED BY <2>1, <2>2, AlongAgrees
<1> HIDE DEF told
<1>6. IsFiniteSet(left) /\ left \in SUBSET Nat
  BY <1>3, FS_AddElement DEF Typed, Model
<1>7. Typed(next) /\ Along(x, next, q) /\ next.intent = x.intent
  <2> HIDE DEF left
  <2>1. /\ Typed(next) /\ next.intent = x.intent /\ next.sign = x.sign /\ next.poll = x.poll
        /\ next.watched = x.watched /\ next.timers = x.timers /\ next.asks = x.asks
    BY <1>6 DEF Typed, Model
  <2> HIDE DEF next
  <2>2. SameWatch(x, next)
    BY <2>1 DEF SameWatch
  <2> QED BY <2>1, <2>2, AlongAgrees
<1> HIDE DEF next
<1>8. x.intent.status \notin QUOTE_BUSY_STATES => Along(x, startQuote(next, opts), q)
  BY <1>4, <1>7, StartQuoteAlong, AlongTrans
<1> QED BY <1>2, <1>5, <1>8 DEF y

\* So is a refresh.
LEMMA RefreshRequestedAlong ==
    ASSUME NEW x, Typed(x), NEW q
    PROVE  Along(x, refreshRequested(x), q)
<1>1. x.amount \in AmountField
  BY DEF Typed, Model
<1>2. x.intent.status \notin QUOTE_BUSY_STATES => Along(x, startQuote(x, quoteOpts(x.amount)), q)
  BY <1>1, PlainOpts, StartQuoteAlong
<1> QED BY <1>2, AlongSelf DEF refreshRequested

\* Reset drops the order.
LEMMA ResetRequestedDrops ==
    ASSUME NEW x, Typed(x), Ordered(x)
    PROVE  Dropped(x, resetRequested(x))
<1> DEFINE ts == {"debounce", "refresh", "signPrompt"}
                 \cup (IF awaitingResend(x) THEN {"execute"} ELSE {})
           quiet == clearTimers(x, ts)
           s == supersedeFlights(quiet)
           y == [s EXCEPT
                   !.intent = INITIAL_INTENT_STATE, !.amount = "",
                   !.awaitingPull = FALSE, !.isSigningPull = FALSE, !.pendingIntentSig = None,
                   !.refresh = NoRefresh, !.quotedTrade = None, !.sign = NoSign]
<1>1. resetRequested(x) = y
  BY DEF resetRequested
<1>2. "poll" \notin ts /\ "expiry" \notin ts
  OBVIOUS
<1> HIDE DEF ts
<1>3. /\ Typed(quiet) /\ KeepsForm(x, quiet) /\ quiet.asks = x.asks
      /\ quiet.timers = [t \in TimerName |-> IF t \in ts THEN Never ELSE x.timers[t]]
  BY ClearTimersFrame DEF KeepsCalls
<1> HIDE DEF quiet
<1>4. /\ Typed(s) /\ KeepsForm(quiet, s) /\ s.timers = quiet.timers /\ s.asks = quiet.asks
  BY <1>3, SupersedeFrame
<1> HIDE DEF s
<1>5. /\ y.intent = INITIAL_INTENT_STATE /\ y.sign = NoSign /\ y.asks = s.asks
      /\ y.poll = s.poll /\ y.timers = s.timers /\ y.watched = s.watched
  BY <1>4, ZenonT(60) DEF Typed, Model
<1> HIDE DEF y
<1>6. SameWatch(x, y) /\ y.asks = x.asks
  BY <1>2, <1>3, <1>4, <1>5 DEF SameWatch, KeepsForm, TimerName
<1> QED BY <1>1, <1>5, <1>6, DroppedOrdered

\* A poll watches the order on screen.
Polled(x) ==
    x.poll.live => /\ Due(x) /\ x.poll.intentId = x.intent.intentId
                   /\ x.poll.resend = awaitingResend(x)

\* An order taken up again, from its record.
Resumed(x, y, s) ==
    /\ x.intent.status = "idle" /\ x.intent.intentId = None
    /\ Ordered(y)
    /\ y.intent.status = s.status /\ y.intent.intentId = s.intentId
    /\ ~y.intent.quote.canSolve
    /\ y.asks = x.asks

\* A stored order is taken up only where there is none.
LEMMA ResumeRequestedGoes ==
    ASSUME NEW x, Good(x), Ordered(x), Polled(x), NEW s, Stored(s)
    PROVE  LET y == resumeRequested(x, s)
           IN  y = x \/ Resumed(x, y, s)
<1> DEFINE b == s.status = "failed" /\ failureMayHaveMoved(s.marker)
           i == [INITIAL_INTENT_STATE EXCEPT
                    !.intentId = s.intentId, !.status = s.status,
                    !.quotedAddress = s.owner, !.depositDeadline = s.depositDeadline,
                    !.mayHaveMoved = b]
           c == clearTimer(x, "debounce")
           p == patch(c, i)
           y == supersedeFlights(p)
<1>1. \/ resumeRequested(x, s) = x
      \/ /\ x.intent.status = "idle" /\ x.intent.intentId = None
         /\ resumeRequested(x, s) = y
  BY DEF resumeRequested, canAdoptResumedIntent
<1>2. b \in BOOLEAN
  BY DEF failureMayHaveMoved, Stored
<1> HIDE DEF b
<1>3. /\ i \in Intent /\ i.status = s.status /\ i.intentId = s.intentId
      /\ ~i.quote.canSolve /\ ~i.reconciling
  <2>1. s.intentId \in OrNone(Intents) /\ s.owner \in OrNone(Wallets)
    BY DEF Stored, OrNone
  <2>2. i \in Intent
    BY <1>2, <2>1, InitialIntentType DEF Stored, Intent
  <2>3. /\ i.status = s.status /\ i.intentId = s.intentId
        /\ i.quote = NoQuote /\ i.reconciling = FALSE
    BY DEF INITIAL_INTENT_STATE
  <2> QED BY <2>2, <2>3 DEF NoQuote
<1> HIDE DEF i
<1>4. /\ Typed(c) /\ KeepsForm(x, c) /\ KeepsCeremony(x, c) /\ KeepsCalls(x, c)
      /\ c.timers = [x.timers EXCEPT !["debounce"] = Never]
  <2>1. "debounce" \in TimerName
    BY DEF TimerName
  <2> QED BY <2>1, ClearTimerFrame DEF Good
<1> HIDE DEF c
<1>5. /\ Typed(p) /\ KeepsForm(c, p) /\ KeepsCeremony(c, p) /\ KeepsCalls(c, p)
      /\ p.intent = i /\ p.timers = c.timers
  BY <1>3, <1>4, PatchFrame
<1> HIDE DEF p
<1>6. /\ KeepsForm(p, y) /\ KeepsCeremony(p, y) /\ y.intent = p.intent /\ y.timers = p.timers
      /\ y.asks = p.asks
  BY <1>5, SupersedeFrame
<1> HIDE DEF y
<1>7. /\ y.intent = i /\ y.sign = x.sign /\ y.asks = x.asks /\ y.poll = x.poll
      /\ y.watched = x.watched /\ y.timers["expiry"] = x.timers["expiry"]
  BY <1>4, <1>5, <1>6, FieldTypes DEF KeepsForm, KeepsCeremony, KeepsCalls, TimerName
<1>8. ASSUME x.intent.status = "idle", x.intent.intentId = None PROVE Resumed(x, y, s)
  <2>1. ~x.poll.live
    BY <1>8 DEF Polled, Due
  <2>2. x.sign.stage = "none"
    BY <1>8, AtRest DEF QUOTE_BUSY_STATES
  <2>3. s.intentId # None
    BY SystemConstants DEF Stored
  <2>4. Ordered(y)
    BY <1>3, <1>7, <2>1, <2>2, <2>3 DEF Ordered, armed, InFlight
  <2> QED BY <1>3, <1>7, <1>8, <2>4 DEF Resumed
<1> QED BY <1>1, <1>8 DEF y

\* A tab hidden, or shown again: it may resend, read, or ask for a new quote.
LEMMA VisibilityChangedGoes ==
    ASSUME NEW x, Good(x), Ordered(x), Polled(x), NEW hidden \in BOOLEAN, NEW n, NEW q
    PROVE  Proceeds(x, visibilityChanged(x, hidden, n), q)
<1> DEFINE y == visibilityChanged(x, hidden, n)
           seen == [x EXCEPT !.hidden = hidden]
           stale == /\ x.amount # ""
                    /\ shouldRefreshOnReturn(x.intent.status, x.ctx.paused,
                                             x.intent.quote.address # None)
           next == IF stale THEN startQuote(seen, quoteOpts(x.amount)) ELSE seen
<1>1. \/ y = seen \/ (awaitingResend(next) /\ y = resendBackstop(next, n))
      \/ y = restartPoll(next) \/ (~awaitingResend(next) /\ y = pollTick(next, FALSE))
  BY DEF visibilityChanged
<1>2. Good(y)
  BY VisibilityChangedGood
<1> HIDE DEF y
<1>3. Typed(x) /\ x.amount \in AmountField
  BY FieldTypes DEF Good
<1>4. Typed(seen) /\ Along(x, seen, q) /\ seen.intent = x.intent /\ seen.poll = x.poll
      /\ seen.sign = x.sign
  <2>1. seen.poll = x.poll /\ seen.sign = x.sign
    BY <1>3 DEF Typed, Model
  <2> QED BY <1>3, <2>1, FormAlong
<1>5. Good(seen)
  <2>1. /\ KeepsCeremony(x, seen) /\ seen.flights = x.flights /\ seen.timers = x.timers
    BY <1>3 DEF Typed, Model, KeepsCeremony
  <2> HIDE DEF seen
  <2> QED BY <1>4, <2>1, GoodAgrees
<1> HIDE DEF seen
<1>6. stale => x.intent.status \notin QUOTE_BUSY_STATES
  BY DEF shouldRefreshOnReturn, QUOTE_BUSY_STATES
<1> HIDE DEF stale
<1>7. CASE stale
  <2>1. /\ Good(next) /\ Along(seen, next, q)
    BY <1>3, <1>4, <1>5, <1>6, <1>7, PlainOpts, StartQuoteGood, StartQuoteAlong
  <2> HIDE DEF next
  <2>2. Along(x, next, q) /\ ~InFlight(x) /\ x.intent.status # "executing"
    BY <1>4, <1>6, <1>7, <2>1, AlongTrans, StatusSets DEF InFlight
  <2>3. ~InFlight(next) /\ ~x.poll.live /\ Typed(next)
    BY <2>1, <2>2 DEF Along, Polled, Due, Good
  <2>4. ~next.poll.live /\ ~awaitingResend(next)
    <3>1. ~next.poll.live
      BY <2>2, <2>3 DEF Along, Watches
    <3>2. next.intent.status # "executing"
      BY <2>3, StatusSets DEF InFlight
    <3> QED BY <2>1, <3>1, <3>2 DEF Good, CeremonySafe, awaitingResend
  <2>5. Along(x, pollTick(next, FALSE), q) /\ Along(x, restartPoll(next), q)
    BY <2>2, <2>3, <2>4, PollTickAlong, RestartPollAlong, AlongTrans
  <2>6. Along(x, y, q)
    BY <1>1, <1>4, <2>4, <2>5
  <2> QED BY <1>2, <2>6, AlongProceeds DEF y
<1>8. CASE ~stale
  <2>1. next = seen
    BY <1>8
  <2> HIDE DEF next
  <2>2. Ordered(seen)
    BY <1>4, <1>5, AlongOrdered
  <2>3. CASE awaitingResend(seen) /\ y = resendBackstop(seen, n)
    <3>1. Ordered(y) /\ Goes(seen, y, q)
      BY <1>5, <2>2, <2>3, ResendBackstopGoes DEF Proceeds
    <3> QED BY <1>4, <3>1, AlongThenGoes DEF Proceeds, y
  <2>4. CASE y = restartPoll(seen)
    <3>1. Along(x, y, q)
      BY <1>4, <2>4, RestartPollAlong, AlongTrans
    <3> QED BY <1>2, <3>1, AlongProceeds DEF y
  <2>5. CASE ~awaitingResend(seen) /\ y = pollTick(seen, FALSE)
    <3>1. seen.poll.live => ~seen.poll.resend
      BY <1>4, <2>5 DEF Polled, awaitingResend
    <3>2. Along(x, y, q)
      BY <1>4, <2>5, <3>1, PollTickAlong, AlongTrans
    <3> QED BY <1>2, <3>2, AlongProceeds DEF y
  <2>6. CASE y = seen
    BY <1>2, <1>4, <2>6, AlongProceeds DEF y
  <2> QED BY <1>1, <2>1, <2>3, <2>4, <2>5, <2>6
<1> QED BY <1>7, <1>8

\* A frame of the stream tells the order on screen that it is under way.
LEMMA StreamStatusGoes ==
    ASSUME NEW x, Good(x), Ordered(x), Polled(x), NEW i \in Intents, NEW u, StatusUpdate(u),
           u.unmapped = FALSE, u.status \in POLL_INFLIGHT_STATES, NEW q
    PROVE  LET y == streamStatus(x, i, u)
           IN  Proceeds(x, y, q) \/ (i = x.intent.intentId /\ Told(x, y, u.status))
<1> DEFINE y == streamStatus(x, i, u)
<1>1. CASE i # x.intent.intentId
  BY <1>1, AlongSelf, AlongGoes DEF streamStatus, Proceeds
<1>2. CASE i = x.intent.intentId
  <2>1. y = applyStatusUpdate(x, u)
    BY <1>2 DEF streamStatus
  <2>2. x.intent.intentId # None /\ (x.poll.live => InFlight(x))
    BY <1>2, SystemConstants DEF Polled, Due
  <2>3. Answered(x, y, u.status, u.marker, q)
    BY <2>1, <2>2, ApplyStatusGoes
  <2> HIDE DEF y
  <2>4. ~Ended(x, y, u.status, u.marker)
    BY DEF Ended, POLL_INFLIGHT_STATES
  <2> QED BY <1>2, <2>3, <2>4 DEF Answered, y
<1> QED BY <1>1, <1>2

\* Where the order goes depends on what is shown of it and asked about it.
LEMMA GoesFrom ==
    ASSUME NEW x, NEW z, z.intent = x.intent, z.asks \subseteq x.asks
    PROVE  /\ \A y, q : Goes(z, y, q) => Goes(x, y, q)
           /\ \A y, st : Told(z, y, st) => Told(x, y, st)
           /\ \A y, st, b : Ended(z, y, st, b) => Ended(x, y, st, b)
           /\ \A y, s : Resumed(z, y, s) /\ z.asks = x.asks => Resumed(x, y, s)
           /\ \A y : Dropped(z, y) /\ z.asks = x.asks => Dropped(x, y)
<1>1. ASSUME NEW y, NEW q, Goes(z, y, q) PROVE Goes(x, y, q)
  <2>1. Sends(x, y)
    BY <1>1 DEF Goes, Sends
  <2>2. \A a \in y.asks : a.op = "status" => a \in x.asks \/ a.read = "unread"
    BY <1>1 DEF Goes
  <2> QED BY <1>1, <2>1, <2>2 DEF Goes, InFlight
<1>2. ASSUME NEW y, NEW st, Told(z, y, st) PROVE Told(x, y, st)
  BY <1>2 DEF Told
<1>3. ASSUME NEW y, NEW st, NEW b, Ended(z, y, st, b) PROVE Ended(x, y, st, b)
  BY <1>3 DEF Ended, InFlight
<1>4. ASSUME NEW y, NEW s, Resumed(z, y, s), z.asks = x.asks PROVE Resumed(x, y, s)
  BY <1>4 DEF Resumed
<1>5. ASSUME NEW y, Dropped(z, y), z.asks = x.asks PROVE Dropped(x, y)
  BY <1>5 DEF Dropped
<1> QED BY <1>1, <1>2, <1>3, <1>4, <1>5

\* A timer that fires is disarmed, or armed anew if it repeats.
LEMMA SetTimerOrdered ==
    ASSUME NEW x, Typed(x), Ordered(x), NEW t \in TimerName, armed(x, t), NEW d \in Times,
           t = "poll" => d # Never
    PROVE  LET z == setTimer(x, t, d)
           IN  /\ Typed(z) /\ Ordered(z) /\ z.intent = x.intent /\ z.asks = x.asks
               /\ z.sign = x.sign /\ z.poll = x.poll
<1> DEFINE z == setTimer(x, t, d)
<1>1. /\ Typed(z) /\ KeepsForm(x, z) /\ KeepsCeremony(x, z) /\ KeepsCalls(x, z)
      /\ z.intent = x.intent /\ z.timers = [x.timers EXCEPT ![t] = d]
  BY SetTimerFrame
<1> HIDE DEF z
<1>2. x.timers \in [TimerName -> Times] /\ "poll" \in TimerName /\ "expiry" \in TimerName
  BY DEF Typed, Model, TimerName
<1>3. armed(x, "poll") => armed(z, "poll")
  BY <1>1, <1>2 DEF armed
<1>4. armed(z, "expiry") => armed(x, "expiry")
  BY <1>1, <1>2 DEF armed
<1>5. /\ z.asks = x.asks /\ z.sign = x.sign /\ z.poll = x.poll /\ z.watched = x.watched
  BY <1>1 DEF KeepsForm, KeepsCeremony, KeepsCalls
<1>6. Ordered(z)
  BY <1>1, <1>3, <1>4, <1>5 DEF Ordered, InFlight
<1> QED BY <1>1, <1>5, <1>6 DEF z

\* A timer.
LEMMA OnTimerGoes ==
    ASSUME NEW x, Good(x), Ordered(x), Polled(x), armed(x, "expiry") => x.intent.status = "quoted",
           NEW t \in TimerName, armed(x, t), NEW d \in Times,
           t \in {"signPrompt", "execute"} => d = Never, t = "poll" => d # Never, NEW n, NEW q
    PROVE  Proceeds(x, onTimer(setTimer(x, t, d), t, n), q)
<1> DEFINE z == setTimer(x, t, d)
           y == onTimer(z, t, n)
           next == [z EXCEPT !.refresh = NoRefresh]
           opts == [quoteOpts(z.refresh.amount) EXCEPT !.silent = z.ctx.paused]
<1>1. /\ Typed(z) /\ Ordered(z) /\ z.intent = x.intent /\ z.asks = x.asks
      /\ z.sign = x.sign /\ z.poll = x.poll
  BY SetTimerOrdered DEF Good
<1>2. Good(y)
  BY OnTimerGood
<1>3. t \notin {"execute", "signPrompt"} => Good(z)
  BY SetTimerGood
<1>4. t = "signPrompt" => z.sign.stage # "execute" /\ z.intent.status = "signing"
  BY <1>1 DEF Good, CeremonySafe
<1>5. t = "execute" => ReadyToSend(z) /\ awaitingResend(z)
  <2>1. t = "execute" => z = clearTimer(x, "execute") /\ awaitingResend(x)
    BY DEF setTimer, clearTimer, Good, CeremonySafe
  <2> QED BY <2>1, DisarmedReady
<1> HIDE DEF z
<1>6. Along(z, y, q) => Proceeds(x, y, q)
  <2> HIDE DEF y
  <2> QED BY <1>1, <1>2, AlongProceeds, GoesFrom DEF Proceeds, y
<1>7. Proceeds(z, y, q) => Proceeds(x, y, q)
  BY <1>1, GoesFrom DEF Proceeds
<1>8. CASE t = "debounce"
  <2>1. Along(z, refreshRequested(z), q)
    BY <1>1, RefreshRequestedAlong
  <2> QED BY <1>6, <1>8, <2>1 DEF onTimer, z
<1>9. CASE t = "refresh"
  <2>1. y = z \/ y = next \/ (z.intent.status = "quoted" /\ y = startQuote(next, opts))
    BY <1>9 DEF onTimer, shouldRefreshQuote
  <2>2. NoRefresh \in Plan
    BY DEF NoRefresh, Plan, AmountField
  <2>3. Typed(next) /\ Along(z, next, q) /\ next.intent = z.intent
    BY <1>1, <2>2, FormAlong
  <2>4. opts \in QuoteOpts
    <3>1. z.refresh.amount \in AmountField /\ z.ctx.paused \in BOOLEAN
      BY <1>1 DEF Typed, Model, Context
    <3> QED BY <3>1, QuoteOptsType
  <2> HIDE DEF y, next, opts
  <2>5. z.intent.status = "quoted" => Along(z, startQuote(next, opts), q)
    BY <2>3, <2>4, StartQuoteAlong, AlongTrans DEF QUOTE_BUSY_STATES
  <2>6. Along(z, y, q)
    BY <2>1, <2>3, <2>5, AlongSelf
  <2> QED BY <1>6, <2>6 DEF y, z
<1>10. CASE t = "expiry"
  <2>1. ~InFlight(z)
    BY <1>1, <1>10 DEF InFlight, POLL_INFLIGHT_STATES
  <2>2. Along(z, tickExpiry(z, n), q)
    BY <1>1, <2>1, TickExpiryAlong
  <2> QED BY <1>6, <1>10, <2>2 DEF onTimer, z
<1>11. CASE t = "poll"
  <2>1. Good(z)
    BY <1>3, <1>11
  <2>2. \/ awaitingResend(z) /\ y = resendBackstop(z, n)
        \/ ~awaitingResend(z) /\ (y = pollTick(z, TRUE) \/ y = z)
    BY <1>11 DEF onTimer
  <2> HIDE DEF y
  <2>3. CASE awaitingResend(z) /\ y = resendBackstop(z, n)
    BY <1>1, <1>7, <2>1, <2>3, ResendBackstopGoes DEF y, z
  <2>4. CASE ~awaitingResend(z) /\ (y = pollTick(z, TRUE) \/ y = z)
    <3>1. z.poll.live => ~z.poll.resend
      BY <1>1, <2>4 DEF Polled, awaitingResend
    <3>2. Along(z, y, q)
      BY <1>1, <2>4, <3>1, PollTickAlong, AlongSelf
    <3> QED BY <1>6, <3>2 DEF y, z
  <2> QED BY <2>2, <2>3, <2>4
<1>12. CASE t = "signPrompt"
  <2>1. ~InFlight(z)
    BY <1>4, <1>12, StatusSets DEF InFlight
  <2>2. Along(z, signFlowFailed(z, "timeout"), q)
    BY <1>1, <2>1, SignFlowFailedAlong
  <2> QED BY <1>6, <1>12, <2>2 DEF onTimer, z
<1>13. CASE t = "execute"
  <2>1. Proceeds(z, resendExecute(z, n), q)
    BY <1>1, <1>5, <1>13, ResendExecuteGoes
  <2> QED BY <1>7, <1>13, <2>1 DEF onTimer, z
<1> QED BY <1>8, <1>9, <1>10, <1>11, <1>12, <1>13 DEF TimerName

-----------------------------------------------------------------------------
(***************************************************************************)
(* The order and the Worker's row of it.  Only a row that waits for a       *)
(* deposit may expire, and no signature is asked for an order with such a   *)
(* row; a read tells of the row as it was, and a row at its end stays.      *)
(***************************************************************************)

Unpaid == {"awaiting", "expired"}
Final == {"completed", "refunded", "failed", "not_executed", "expired", "gone"}
Paid(i) == i \in Intents /\ rows[i].st \notin Unpaid

\* What the Worker found, for a call it has answered.
ReadOf(a) ==
    /\ a.intentId \in Intents
    /\ a.read \notin Unpaid => rows[a.intentId].st \notin Unpaid
    /\ a.read \in Final => rows[a.intentId].st = a.read

\* What x shows, may ask to sign and has been told agrees with the rows.
Claims(x) ==
    /\ x.intent.status \in Claimed => Paid(x.intent.intentId)
    /\ Signable(x.intent) => Paid(x.intent.quote.intent)
    /\ \A a \in x.asks : a.op \in {"execute", "status"} /\ a.read # "unread" => ReadOf(a)

\* What holds of the order between two messages.
Sound == Ordered(m) /\ Settled(m) /\ Claims(m)

\* After the rules, what is polled is the order.
LEMMA SettledPolled ==
    ASSUME NEW x, Settled(x)
    PROVE  Polled(x)
BY DEF Settled, Polled

\* Forgetting the last event, and taking an answered call off the list, change
\* nothing of the order.
LEMMA FreshSound ==
    ASSUME Inv, Held, Sound, NEW a
    PROVE  /\ Good(fresh) /\ Ordered(fresh) /\ Polled(fresh)
           /\ fresh.intent = m.intent /\ fresh.asks = m.asks
           /\ armed(fresh, "expiry") => fresh.intent.status = "quoted"
           /\ fresh.timers = m.timers /\ fresh.poll = m.poll /\ fresh.sign = m.sign
           /\ Good(answered(a)) /\ Ordered(answered(a)) /\ Polled(answered(a))
           /\ answered(a).intent = m.intent /\ answered(a).asks \subseteq m.asks
           /\ answered(a).sign = m.sign /\ answered(a).poll = m.poll
<1>1. Good(fresh) /\ Good(answered(a))
  BY FreshKept
<1>2. /\ fresh.intent = m.intent /\ fresh.asks = m.asks /\ fresh.sign = m.sign
      /\ fresh.poll = m.poll /\ fresh.timers = m.timers /\ fresh.watched = m.watched
  BY DEF fresh, Inv, Good, Typed, Model
<1>3. /\ answered(a).intent = m.intent /\ answered(a).asks = m.asks \ {a}
      /\ answered(a).sign = m.sign /\ answered(a).poll = m.poll
      /\ answered(a).timers = m.timers /\ answered(a).watched = m.watched
  BY DEF answered, fresh, Inv, Good, Typed, Model
<1>4. Ordered(fresh)
  <2>1. SameWatch(m, fresh)
    BY <1>2 DEF SameWatch
  <2>2. Along(m, fresh, NoQuote)
    BY <1>2, <2>1, AlongAgrees
  <2> QED BY <1>1, <2>2, AlongOrdered DEF Sound
<1>5. Ordered(answered(a))
  <2>1. SameWatch(m, answered(a))
    BY <1>3 DEF SameWatch
  <2>2. Along(m, answered(a), NoQuote)
    BY <1>3, <2>1, OnwardSelf, AlongFrame DEF Signs
  <2> QED BY <1>1, <2>2, AlongOrdered DEF Sound
<1>6. Polled(m)
  BY SettledPolled DEF Sound
<1>7. Polled(fresh) /\ Polled(answered(a))
  BY <1>2, <1>3, <1>6 DEF Polled, Due, InFlight, awaitingResend
<1>8. armed(fresh, "expiry") => fresh.intent.status = "quoted"
  BY <1>2 DEF Sound, Settled, armed
<1> QED BY <1>1, <1>2, <1>3, <1>4, <1>5, <1>7, <1>8

-----------------------------------------------------------------------------
(* What an update does to the order. *)

\* The quote q was served for no order there is, and its row waits to be claimed.
Offered(q) ==
    /\ q.intent \in OrNone(Intents)
    /\ q.intent \in Intents => q.intent \notin idsInUse
    /\ \A i \in Intents : i # q.intent => rows'[i] = rows[i]
    /\ Signable(m'.intent) /\ m'.intent.quote = q => q.intent \in Intents /\ rows'[q.intent].st = "quoted"

\* The order goes on, or waits, or there is none and a quote was served.
GoesOn(y, q) ==
    /\ Proceeds(m, y, q) /\ Offered(q)
    /\ released \ {m'.intent.intentId} \subseteq released'

\* News of it.
News(y, st) ==
    /\ Told(m, y, st) /\ (st \in Claimed => Paid(m.intent.intentId))
    /\ UNCHANGED <<rows, released>>

\* Its end, which the row tells, unless the Worker loses what it has.
Finishes(y, st, marker) ==
    /\ Ended(m, y, st, marker)
    /\ "404" \notin Faults =>
          /\ rows[m.intent.intentId].st \in Final
          /\ st = "failed" /\ marker => rows[m.intent.intentId].st \in {"not_executed", "gone"}
    /\ UNCHANGED <<rows, released>>

\* The user gave it up.
Drops(y) ==
    /\ Dropped(m, y)
    /\ rows' = rows /\ released \subseteq released'
    /\ m.intent.intentId \in {None} \cup released'

\* An order of an earlier page was taken up.
Adopts(y, s) ==
    /\ Resumed(m, y, s) /\ s.intentId \in Intents
    /\ s.status \in Claimed => Paid(s.intentId)
    /\ rows[s.intentId].st \in {"none", "quoted", "gone", "claimed", "awaiting",
                                "executing", "bridging", "settling"}
          => s.status \in POLL_INFLIGHT_STATES
    /\ rows' = rows /\ released' = released \ {m'.intent.intentId}

\* One of these, and the rules.
Turn ==
    \E y :
        /\ Good(y) /\ update(y)
        /\ \/ \E q : GoesOn(y, q)
           \/ \E st : News(y, st)
           \/ \E st, marker : Finishes(y, st, marker)
           \/ Drops(y)
           \/ \E s : Adopts(y, s)

\* The rules after an update, whatever the quote.
LEMMA UpdateRules ==
    ASSUME Inv, NEW y, Good(y), Ordered(y), update(y), NEW q
    PROVE  Carries(y, m', q) /\ Ordered(m') /\ Ruled(y, m') /\ Settled(m')
<1>1. m' = settle(y, now) /\ now \in Nat
  BY DEF update, Inv
<1>2. /\ Carries(y, settle(y, now), q) /\ Ordered(settle(y, now))
      /\ Ruled(y, settle(y, now)) /\ Settled(settle(y, now))
  BY <1>1, SettleCarries
<1> QED BY <1>1, <1>2

\* What agrees with the rows does so after the rules.
LEMMA CarriesClaims ==
    ASSUME NEW y, Claims(y), NEW z, Carries(y, z, NoQuote)
    PROVE  Claims(z)
<1>1. z.intent.status \in Claimed => Paid(z.intent.intentId)
  BY StatusSets DEF Carries, Claims
<1>2. Signable(z.intent) => Paid(z.intent.quote.intent)
  BY DEF Carries, Claims, Signable, NoQuote
<1>3. \A a \in z.asks : a.op \in {"execute", "status"} /\ a.read # "unread" => ReadOf(a)
  BY DEF Carries, Claims
<1> QED BY <1>1, <1>2, <1>3 DEF Claims

\* So it does while the rows do not change.
LEMMA SameRowsClaims ==
    ASSUME NEW y, Claims(y), Carries(y, m', NoQuote), rows' = rows
    PROVE  Claims(m)'
<1>1. Claims(m')
  BY CarriesClaims
<1> QED BY <1>1 DEF Claims, Paid, ReadOf

\* The order that goes on agrees with the rows.
LEMMA GoesClaims ==
    ASSUME Inv, Held, Sound, NEW q, Goes(m, m', q), Offered(q)
    PROVE  Claims(m)'
<1>1. \A i \in Intents : i \in idsInUse => rows'[i] = rows[i]
  BY DEF Offered
<1>2. m.intent.intentId \in idsInUse /\ \A a \in m.asks : a.intentId \in idsInUse
  BY DEF idsInUse
<1>3. OrderQuoted(m.intent)
  BY DEF Held, Kept, Bound
<1>4. Paid(m.intent.intentId) => Paid(m.intent.intentId)'
      \/ m'.intent.intentId # m.intent.intentId
  BY <1>1, <1>2 DEF Paid
<1>5. m'.intent.status \in Claimed => Paid(m.intent.intentId)'
  <2> SUFFICES ASSUME m'.intent.status \in Claimed PROVE Paid(m.intent.intentId)'
    OBVIOUS
  <2>1. Paid(m.intent.intentId)
    BY <1>3 DEF Goes, Sound, Claims, Signable, OrderQuoted
  <2>2. m'.intent.intentId = m.intent.intentId
    BY StatusSets DEF Goes
  <2> QED BY <1>4, <2>1, <2>2
<1>6. Signable(m'.intent) => Paid(m.intent.quote.intent)'
  <2> SUFFICES ASSUME Signable(m'.intent) PROVE Paid(m.intent.quote.intent)'
    OBVIOUS
  <2>1. CASE m'.intent.quote = q
    BY <2>1 DEF Offered, Paid, Unpaid
  <2>2. CASE m'.intent.quote = m.intent.quote
    <3>1. Paid(m.intent.quote.intent) /\ m.intent.quote.intent = m.intent.intentId
      BY <1>3, <2>2 DEF Sound, Claims, Signable, OrderQuoted
    <3> QED BY <1>1, <1>2, <2>2, <3>1 DEF Paid
  <2> QED BY <2>1, <2>2 DEF Goes, Signable
<1>7. ASSUME NEW a \in m'.asks, a.op \in {"execute", "status"}, a.read # "unread"
      PROVE  ReadOf(a)'
  <2>1. a \in m.asks
    BY <1>7 DEF Goes, Sends
  <2>2. ReadOf(a)
    BY <1>7, <2>1 DEF Sound, Claims
  <2> QED BY <1>1, <1>2, <2>1, <2>2 DEF ReadOf
<1>8. Signable(m.intent)' => Paid(m.intent.quote.intent)'
  BY <1>6 DEF Signable
<1> QED BY <1>5, <1>7, <1>8 DEF Claims

\* The order is sound after every such update.
LEMMA TurnSound ==
    ASSUME Inv, Held, Sound, Turn
    PROVE  Sound'
<1>1. PICK y :
          /\ Good(y) /\ update(y)
          /\ \/ \E q : GoesOn(y, q)
             \/ \E st : News(y, st)
             \/ \E st, marker : Finishes(y, st, marker)
             \/ Drops(y)
             \/ \E s : Adopts(y, s)
  BY DEF Turn
<1>2. Ordered(y)
  BY <1>1 DEF GoesOn, Proceeds, News, Told, Finishes, Ended, Drops, Dropped, Adopts, Resumed
<1>3. Ordered(m') /\ Settled(m') /\ Carries(y, m', NoQuote)
  BY <1>1, <1>2, UpdateRules
<1>4. OrderQuoted(m.intent)
  BY DEF Held, Kept, Bound
<1>5. Claims(m)'
  <2>1. CASE \E q : GoesOn(y, q)
    <3>1. PICK q : GoesOn(y, q)
      BY <2>1
    <3>2. Carries(y, m', q)
      BY <1>1, <1>2, UpdateRules
    <3>3. Goes(m, m', q)
      BY <3>1, <3>2, GoesCarries DEF GoesOn, Proceeds
    <3> QED BY <3>1, <3>3, GoesClaims DEF GoesOn
  <2>2. CASE \E st : News(y, st)
    <3>1. PICK st : News(y, st)
      BY <2>2
    <3>2. Claims(y)
      BY <3>1 DEF News, Told, Sound, Claims, Signable
    <3> QED BY <1>3, <3>1, <3>2, SameRowsClaims DEF News
  <2>3. CASE \E st, marker : Finishes(y, st, marker)
    <3>1. PICK st, marker : Finishes(y, st, marker)
      BY <2>3
    <3>2. Claims(y)
      BY <3>1 DEF Finishes, Ended, Sound, Claims, Signable, Claimed
    <3> QED BY <1>3, <3>1, <3>2, SameRowsClaims DEF Finishes
  <2>4. CASE Drops(y)
    <3>1. Claims(y)
      BY <2>4 DEF Drops, Dropped, Sound, Claims, Signable, Claimed, INITIAL_INTENT_STATE, NoQuote
    <3> QED BY <1>3, <2>4, <3>1, SameRowsClaims DEF Drops
  <2>5. CASE \E s : Adopts(y, s)
    <3>1. PICK s : Adopts(y, s)
      BY <2>5
    <3>2. Claims(y)
      BY <3>1 DEF Adopts, Resumed, Sound, Claims, Signable
    <3> QED BY <1>3, <3>1, <3>2, SameRowsClaims DEF Adopts
  <2> QED BY <1>1, <2>1, <2>2, <2>3, <2>4, <2>5
<1> QED BY <1>3, <1>5 DEF Sound

\* Nothing changed: the order goes on, with no quote.
LEMMA StaysOffered ==
    ASSUME NEW y, Proceeds(m, y, NoQuote), rows' = rows,
           released \ {m'.intent.intentId} \subseteq released'
    PROVE  GoesOn(y, NoQuote)
<1>1. NoQuote.intent = None /\ ~NoQuote.canSolve
  BY DEF NoQuote
<1>2. None \notin Intents
  BY SystemConstants
<1>3. Offered(NoQuote)
  BY <1>1, <1>2 DEF Offered, OrNone, Signable
<1> QED BY <1>3 DEF GoesOn

\* The update of a model on which the order proceeds.
LEMMA ProceedsTurn ==
    ASSUME NEW x, x.intent = m.intent, x.asks \subseteq m.asks, NEW y, Good(y),
           Proceeds(x, y, NoQuote), update(y), rows' = rows,
           released \ {m'.intent.intentId} \subseteq released'
    PROVE  Turn
<1>1. Proceeds(m, y, NoQuote)
  BY GoesFrom DEF Proceeds
<1>2. GoesOn(y, NoQuote)
  BY <1>1, StaysOffered
<1> QED BY <1>2 DEF Turn

\* Reset drops the order.
LEMMA ResetTurn ==
    ASSUME Inv, Held, Sound, ResetRequested
    PROVE  \E y : Good(y) /\ update(y) /\ Drops(y)
<1> DEFINE y == resetRequested(fresh)
<1>1. Good(fresh) /\ Typed(fresh) /\ Ordered(fresh) /\ fresh.intent = m.intent /\ fresh.asks = m.asks
  BY FreshSound DEF Good
<1>2. Good(y) /\ Dropped(fresh, y)
  BY <1>1, ResetRequestedGood, ResetRequestedDrops
<1>3. /\ update(y) /\ rows' = rows
      /\ released' = released \cup ({m.intent.intentId} \ {None})
  BY DEF ResetRequested
<1> HIDE DEF y
<1>4. Dropped(m, y)
  BY <1>1, <1>2, GoesFrom
<1>5. Drops(y)
  BY <1>3, <1>4 DEF Drops
<1> QED BY <1>2, <1>3, <1>5

\* A timer.
LEMMA TimerTurn ==
    ASSUME Inv, Held, Sound, NEW t \in TimerName, TimerFired(t)
    PROVE  Turn
<1> DEFINE again == CASE t = "poll" -> now + STATUS_POLL [] t = "expiry" -> AtOnce
                      [] OTHER -> Never
           y == onTimer(setTimer(fresh, t, again), t, now)
<1>1. /\ Good(fresh) /\ Ordered(fresh) /\ Polled(fresh) /\ fresh.intent = m.intent
      /\ fresh.asks = m.asks /\ fresh.timers = m.timers
      /\ armed(fresh, "expiry") => fresh.intent.status = "quoted"
  BY FreshSound
<1>2. armed(fresh, t)
  BY <1>1 DEF TimerFired, armed
<1>3. /\ again \in Times /\ (t \in {"signPrompt", "execute"} => again = Never)
      /\ (t = "poll" => again # Never)
  <2>1. CASE t = "poll"
    BY <2>1, DecisionConstants DEF Inv, Times, Never
  <2>2. CASE t = "expiry"
    BY <2>2 DEF AtOnce, Times
  <2>3. CASE t \notin {"poll", "expiry"}
    BY <2>3 DEF Never, Times
  <2> QED BY <2>1, <2>2, <2>3
<1>4. update(y) /\ rows' = rows /\ released' = released
  BY DEF TimerFired
<1>5. Good(y)
  <2> HIDE DEF again
  <2> QED BY <1>1, <1>2, <1>3, OnTimerGood
<1>6. Proceeds(fresh, y, NoQuote)
  <2> HIDE DEF again
  <2> QED BY <1>1, <1>2, <1>3, OnTimerGoes
<1> HIDE DEF y
<1> QED BY <1>1, <1>4, <1>5, <1>6, ProceedsTurn

\* The message of the host that empties the amount may drop the order.
LEMMA AmountTurn ==
    ASSUME Inv, Held, Sound, QuoteRequested \/ AmountCleared
    PROVE  Turn
<1>1. PICK amount \in AmountField :
          /\ update(quoteRequested(fresh, amount)) /\ rows' = rows
          /\ \/ amount \notin {"", "0"} /\ released' = released
             \/ released' = IF m'.intent.intentId = m.intent.intentId THEN released
                            ELSE released \cup {m.intent.intentId}
  <2>1. CASE QuoteRequested
    BY <2>1, AmountsFilled DEF QuoteRequested, AmountField
  <2>2. CASE AmountCleared
    BY <2>2 DEF AmountCleared, AmountField
  <2> QED BY <2>1, <2>2
<1> DEFINE y == quoteRequested(fresh, amount)
<1>2. /\ Good(fresh) /\ Typed(fresh) /\ Ordered(fresh) /\ fresh.intent = m.intent
      /\ fresh.asks = m.asks
  BY FreshSound DEF Good
<1>3. Good(y)
  BY <1>2, QuoteRequestedGood
<1>4. Along(fresh, y, NoQuote) \/ (amount \in {"", "0"} /\ Dropped(fresh, y))
  BY <1>2, QuoteRequestedAlong
<1>5. released \subseteq released'
  BY <1>1
<1>6. update(y)
  BY <1>1
<1> HIDE DEF y
<1>7. CASE Along(fresh, y, NoQuote)
  BY <1>1, <1>2, <1>3, <1>5, <1>6, <1>7, AlongProceeds, ProceedsTurn
<1>8. CASE amount \in {"", "0"} /\ Dropped(fresh, y)
  <2>1. Dropped(m, y)
    BY <1>2, <1>8, GoesFrom
  <2>2. Carries(y, m', NoQuote)
    BY <1>3, <1>6, <2>1, UpdateRules DEF Dropped
  <2>3. m'.intent.intentId = None
    BY <2>1, <2>2 DEF Carries, Dropped, INITIAL_INTENT_STATE, NoQuote
  <2>4. m.intent.intentId \in {None} \cup released'
    BY <1>1, <1>8, <2>3
  <2> QED BY <1>1, <1>3, <1>5, <1>6, <2>1, <2>4 DEF Turn, Drops
<1> QED BY <1>4, <1>7, <1>8

\* An order of an earlier page is adopted as its row reads.
LEMMA ResumeTurn ==
    ASSUME Inv, Held, Sound, ResumeRequested
    PROVE  Turn
<1> DEFINE record(i, owner) ==
               LET st == rows[i].st
               IN  [intentId |-> i, owner |-> owner, depositDeadline |-> Never,
                    marker |-> st = "not_executed",
                    status |-> IF st \in {"none", "quoted", "gone"} THEN "executing"
                               ELSE readRow(st).status]
<1>1. PICK i \in dispatched, owner \in Wallets : update(resumeRequested(fresh, record(i, owner)))
  BY DEF ResumeRequested
<1>2. released' = released \ {m'.intent.intentId} /\ rows' = rows
  BY DEF ResumeRequested
<1>3. i \in Intents /\ rows[i].st \in RowState
  BY DEF Inv
<1>4. record(i, owner).status \in IntentStatus
  <2>1. CASE rows[i].st \in {"none", "quoted", "gone"}
    BY <2>1 DEF IntentStatus
  <2>2. CASE rows[i].st \notin {"none", "quoted", "gone"}
    BY <1>3, <2>2, ReadRowType DEF StatusUpdate
  <2> QED BY <2>1, <2>2
<1>5. /\ record(i, owner).intentId = i
      /\ record(i, owner).status \in Claimed => Paid(i)
      /\ rows[i].st \in {"none", "quoted", "gone", "claimed", "awaiting",
                         "executing", "bridging", "settling"}
            => record(i, owner).status \in POLL_INFLIGHT_STATES
  <2>1. rows[i].st = "awaiting" => record(i, owner).status = "awaiting_deposit"
    BY DEF readRow
  <2>2. rows[i].st = "expired" => record(i, owner).status = "expired"
    BY DEF readRow
  <2>3. rows[i].st \in {"none", "quoted", "gone", "claimed"}
            => record(i, owner).status = "executing"
    BY DEF readRow
  <2>4. rows[i].st \in {"executing", "bridging", "settling"}
            => record(i, owner).status = rows[i].st
    BY DEF readRow
  <2>5. record(i, owner).intentId = i
    OBVIOUS
  <2> HIDE DEF record
  <2> QED BY <1>3, <2>1, <2>2, <2>3, <2>4, <2>5 DEF Claimed, Paid, Unpaid, POLL_INFLIGHT_STATES
<1>6. Stored(record(i, owner))
  BY <1>3, <1>4 DEF Stored, Never, Times
<1> HIDE DEF record
<1> DEFINE y == resumeRequested(fresh, record(i, owner))
<1>7. Good(fresh) /\ Ordered(fresh) /\ Polled(fresh) /\ fresh.intent = m.intent /\ fresh.asks = m.asks
  BY FreshSound
<1>8. Good(y)
  BY <1>6, <1>7, ResumeRequestedGood
<1>9. y = fresh \/ Resumed(fresh, y, record(i, owner))
  BY <1>6, <1>7, ResumeRequestedGoes
<1>10. update(y)
  BY <1>1
<1> HIDE DEF y
<1>11. CASE y = fresh
  <2>1. Proceeds(fresh, y, NoQuote)
    BY <1>7, <1>11, AlongSelf, AlongProceeds
  <2> QED BY <1>2, <1>7, <1>8, <1>10, <2>1, ProceedsTurn
<1>12. CASE Resumed(fresh, y, record(i, owner))
  <2>1. Resumed(m, y, record(i, owner))
    BY <1>7, <1>12, GoesFrom
  <2>2. Adopts(y, record(i, owner))
    BY <1>2, <1>3, <1>5, <2>1 DEF Adopts
  <2> QED BY <1>8, <1>10, <2>2 DEF Turn
<1> QED BY <1>9, <1>11, <1>12

\* A frame of the stream tells of the row, now or a moment ago.
LEMMA StreamTurn ==
    ASSUME Inv, Held, Sound, StreamStatus
    PROVE  Turn
<1>1. PICK i \in Intents, st \in RowState :
          /\ st = rows[i].st \/ (st = "executing" /\ rows[i].st \in Moved)
          /\ readRow(st).status \in POLL_INFLIGHT_STATES
          /\ update(streamStatus(fresh, i, readRow(st)))
  BY DEF StreamStatus
<1>2. rows' = rows /\ released' = released
  BY DEF StreamStatus
<1>3. /\ Good(fresh) /\ Ordered(fresh) /\ Polled(fresh) /\ fresh.intent = m.intent
      /\ fresh.asks = m.asks
  BY FreshSound
<1> DEFINE u == readRow(st)
           y == streamStatus(fresh, i, u)
<1>4. st \notin {"none", "gone"}
  BY <1>1 DEF readRow, POLL_INFLIGHT_STATES
<1>5. StatusUpdate(u)
  BY <1>4, ReadRowType
<1>6. u.unmapped = FALSE
  BY DEF readRow
<1>7. u.status \in Claimed => Paid(i)
  BY <1>1, <1>4 DEF readRow, Claimed, Paid, Unpaid, Moved, RowState
<1>8. update(y) /\ u.status \in POLL_INFLIGHT_STATES
  BY <1>1
<1> HIDE DEF u
<1>9. Good(y)
  BY <1>3, <1>5, StreamStatusGood
<1>10. Proceeds(fresh, y, NoQuote) \/ (i = fresh.intent.intentId /\ Told(fresh, y, u.status))
  BY <1>3, <1>5, <1>6, <1>8, StreamStatusGoes
<1> HIDE DEF y
<1>11. CASE Proceeds(fresh, y, NoQuote)
  BY <1>2, <1>3, <1>8, <1>9, <1>11, ProceedsTurn
<1>12. CASE i = fresh.intent.intentId /\ Told(fresh, y, u.status)
  <2>1. Told(m, y, u.status)
    BY <1>3, <1>12, GoesFrom
  <2>2. News(y, u.status)
    BY <1>2, <1>3, <1>7, <1>12, <2>1 DEF News
  <2> QED BY <1>8, <1>9, <2>2 DEF Turn
<1> QED BY <1>10, <1>11, <1>12

\* A message of the host.
LEMMA HostTurn ==
    ASSUME Inv, Held, Sound, HostMessage
    PROVE  Turn
<1>1. /\ Good(fresh) /\ Typed(fresh) /\ Ordered(fresh) /\ Polled(fresh)
      /\ fresh.intent = m.intent /\ fresh.asks = m.asks
  BY FreshSound DEF Good
<1>2. \A y : /\ Good(y) /\ Proceeds(fresh, y, NoQuote) /\ update(y) /\ rows' = rows
             /\ released' = released
             => Turn
  BY <1>1, ProceedsTurn
<1>3. \A y : Good(y) /\ Along(fresh, y, NoQuote) => Proceeds(fresh, y, NoQuote)
  BY <1>1, AlongProceeds
<1>4. OrderQuoted(fresh.intent)
  BY <1>1 DEF Held, Kept, Bound
<1>5. CASE ContextChanged
  <2>1. PICK c \in Contexts : update(contextChanged(fresh, c))
    BY <1>5 DEF ContextChanged
  <2>2. c \in Context
    BY SystemConstants
  <2>3. Good(contextChanged(fresh, c)) /\ Along(fresh, contextChanged(fresh, c), NoQuote)
    BY <1>1, <2>2, ContextChangedGood, ContextChangedAlong
  <2> QED BY <1>2, <1>3, <1>5, <2>1, <2>3 DEF ContextChanged
<1>6. CASE AllocateRequested
  <2>1. Good(allocateRequested(fresh)) /\ Along(fresh, allocateRequested(fresh), NoQuote)
    BY <1>1, AllocateRequestedGood, AllocateRequestedAlong
  <2> QED BY <1>2, <1>3, <1>6, <2>1 DEF AllocateRequested
<1>7. CASE RefreshRequested
  <2>1. Good(refreshRequested(fresh)) /\ Along(fresh, refreshRequested(fresh), NoQuote)
    BY <1>1, RefreshRequestedGood, RefreshRequestedAlong
  <2> QED BY <1>2, <1>3, <1>7, <2>1 DEF RefreshRequested
<1>8. CASE SignRequested
  <2>1. fresh.poll.live => InFlight(fresh)
    BY <1>1 DEF Polled, Due
  <2>2. Good(beginSign(fresh, now)) /\ Proceeds(fresh, beginSign(fresh, now), NoQuote)
    BY <1>1, <1>4, <2>1, BeginSignGood, BeginSignGoes
  <2> QED BY <1>2, <1>8, <2>2 DEF SignRequested
<1>9. CASE PullSignRequested
  <2>1. Good(beginPullSign(fresh, now)) /\ Along(fresh, beginPullSign(fresh, now), NoQuote)
    BY <1>1, BeginPullSignGood, BeginPullSignAlong
  <2> QED BY <1>2, <1>3, <1>9, <2>1 DEF PullSignRequested
<1>10. CASE CancelSignRequested
  <2>1. Good(cancelSignRequested(fresh)) /\ Along(fresh, cancelSignRequested(fresh), NoQuote)
    BY <1>1, CancelSignRequestedGood, CancelSignAlong
  <2> QED BY <1>2, <1>3, <1>10, <2>1 DEF CancelSignRequested
<1>11. CASE ResetRequested
  <2>1. PICK y : Good(y) /\ update(y) /\ Drops(y)
    BY <1>11, ResetTurn
  <2> QED BY <2>1 DEF Turn
<1>12. CASE VisibilityChanged
  <2>1. (~m.hidden) \in BOOLEAN
    OBVIOUS
  <2>2. /\ Good(visibilityChanged(fresh, ~m.hidden, now))
        /\ Proceeds(fresh, visibilityChanged(fresh, ~m.hidden, now), NoQuote)
    BY <1>1, <2>1, VisibilityChangedGood, VisibilityChangedGoes
  <2> QED BY <1>2, <1>12, <2>2 DEF VisibilityChanged
<1> QED
  BY <1>5, <1>6, <1>7, <1>8, <1>9, <1>10, <1>11, <1>12, AmountTurn, ResumeTurn, StreamTurn
  DEF HostMessage

\* What the Worker says of an execute it found in state st: an end only if the
\* row is at its end, a doubt otherwise.
LEMMA ExecuteAnswerEnds ==
    ASSUME NEW st, NEW r \in executeAnswers(st)
    PROVE  /\ ExecuteVerdict(r)
           /\ r.kind = "response" /\ ~r.reconciling
                /\ r.status \in {"completed", "refunded", "failed", "expired"} =>
                  /\ st \in {"completed", "refunded", "failed", "not_executed"}
                  /\ r.status = "failed" /\ r.marker => st = "not_executed"
<1>1. CASE st = "quoted"
  <2>1. \/ \E d \in RetryAfters : r = [kind |-> "notAccepted", retryAfter |-> now + d]
        \/ r = [kind |-> "notAccepted", retryAfter |-> Never]
        \/ r = response("quoted", FALSE, TRUE, FALSE, FALSE)
    BY <1>1 DEF executeAnswers
  <2>2. \A t : LET v == [kind |-> "notAccepted", retryAfter |-> t] IN v.kind = "notAccepted"
    OBVIOUS
  <2>3. r.kind = "notAccepted" \/ r = response("quoted", FALSE, TRUE, FALSE, FALSE)
    BY <2>1, <2>2
  <2> QED BY <2>3 DEF response, ExecuteVerdict
<1>2. CASE st \in {"claimed", "executing"}
  <2>1. \/ r = response("executing", TRUE, FALSE, FALSE, FALSE)
        \/ r = response("failed", FALSE, TRUE, FALSE, FALSE)
        \/ r = response("executing", TRUE, FALSE, FALSE, TRUE)
    BY <1>2 DEF executeAnswers
  <2> QED BY <2>1 DEF response, ExecuteVerdict
<1>3. CASE st \in {"bridging", "settling", "completed", "refunded"}
  <2>1. r = response(st, TRUE, FALSE, FALSE, FALSE)
    BY <1>3 DEF executeAnswers
  <2> QED BY <1>3, <2>1 DEF response, ExecuteVerdict
<1>4. CASE st \in {"failed", "not_executed"}
  <2>1. r = response("failed", FALSE, FALSE, st = "not_executed", FALSE)
    BY <1>4 DEF executeAnswers
  <2> QED BY <1>4, <2>1 DEF response, ExecuteVerdict
<1>5. CASE st \notin {"quoted", "claimed", "executing", "bridging", "settling",
                      "completed", "refunded", "failed", "not_executed"}
  BY <1>5 DEF executeAnswers
<1> QED BY <1>1, <1>2, <1>3, <1>4, <1>5

\* An answer to an execute.
LEMMA ExecuteTurn ==
    ASSUME Inv, Held, Sound, ExecuteReplied
    PROVE  Turn
<1>1. PICK a \in m.asks :
          /\ a.op = "execute"
          /\ \E r \in executeAnswers(a.read) \cup {x \in {[kind |-> "threw"]} : "execute" \in Faults} :
              update(onExecuted(answered(a), a.id, r, now))
  BY DEF ExecuteReplied
<1>2. PICK r \in executeAnswers(a.read) \cup {x \in {[kind |-> "threw"]} : "execute" \in Faults} :
          update(onExecuted(answered(a), a.id, r, now))
  BY <1>1
<1>3. rows' = rows /\ released' = released
  BY DEF ExecuteReplied
<1>4. r = [kind |-> "threw"] \/ r \in executeAnswers(a.read)
  BY <1>2
<1>5. ExecuteReply(r) /\ ExecuteVerdict(r)
  <2>1. CASE r = [kind |-> "threw"]
    BY <2>1 DEF ExecuteReply, ExecuteVerdict
  <2>2. CASE r \in executeAnswers(a.read)
    BY <2>2, ExecuteAnswerType, ExecuteAnswerEnds
  <2> QED BY <1>4, <2>1, <2>2
<1> DEFINE x == answered(a)
           y == onExecuted(x, a.id, r, now)
<1>6. /\ Good(x) /\ Typed(x) /\ Ordered(x) /\ x.intent = m.intent /\ x.asks \subseteq m.asks
      /\ x.sign = m.sign /\ now \in Nat
  BY FreshSound DEF Good, Inv
<1> HIDE DEF x
<1>7. Good(y)
  BY <1>5, <1>6, OnExecutedGood
<1>8. \/ Proceeds(x, y, NoQuote)
      \/ r.kind = "response" /\ ~r.reconciling /\ Ended(x, y, r.status, r.marker)
  BY <1>5, <1>6, OnExecutedGoes
<1>9. update(y)
  BY <1>2 DEF x
<1>10. y = x \/ (a.id = x.sign.id /\ x.sign.stage = "execute")
  BY DEF onExecuted
<1> HIDE DEF y
<1>11. CASE Proceeds(x, y, NoQuote)
  BY <1>3, <1>6, <1>7, <1>9, <1>11, ProceedsTurn
<1>12. CASE y = x
  <2>1. Proceeds(x, y, NoQuote)
    BY <1>6, <1>12, AlongSelf, AlongProceeds
  <2> QED BY <1>11, <2>1
<1>13. CASE /\ a.id = x.sign.id /\ x.sign.stage = "execute"
            /\ r.kind = "response" /\ ~r.reconciling /\ Ended(x, y, r.status, r.marker)
  <2>1. a.intentId = m.intent.intentId
    BY <1>1, <1>6, <1>13 DEF Sound, Ordered
  <2>2. Ended(m, y, r.status, r.marker)
    BY <1>6, <1>13, GoesFrom
  <2>3. r \in executeAnswers(a.read)
    BY <1>4, <1>13
  <2>4. /\ a.read \in {"completed", "refunded", "failed", "not_executed"}
        /\ r.status = "failed" /\ r.marker => a.read = "not_executed"
    BY <1>13, <2>2, <2>3, ExecuteAnswerEnds DEF Ended
  <2>5. rows[a.intentId].st = a.read
    BY <1>1, <2>4 DEF Sound, Claims, ReadOf, Final
  <2>6. Finishes(y, r.status, r.marker)
    BY <1>3, <2>1, <2>2, <2>4, <2>5 DEF Finishes, Final
  <2> QED BY <1>7, <1>9, <2>6 DEF Turn
<1> QED BY <1>8, <1>10, <1>11, <1>12, <1>13

\* What the Worker says of a row it read in state st.
LEMMA StatusAnswerTells ==
    ASSUME NEW st \in RowState \cup {"unread"}, NEW r \in statusAnswers(st)
    PROVE  /\ r.kind = "data" => st # "unread" /\ StatusUpdate(r)
           /\ r.kind = "data" /\ r.status \in Claimed => st \notin Unpaid
           /\ r.kind = "data" /\ r.terminal =>
                 r.status \in {"completed", "refunded", "failed", "expired"}
           /\ r.kind = "data" /\ r.status \in {"completed", "refunded", "failed", "expired"} =>
                 /\ st \in Final
                 /\ r.status = "failed" /\ r.marker => st = "not_executed"
                 /\ r.status = "expired" => st = "expired"
           /\ r.kind = "notFound" => st = "gone" \/ "404" \in Faults
<1> DEFINE late == [readRow(st) EXCEPT !.status = "executing", !.unmapped = TRUE]
<1>1. \/ r.kind \in {"threw", "null", "foreign"}
      \/ r.kind = "notFound" /\ (st = "gone" \/ "404" \in Faults)
      \/ st \notin {"unread", "none", "gone"} /\ r = readRow(st)
      \/ st \in {"executing", "bridging", "settling"} /\ r = late
  BY DEF statusAnswers
<1>2. CASE r.kind \in {"threw", "null", "foreign"}
  BY <1>2
<1>3. CASE r.kind = "notFound" /\ (st = "gone" \/ "404" \in Faults)
  BY <1>3
<1>4. CASE st \notin {"unread", "none", "gone"} /\ r = readRow(st)
  <2>1. StatusUpdate(r) /\ r.kind = "data"
    BY <1>4, ReadRowType
  <2>2. /\ r.status \in Claimed => st \notin Unpaid
        /\ r.terminal => r.status \in {"completed", "refunded", "failed", "expired"}
    BY <1>4 DEF readRow, Claimed, Unpaid
  <2>3. r.status \in {"completed", "refunded", "failed", "expired"} =>
                 /\ st \in Final
                 /\ r.status = "failed" /\ r.marker => st = "not_executed"
                 /\ r.status = "expired" => st = "expired"
    BY <1>4 DEF readRow, Final
  <2> QED BY <1>4, <2>1, <2>2, <2>3
<1>5. CASE st \in {"executing", "bridging", "settling"} /\ r = late
  <2>0. /\ r.kind = "data" /\ r.status = "executing" /\ StatusUpdate(r)
    BY <1>5 DEF readRow, StatusUpdate, IntentStatus
  <2>1. ~readRow(st).terminal
    BY <1>5 DEF readRow
  <2>2. r.terminal = readRow(st).terminal
    BY <1>5 DEF readRow
  <2> QED BY <1>5, <2>0, <2>1, <2>2 DEF Unpaid
<1> QED BY <1>1, <1>2, <1>3, <1>4, <1>5

\* An answer to a read.
LEMMA StatusTurn ==
    ASSUME Inv, Held, Sound, StatusReplied
    PROVE  Turn
<1>1. PICK a \in m.asks : a.op = "status" /\ \E r \in statusAnswers(a.read) :
          update(onStatus(answered(a), a.id, a.attempt, r, now))
  BY DEF StatusReplied
<1>2. PICK r \in statusAnswers(a.read) : update(onStatus(answered(a), a.id, a.attempt, r, now))
  BY <1>1
<1>3. rows' = rows /\ released' = released
  BY DEF StatusReplied
<1>4. a.attempt \in Nat /\ a.read \in RowState \cup {"unread"}
  BY AskTypes
<1>5. /\ r.kind = "data" => a.read # "unread" /\ StatusUpdate(r)
      /\ r.kind = "data" /\ r.status \in Claimed => a.read \notin Unpaid
      /\ r.kind = "data" /\ r.terminal =>
            r.status \in {"completed", "refunded", "failed", "expired"}
      /\ r.kind = "data" /\ r.status \in {"completed", "refunded", "failed", "expired"} =>
            /\ a.read \in Final
            /\ r.status = "failed" /\ r.marker => a.read = "not_executed"
            /\ r.status = "expired" => a.read = "expired"
      /\ r.kind = "notFound" => a.read = "gone" \/ "404" \in Faults
  BY <1>4, StatusAnswerTells
<1> DEFINE x == answered(a)
           y == onStatus(x, a.id, a.attempt, r, now)
<1>6. /\ Good(x) /\ Ordered(x) /\ Polled(x) /\ x.intent = m.intent /\ x.asks \subseteq m.asks
      /\ x.sign = m.sign /\ x.poll = m.poll
  BY FreshSound
<1> HIDE DEF x
<1>7. Good(y)
  BY <1>4, <1>5, <1>6, OnStatusGood
<1>8. update(y)
  BY <1>2 DEF x
<1>9. CASE ~(x.poll.live /\ x.poll.gen = a.id)
  <2>1. y = x
    BY <1>9 DEF onStatus
  <2>2. Proceeds(x, y, NoQuote)
    BY <1>6, <2>1, AlongSelf, AlongGoes DEF Proceeds
  <2> HIDE DEF y
  <2> QED BY <1>3, <1>6, <1>7, <1>8, <2>2, ProceedsTurn
<1>10. CASE x.poll.live /\ x.poll.gen = a.id
  <2>1. /\ a.intentId = m.intent.intentId /\ x.sign.stage # "execute" /\ InFlight(m)
        /\ x.poll.intentId = x.intent.intentId
    <3>1. a.intentId = x.poll.intentId /\ ~x.poll.resend
      BY <1>1, <1>6, <1>10 DEF Sound, Ordered
    <3>2. Due(x) /\ x.poll.intentId = x.intent.intentId /\ ~awaitingResend(x)
      BY <1>6, <1>10, <3>1 DEF Polled
    <3> QED BY <1>6, <3>1, <3>2 DEF Due, InFlight
  <2>2. a.read # "unread" => ReadOf(a)
    BY <1>1 DEF Sound, Claims
  <2>3. r.kind = "data" /\ r.status = "expired" => m.intent.status = "awaiting_deposit"
    <3>1. SUFFICES ASSUME r.kind = "data", r.status = "expired"
                   PROVE  m.intent.status = "awaiting_deposit"
      OBVIOUS
    <3>2. ~Paid(m.intent.intentId)
      BY <1>5, <2>1, <2>2, <3>1 DEF ReadOf, Paid, Unpaid, Final
    <3> QED BY <2>1, <3>2 DEF Sound, Claims, InFlight, POLL_INFLIGHT_STATES, Claimed
  <2>4. TerminalRead(x, r)
    BY <1>5, <1>6, <2>3 DEF TerminalRead
  <2>5. x.poll.live => InFlight(x) /\ x.poll.intentId = x.intent.intentId
    BY <1>6, <2>1 DEF InFlight
  <2>6. Read(x, y, r, NoQuote)
    BY <1>4, <1>5, <1>6, <2>1, <2>4, <2>5, OnStatusGoes
  <2> HIDE DEF y
  <2>7. CASE Proceeds(x, y, NoQuote)
    BY <1>3, <1>6, <1>7, <1>8, <2>7, ProceedsTurn
  <2>8. CASE r.kind = "data" /\ Told(x, y, r.status)
    <3>1. Told(m, y, r.status)
      BY <1>6, <2>8, GoesFrom
    <3>2. r.status \in Claimed => Paid(m.intent.intentId)
      BY <1>5, <2>1, <2>2, <2>8 DEF ReadOf, Paid
    <3>3. News(y, r.status)
      BY <1>3, <3>1, <3>2 DEF News
    <3> QED BY <1>7, <1>8, <3>3 DEF Turn
  <2>9. CASE r.kind = "data" /\ Ended(x, y, r.status, r.marker)
    <3>1. Ended(m, y, r.status, r.marker)
      BY <1>6, <2>9, GoesFrom
    <3>2. a.read \in Final /\ rows[m.intent.intentId].st = a.read
      BY <1>5, <2>1, <2>2, <2>9 DEF Ended, ReadOf
    <3>3. Finishes(y, r.status, r.marker)
      BY <1>3, <1>5, <2>9, <3>1, <3>2 DEF Finishes, Ended
    <3> QED BY <1>7, <1>8, <3>3 DEF Turn
  <2>10. CASE r.kind = "notFound" /\ Ended(x, y, "failed", TRUE)
    <3>1. Ended(m, y, "failed", TRUE)
      BY <1>6, <2>10, GoesFrom
    <3>2. "404" \notin Faults => rows[m.intent.intentId].st = "gone"
      BY <1>5, <2>1, <2>2, <2>10 DEF ReadOf, Final
    <3>3. Finishes(y, "failed", TRUE)
      BY <1>3, <3>1, <3>2 DEF Finishes, Final
    <3> QED BY <1>7, <1>8, <3>3 DEF Turn
  <2> QED BY <2>6, <2>7, <2>8, <2>9, <2>10 DEF Read, Answered
<1> QED BY <1>9, <1>10

\* An answer to a quote: a new row waits to be claimed, unless it waits for a
\* deposit, and then there is nothing to sign.
LEMMA QuoteTurn ==
    ASSUME Inv, Held, Sound, QuoteReplied
    PROVE  Turn
<1>1. PICK a \in m.asks : QuoteThrew(a) \/ QuoteServed(a)
  BY DEF QuoteReplied
<1> DEFINE x == answered(a)
<1>2. /\ Good(x) /\ Ordered(x) /\ x.intent = m.intent /\ x.asks \subseteq m.asks /\ now \in Nat
  BY FreshSound DEF Inv
<1>3. CASE QuoteThrew(a)
  <2> DEFINE reply == [threw |-> TRUE, quote |-> NoQuote]
             y == onQuote(x, a.id, reply, now)
  <2>1. reply.quote \in Quote /\ reply.quote = NoQuote
    BY NoQuoteType
  <2>2. update(y) /\ rows' = rows /\ released' = released
    BY <1>3 DEF QuoteThrew
  <2> HIDE DEF reply, x
  <2>3. Good(y) /\ Along(x, y, NoQuote)
    BY <1>2, <2>1, OnQuoteGood, OnQuoteAlong
  <2> HIDE DEF y
  <2> QED BY <1>2, <2>2, <2>3, AlongProceeds, ProceedsTurn
<1>4. CASE QuoteServed(a)
  <2> DEFINE unused(shape) == IF shape.preview THEN {None} ELSE Intents \ idsInUse
             id(shape) == CHOOSE j \in unused(shape) : TRUE
             q(shape) == serve(shape, id(shape))
             row(shape) == [st |-> IF q(shape).address # None THEN "awaiting" ELSE "quoted",
                            deadline |-> q(shape).deadline]
             reply(shape) == [threw |-> FALSE, success |-> shape.success, quote |-> q(shape),
                              genuine |-> shape.genuine, matches |-> shape.matches,
                              attested |-> shape.attested]
  <2>1. PICK shape \in Shapes :
            /\ unused(shape) # {}
            /\ update(onQuote(x, a.id, reply(shape), now))
            /\ rows' = IF id(shape) # None /\ m'.intent.intentId = id(shape)
                       THEN [rows EXCEPT ![id(shape)] = row(shape)] ELSE rows
            /\ UNCHANGED released
    BY <1>4, Zenon DEF QuoteServed
  <2> HIDE DEF x
  <2>2. /\ id(shape) \in OrNone(Intents)
        /\ id(shape) \in Intents => id(shape) \notin idsInUse
    BY <2>1, SystemConstants DEF OrNone
  <2> HIDE DEF unused, id
  <2>3. q(shape) \in Quote /\ q(shape).intent = id(shape)
    BY <2>2, ServeType DEF serve
  <2> HIDE DEF q
  <2>4. reply(shape).quote = q(shape) /\ reply(shape).quote \in Quote
    BY <2>3
  <2>5. row(shape).st = IF q(shape).address # None THEN "awaiting" ELSE "quoted"
    OBVIOUS
  <2> HIDE DEF reply, row
  <2> DEFINE y == onQuote(x, a.id, reply(shape), now)
  <2>6. update(y)
    BY <2>1
  <2>7. Good(y) /\ Along(x, y, q(shape))
    BY <1>2, <2>4, OnQuoteGood, OnQuoteAlong
  <2> HIDE DEF y
  <2>8. Proceeds(m, y, q(shape))
    BY <1>2, <2>7, AlongProceeds, GoesFrom DEF Proceeds
  <2>9. Held'
    BY <1>1, QuoteHeld
  <2>10. OrderQuoted(m'.intent)
    BY <2>9 DEF Held, Kept, Bound, OrderQuoted
  <2>11. Signable(m'.intent) /\ m'.intent.quote = q(shape) =>
            q(shape).intent \in Intents /\ rows'[q(shape).intent].st = "quoted"
    BY <2>1, <2>2, <2>3, <2>5, <2>10 DEF Signable, OrderQuoted, OrNone, Inv
  <2>12. \A i \in Intents : i # q(shape).intent => rows'[i] = rows[i]
    BY <2>1, <2>3 DEF Inv
  <2>13. Offered(q(shape))
    BY <2>2, <2>3, <2>11, <2>12 DEF Offered
  <2>14. GoesOn(y, q(shape))
    BY <2>1, <2>8, <2>13 DEF GoesOn
  <2> QED BY <2>6, <2>7, <2>14 DEF Turn
<1> QED BY <1>1, <1>3, <1>4

\* An answer of the session, of the wallet or of an approval.
LEMMA WalletReplyTurn ==
    ASSUME Inv, Held, Sound, SessionReplied \/ SignReplied \/ ApprovalReplied
    PROVE  Turn
<1>0. rows' = rows /\ released' = released
  BY DEF SessionReplied, SignReplied, ApprovalReplied
<1>1. CASE SessionReplied
  <2>1. PICK a \in m.asks, result \in {"ok"} \cup ({"refused"} \cap Faults) :
            update(onSession(answered(a), a.id, result))
    BY <1>1 DEF SessionReplied
  <2> DEFINE x == answered(a)
             y == onSession(x, a.id, result)
  <2>2. Good(x) /\ Ordered(x) /\ x.intent = m.intent /\ x.asks \subseteq m.asks
    BY FreshSound
  <2>3. update(y)
    BY <2>1
  <2> HIDE DEF x
  <2>4. Good(y) /\ Along(x, y, NoQuote)
    BY <2>2, OnSessionGood, OnSessionAlong
  <2> HIDE DEF y
  <2> QED BY <1>0, <2>2, <2>3, <2>4, AlongProceeds, ProceedsTurn
<1>2. CASE SignReplied
  <2>1. PICK a \in m.asks, result \in {"ok"} \cup ({"rejected", "error"} \cap Faults),
             purpose \in {"intent", "pull"} :
            update(onSigned(answered(a), a.id, purpose, result, a.intentId))
    BY <1>2 DEF SignReplied
  <2> DEFINE x == answered(a)
             y == onSigned(x, a.id, purpose, result, a.intentId)
  <2>2. /\ Good(x) /\ Ordered(x) /\ Polled(x) /\ x.intent = m.intent /\ x.asks \subseteq m.asks
        /\ a.intentId \in OrNone(Intents)
    BY FreshSound, AskTypes
  <2>3. update(y)
    BY <2>1
  <2> HIDE DEF x
  <2>4. x.poll.live => InFlight(x)
    BY <2>2 DEF Polled, Due
  <2>5. Good(y) /\ Proceeds(x, y, NoQuote)
    BY <2>2, <2>4, OnSignedGood, OnSignedGoes
  <2> HIDE DEF y
  <2> QED BY <1>0, <2>2, <2>3, <2>5, ProceedsTurn
<1>3. CASE ApprovalReplied
  <2>1. PICK a \in m.asks,
             result \in {"approved"} \cup ({"declined", "rejected", "error"} \cap Faults) :
            update(onApproval(answered(a), a.id, result))
    BY <1>3 DEF ApprovalReplied
  <2> DEFINE x == answered(a)
             y == onApproval(x, a.id, result)
  <2>2. Good(x) /\ Ordered(x) /\ x.intent = m.intent /\ x.asks \subseteq m.asks
    BY FreshSound
  <2>3. update(y)
    BY <2>1
  <2> HIDE DEF x
  <2>4. Good(y) /\ Along(x, y, NoQuote)
    BY <2>2, OnApprovalGood, OnApprovalAlong
  <2> HIDE DEF y
  <2> QED BY <1>0, <2>2, <2>3, <2>4, AlongProceeds, ProceedsTurn
<1> QED BY <1>1, <1>2, <1>3

\* Every step of the machine is such an update.
LEMMA MachineTurn ==
    ASSUME Inv, Held, Sound, HostMessage \/ Reply \/ \E t \in TimerName : TimerFired(t)
    PROVE  Turn
BY HostTurn, QuoteTurn, WalletReplyTurn, ExecuteTurn, StatusTurn, TimerTurn DEF Reply

\* A row on its own never comes to wait for a deposit, and stays at its end.
LEMMA WorkerRows ==
    ASSUME Inv, WorkerClaims \/ WorkerMoves \/ WorkerSweeps
    PROVE  \A i \in Intents :
              /\ rows[i].st \notin Unpaid => rows'[i].st \notin Unpaid
              /\ rows[i].st \in Final => rows'[i].st = rows[i].st
              /\ rows'[i].deadline = rows[i].deadline
<1>1. PICK j \in dispatched :
          \/ claimable(j) /\ rows' = [rows EXCEPT ![j].st = "claimed"]
          \/ /\ rows[j].st \in DOMAIN RowEdges
             /\ \E st \in RowEdges[rows[j].st] \cap Outcomes : rows' = [rows EXCEPT ![j].st = st]
          \/ rows[j].st = "quoted" /\ rows' = [rows EXCEPT ![j].st = "gone"]
  BY DEF WorkerClaims, WorkerMoves, WorkerSweeps
<1>2. j \in Intents
  BY DEF Inv
<1>3. CASE claimable(j) /\ rows' = [rows EXCEPT ![j].st = "claimed"]
  BY <1>2, <1>3 DEF claimable, Unpaid, Final, Inv
<1>4. CASE /\ rows[j].st \in DOMAIN RowEdges
           /\ \E st \in RowEdges[rows[j].st] \cap Outcomes : rows' = [rows EXCEPT ![j].st = st]
  <2>1. PICK st \in RowEdges[rows[j].st] : rows' = [rows EXCEPT ![j].st = st]
    BY <1>4
  <2>2. rows[j].st \in {"claimed", "awaiting", "executing", "bridging", "settling"}
    BY <1>4 DEF RowEdges
  <2>3. rows[j].st # "awaiting" => st \notin Unpaid
    BY <2>1, <2>2 DEF RowEdges, Unpaid
  <2> QED BY <1>2, <2>1, <2>2, <2>3 DEF Unpaid, Final, Inv
<1>5. CASE rows[j].st = "quoted" /\ rows' = [rows EXCEPT ![j].st = "gone"]
  BY <1>2, <1>5 DEF Unpaid, Final, Inv
<1> QED BY <1>1, <1>3, <1>4, <1>5

\* Calls answered and rows moved on leave the order sound.
LEMMA WorkerSound ==
    ASSUME Inv, Sound, Worker
    PROVE  Sound'
<1>1. CASE WorkerAnswers
  <2> DEFINE told(a, st) == [a EXCEPT !.read = st]
             left(a, st) == (m.asks \ {a}) \cup {told(a, st)}
             found(a) == IF a.op = "status" /\ rows[a.intentId].st = "quoted"
                            /\ now > rows[a.intentId].deadline + QUOTED_EXPIRY_GRACE
                         THEN "not_executed" ELSE rows[a.intentId].st
  <2>1. PICK a \in m.asks :
            /\ a.op \in {"execute", "status"} /\ a.read = "unread" /\ a.intentId \in Intents
            /\ m' = [m EXCEPT !.asks = left(a, found(a))]
            /\ rows' = [rows EXCEPT ![a.intentId].st = found(a)]
    BY <1>1, Zenon DEF WorkerAnswers
  <2>2. a \in Ask
    BY AskTypes
  <2>3. PICK st : st = found(a)
    OBVIOUS
  <2>4. /\ rows[a.intentId].st \notin Unpaid <=> st \notin Unpaid
        /\ rows[a.intentId].st \in Final => st = rows[a.intentId].st
    BY <2>3 DEF Unpaid, Final
  <2>5. PICK b :
            /\ b.id = a.id /\ b.op = a.op /\ b.intentId = a.intentId /\ b.read = st
            /\ m' = [m EXCEPT !.asks = (m.asks \ {a}) \cup {b}]
            /\ rows' = [rows EXCEPT ![a.intentId].st = st]
    <3>1. LET b == told(a, st)
          IN  b.id = a.id /\ b.op = a.op /\ b.intentId = a.intentId /\ b.read = st
      BY <2>2 DEF Ask
    <3> QED BY <2>1, <2>3, <3>1
  <2> HIDE DEF found, left, told
  <2>6. /\ m'.intent = m.intent /\ m'.sign = m.sign /\ m'.poll = m.poll
        /\ m'.timers = m.timers /\ m'.watched = m.watched
        /\ m'.asks = (m.asks \ {a}) \cup {b}
    BY <2>5 DEF Inv, Good, Typed, Model
  <2>7. \A i \in Intents : /\ rows[i].st \notin Unpaid => rows'[i].st \notin Unpaid
                           /\ rows[i].st \in Final => rows'[i].st = rows[i].st
    BY <2>1, <2>4, <2>5 DEF Inv
  <2>8. rows'[a.intentId].st = st
    BY <2>1, <2>5 DEF Inv
  <2>9. Ordered(m')
    <3>1. \A c \in m'.asks : \E d \in m.asks : c.op = d.op /\ c.id = d.id /\ c.intentId = d.intentId
      BY <2>5, <2>6
    <3> QED BY <2>6, <3>1 DEF Sound, Ordered, armed, InFlight
  <2>10. Settled(m')
    BY <2>6 DEF Sound, Settled, Due, armed, InFlight, awaitingResend
  <2>11. Claims(m)'
    <3>1. \A i : Paid(i) => Paid(i)'
      BY <2>7 DEF Paid
    <3>2. ReadOf(b)'
      BY <2>1, <2>5, <2>8 DEF ReadOf
    <3>3. \A c \in m.asks : ReadOf(c) => ReadOf(c)'
      BY <2>7 DEF ReadOf
    <3> QED BY <2>6, <3>1, <3>2, <3>3 DEF Sound, Claims
  <2> QED BY <2>9, <2>10, <2>11 DEF Sound
<1>2. CASE WorkerClaims \/ WorkerMoves \/ WorkerSweeps
  <2>1. m' = m
    BY <1>2 DEF WorkerClaims, WorkerMoves, WorkerSweeps
  <2>2. \A i \in Intents : /\ rows[i].st \notin Unpaid => rows'[i].st \notin Unpaid
                           /\ rows[i].st \in Final => rows'[i].st = rows[i].st
    BY <1>2, WorkerRows
  <2>3. \A i : Paid(i) => Paid(i)'
    BY <2>2 DEF Paid
  <2>4. \A c \in m.asks : ReadOf(c) => ReadOf(c)'
    BY <2>2 DEF ReadOf
  <2>5. Claims(m)'
    BY <2>1, <2>3, <2>4 DEF Sound, Claims
  <2> QED BY <2>1, <2>5 DEF Sound
<1> QED BY <1>1, <1>2 DEF Worker

\* A new page has no order, and nothing asked about one.
LEMMA InitOrdered ==
    ASSUME NEW c \in Context
    PROVE  Good(init(c)) /\ Ordered(init(c)) /\ Claims(init(c)) /\ init(c).asks = {}
<1> DEFINE x == init(c)
<1>1. Good(x)
  BY InitGood
<1>2. /\ x.asks = {} /\ x.sign = NoSign /\ x.poll = NoPoll /\ x.intent = INITIAL_INTENT_STATE
      /\ x.timers = [t \in TimerName |-> Never]
  BY DEF init
<1> HIDE DEF x
<1>3. ~armed(x, "expiry")
  BY <1>2 DEF armed, TimerName
<1>4. /\ ~INITIAL_INTENT_STATE.reconciling /\ NoSign.stage = "none" /\ ~NoPoll.live
      /\ INITIAL_INTENT_STATE.status \notin QUOTE_BUSY_STATES
  BY DEF INITIAL_INTENT_STATE, NoSign, NoPoll, QUOTE_BUSY_STATES
<1>5. Ordered(x)
  BY <1>2, <1>3, <1>4 DEF Ordered
<1>6. Claims(x)
  BY <1>2 DEF Claims, Signable, Claimed, INITIAL_INTENT_STATE, NoQuote
<1> QED BY <1>1, <1>2, <1>5, <1>6 DEF x

\* Initially.
LEMMA InitSound ==
    ASSUME Init
    PROVE  Sound /\ \A a \in m.asks : a.op # "execute"
<1>1. PICK c \in Contexts : m = settle(init(c), 0)
  BY DEF Init
<1> DEFINE x == init(c)
<1>2. Good(x) /\ Ordered(x) /\ Claims(x) /\ x.asks = {}
  BY InitOrdered, SystemConstants
<1>3. m = settle(x, 0)
  BY <1>1
<1> HIDE DEF x
<1>4. /\ Carries(x, settle(x, 0), NoQuote) /\ Ordered(settle(x, 0)) /\ Settled(settle(x, 0))
  BY <1>2, SettleCarries
<1>5. Claims(m)
  BY <1>2, <1>3, <1>4, CarriesClaims
<1>6. \A a \in m.asks : a.op # "execute"
  BY <1>2, <1>3, <1>4 DEF Carries
<1> QED BY <1>3, <1>4, <1>5, <1>6 DEF Sound

\* A sound order stays sound.
LEMMA NextSound == Inv /\ Held /\ Sound /\ [Next]_vars => Sound'
<1>1. SUFFICES ASSUME Inv, Held, Sound, [Next]_vars PROVE Sound'
  OBVIOUS
<1>2. CASE HostMessage \/ Reply \/ \E t \in TimerName : TimerFired(t)
  BY <1>1, <1>2, MachineTurn, TurnSound
<1>3. CASE Worker
  BY <1>1, <1>3, WorkerSound
<1>4. CASE Tick \/ UNCHANGED vars
  <2>1. m' = m /\ rows' = rows
    BY <1>4 DEF Tick, vars
  <2> QED BY <1>1, <2>1 DEF Sound, Claims, Paid, ReadOf
<1> QED BY <1>1, <1>2, <1>3, <1>4 DEF Next

\* So it is throughout.
LEMMA SoundThroughout == Spec => [](Inv /\ Held /\ Sound)
BY InitInv, NextInv, InitHeld, NextHeld, InitSound, NextSound, PTL DEF Spec

\* Whatever reads, frames and answers cross each other: a verdict, a Reset or a
\* new quote clears the doubt, and none is raised over an order that is over.
THEOREM DoubtTheorem == Spec => []DoubtOnlyInFlight
<1>1. Sound => DoubtOnlyInFlight
  BY DEF Sound, Ordered, InFlight, DoubtOnlyInFlight
<1> QED BY <1>1, SoundThroughout, PTL

\* After every message the poll of an order in flight runs, or has said that it
\* stopped: no timer that fires, tab that hides, answer or ceiling leaves one
\* unwatched in silence.
THEOREM WatchTheorem == Spec => []NoSilentStop
<1>1. Inv /\ Sound => NoSilentStop
  <2> SUFFICES ASSUME Inv, Sound, InFlight(m), m.sign.stage # "execute"
               PROVE  /\ m.poll.live /\ m.poll.intentId = m.intent.intentId
                      /\ armed(m, "poll") \/ m.intent.pollExhausted
    BY DEF NoSilentStop, InFlight
  <2>1. Due(m)
    BY StatusSets DEF Sound, Ordered, Due, InFlight
  <2> QED BY <2>1 DEF Sound, Settled, Ordered
<1> QED BY <1>1, SoundThroughout, PTL

-----------------------------------------------------------------------------
(***************************************************************************)
(* The orders that can still move funds.  One given up is the user's; any  *)
(* other is the order on screen, in flight or held as "may have moved".    *)
(***************************************************************************)

Live(i) == unsettled(i) \/ rows[i].st = "awaiting"

\* What was sent is an order the host accounts for.
Sent == \A a \in m.asks : a.op = "execute" => a.intentId \in dispatched

\* An order alive and not given up is the one on screen.
Accounted ==
    \A i \in dispatched :
        Live(i) /\ (i \notin released \/ i = m.intent.intentId) =>
            /\ i = m.intent.intentId
            /\ InFlight(m) \/ (m.intent.status = "failed" /\ m.intent.mayHaveMoved)

\* A row that is alive moves from rows that were.
LEMMA LiveBefore ==
    ASSUME Inv, Worker \/ Tick
    PROVE  \A i \in Intents : Live(i)' => Live(i)
<1>1. CASE WorkerAnswers
  <2>1. PICK a \in m.asks :
            /\ a.intentId \in Intents
            /\ \/ rows' = [rows EXCEPT ![a.intentId].st = "not_executed"]
               \/ rows' = [rows EXCEPT ![a.intentId].st = rows[a.intentId].st]
    BY <1>1, Zenon DEF WorkerAnswers
  <2>2. now' = now
    BY <1>1 DEF WorkerAnswers
  <2>3. \A i \in Intents : /\ rows'[i].deadline = rows[i].deadline
                           /\ rows'[i].st \in {"not_executed", rows[i].st}
    BY <2>1 DEF Inv
  <2>4. ASSUME NEW i \in Intents PROVE Live(i)' => Live(i)
    <3>1. rows'[i].deadline = rows[i].deadline /\ rows'[i].st \in {"not_executed", rows[i].st}
      BY <2>3
    <3> QED BY <2>2, <3>1 DEF Live, unsettled, claimable
  <2> QED BY <2>4
<1>2. CASE WorkerClaims \/ WorkerMoves \/ WorkerSweeps
  <2>1. now' = now
    BY <1>2 DEF WorkerClaims, WorkerMoves, WorkerSweeps
  <2>2. PICK j, st :
            /\ j \in dispatched
            /\ rows' = [rows EXCEPT ![j].st = st]
            /\ \/ claimable(j) \/ rows[j].st \in DOMAIN RowEdges
               \/ st = "gone"
    BY <1>2, Zenon DEF WorkerClaims, WorkerMoves, WorkerSweeps
  <2>3. j \in Intents
    BY <2>2 DEF Inv
  <2>4. \A i \in Intents \ {j} : rows'[i] = rows[i]
    BY <2>2 DEF Inv
  <2>5. rows'[j].st = st
    BY <2>2, <2>3 DEF Inv
  <2>6. Live(j)' => Live(j)
    BY <2>2, <2>5 DEF Live, unsettled, claimable, RowEdges
  <2>7. ASSUME NEW i \in Intents \ {j} PROVE Live(i)' => Live(i)
    <3>1. rows'[i] = rows[i]
      BY <2>4
    <3> QED BY <2>1, <3>1 DEF Live, unsettled, claimable
  <2> QED BY <2>6, <2>7
<1>3. CASE Tick
  <2>1. rows' = rows /\ now' = now + 1 /\ now \in Nat
    BY <1>3 DEF Tick, Inv
  <2>2. ASSUME NEW i \in Intents PROVE claimable(i)' => claimable(i)
    <3>1. rows[i] \in [st : RowState, deadline : Int]
      BY DEF Inv, Times
    <3>2. rows[i].deadline \in Int
      BY <3>1
    <3>3. CLAIM_SKEW \in Nat
      BY SystemConstants, Zenon
    <3> QED BY <2>1, <3>2, <3>3 DEF claimable
  <2> QED BY <2>1, <2>2 DEF Live, unsettled
<1> QED BY <1>1, <1>2, <1>3 DEF Worker

\* An order first dispatched by an update was sent, or is shown its address.
LEMMA NewlySent ==
    ASSUME NEW y, update(y), NEW i \in dispatched', i \notin dispatched
    PROVE  \/ \E a \in m'.asks : a.op = "execute" /\ a.intentId = i
           \/ InFlight(m') /\ i = m'.intent.intentId
BY DEF update, InFlight, POLL_INFLIGHT_STATES

\* An order whose row did not change is no more alive than it was.
LEMMA LiveSame ==
    ASSUME NEW i, rows'[i] = rows[i], now' = now
    PROVE  Live(i)' => Live(i)
BY DEF Live, unsettled, claimable

\* What an execute still names was dispatched.
LEMMA UpdateSent ==
    ASSUME Inv, Held', NEW y, update(y), Good(y)
    PROVE  Sent'
<1> SUFFICES ASSUME NEW a \in m'.asks, a.op = "execute" PROVE a.intentId \in dispatched'
  BY DEF Sent
<1>1. a.intentId # None
  BY DEF Held, Kept, Bound, SignedFor
<1>2. Good(m')
  BY UpdateInv
<1>3. a \in Ask
  BY <1>2 DEF Good, Typed, Model
<1>4. a.intentId \in OrNone(Intents)
  BY <1>3 DEF Ask
<1>5. a.intentId \in Intents
  BY <1>1, <1>4 DEF OrNone
<1> QED BY <1>5 DEF update

\* The order on screen goes on, and is accounted for as it was.
LEMMA GoesAccounted ==
    ASSUME Inv, Sent, Accounted, NEW y, Good(y), update(y), NEW q, GoesOn(y, q),
           Carries(y, m', q), m.intent.mayHaveMoved => m'.intent = m.intent
    PROVE  Accounted'
<1>1. Goes(m, m', q)
  BY GoesCarries DEF GoesOn, Proceeds
<1>2. now' = now /\ Offered(q) /\ released \ {m'.intent.intentId} \subseteq released'
  BY DEF update, GoesOn
<1>3. SUFFICES ASSUME NEW i \in dispatched', Live(i)', i \notin released' \/ i = m'.intent.intentId
               PROVE  /\ i = m'.intent.intentId
                      /\ InFlight(m') \/ (m'.intent.status = "failed" /\ m'.intent.mayHaveMoved)
  BY DEF Accounted, InFlight
<1>4. CASE i \notin dispatched
  <2>1. CASE \E a \in m'.asks : a.op = "execute" /\ a.intentId = i
    BY <1>1, <1>4, <2>1 DEF Goes, Sends, Sent
  <2> QED BY <1>4, <2>1, NewlySent
<1>5. CASE i \in dispatched
  <2>1. i \in Intents /\ i # None /\ i # q.intent
    BY <1>2, <1>5, SystemConstants DEF Inv, Offered, idsInUse
  <2>2. Live(i)
    BY <1>2, <1>3, <2>1, LiveSame DEF Offered
  <2>3. i \notin released \/ i = m.intent.intentId
    BY <1>1, <1>2, <1>3, <2>1 DEF Goes
  <2>4. /\ i = m.intent.intentId
        /\ InFlight(m) \/ (m.intent.status = "failed" /\ m.intent.mayHaveMoved)
    BY <1>5, <2>2, <2>3 DEF Accounted
  <2>5. CASE InFlight(m)
    BY <1>1, <2>4, <2>5, StatusSets DEF Goes, InFlight
  <2>6. CASE m.intent.status = "failed" /\ m.intent.mayHaveMoved
    BY <2>4, <2>6
  <2> QED BY <2>4, <2>5, <2>6
<1> QED BY <1>4, <1>5

\* News keeps it on screen.
LEMMA NewsAccounted ==
    ASSUME Inv, Sent, Accounted, NEW y, Good(y), update(y), NEW st, News(y, st),
           Carries(y, m', NoQuote)
    PROVE  Accounted'
<1>1. /\ now' = now /\ rows' = rows /\ released' = released
      /\ Told(m, y, st)
  BY DEF update, News
<1>2. InFlight(m') /\ m'.intent.intentId = m.intent.intentId
  BY <1>1, StatusSets DEF Told, Carries, InFlight
<1>3. SUFFICES ASSUME NEW i \in dispatched', Live(i)', i \notin released' \/ i = m'.intent.intentId
               PROVE  i = m'.intent.intentId /\ InFlight(m')
  BY DEF Accounted, InFlight
<1>4. CASE i \notin dispatched
  <2>1. CASE \E a \in m'.asks : a.op = "execute" /\ a.intentId = i
    BY <1>1, <1>4, <2>1 DEF Carries, Told, Sent
  <2> QED BY <1>4, <2>1, NewlySent
<1>5. CASE i \in dispatched
  <2>1. Live(i)
    BY <1>1, <1>3, LiveSame
  <2> QED BY <1>1, <1>2, <1>3, <1>5, <2>1 DEF Accounted
<1> QED BY <1>4, <1>5

\* An order at its end can no longer move funds.
LEMMA FinishesAccounted ==
    ASSUME "404" \notin Faults, Inv, Sent, Accounted, NEW y, Good(y), update(y),
           NEW st, NEW marker, Finishes(y, st, marker), Carries(y, m', NoQuote)
    PROVE  Accounted'
<1>1. /\ now' = now /\ rows' = rows /\ released' = released
      /\ Ended(m, y, st, marker) /\ rows[m.intent.intentId].st \in Final
  BY DEF update, Finishes
<1>2. ~Live(m.intent.intentId)
  BY <1>1 DEF Final, Live, unsettled, claimable
<1>3. ~InFlight(m')
  BY <1>1, StatusSets DEF Ended, Carries, InFlight, QUOTE_BUSY_STATES
<1>4. m'.intent.intentId \in {m.intent.intentId, None}
  BY <1>1 DEF Ended, Carries, NoQuote
<1>5. SUFFICES ASSUME NEW i \in dispatched', Live(i)', i \notin released' \/ i = m'.intent.intentId
               PROVE  FALSE
  BY DEF Accounted
<1>6. i \in dispatched
  BY <1>1, <1>3, NewlySent DEF Carries, Ended, Sent
<1>7. Live(i) /\ i # None
  BY <1>1, <1>5, <1>6, LiveSame, SystemConstants DEF Inv
<1>8. i = m.intent.intentId
  BY <1>1, <1>4, <1>5, <1>6, <1>7 DEF Accounted
<1> QED BY <1>2, <1>7, <1>8

\* One given up is the user's.
LEMMA DropsAccounted ==
    ASSUME Inv, Sent, Accounted, NEW y, Good(y), update(y), Drops(y), Carries(y, m', NoQuote)
    PROVE  Accounted'
<1>1. /\ now' = now /\ rows' = rows /\ released \subseteq released'
      /\ m.intent.intentId \in {None} \cup released'
      /\ y.intent = INITIAL_INTENT_STATE /\ y.asks = m.asks
  BY DEF update, Drops, Dropped
<1>2. m'.intent.intentId = None /\ ~InFlight(m')
  <2>1. y.intent.status = "idle" /\ y.intent.intentId = None /\ NoQuote.intent = None
    BY <1>1 DEF INITIAL_INTENT_STATE, NoQuote
  <2>2. y.intent.status \notin QUOTE_BUSY_STATES
    BY <2>1 DEF QUOTE_BUSY_STATES
  <2> QED BY <2>1, <2>2, StatusSets DEF Carries, InFlight
<1>3. SUFFICES ASSUME NEW i \in dispatched', Live(i)', i \notin released' \/ i = m'.intent.intentId
               PROVE  FALSE
  BY DEF Accounted
<1>4. i \in dispatched
  BY <1>1, <1>2, NewlySent DEF Carries, Sent
<1>5. Live(i) /\ i # None
  BY <1>1, <1>3, <1>4, LiveSame, SystemConstants DEF Inv
<1>6. i \notin released' /\ i # m.intent.intentId
  BY <1>1, <1>2, <1>3, <1>5
<1> QED BY <1>1, <1>4, <1>5, <1>6 DEF Accounted

\* One taken up again is the order on screen, and there was no other.
LEMMA AdoptsAccounted ==
    ASSUME Inv, Sent, Accounted, NEW y, Good(y), update(y), NEW s, Adopts(y, s),
           Carries(y, m', NoQuote)
    PROVE  Accounted'
<1>1. /\ now' = now /\ rows' = rows /\ released' = released \ {m'.intent.intentId}
      /\ Resumed(m, y, s)
  BY DEF update, Adopts
<1>2. m'.intent.intentId \in {s.intentId, None}
  BY <1>1 DEF Resumed, Carries, NoQuote
<1>3. SUFFICES ASSUME NEW i \in dispatched', Live(i)', i \notin released' \/ i = m'.intent.intentId
               PROVE  i = m'.intent.intentId /\ InFlight(m')
  BY DEF Accounted, InFlight
<1>4. CASE i \notin dispatched
  <2>1. CASE \E a \in m'.asks : a.op = "execute" /\ a.intentId = i
    BY <1>1, <1>4, <2>1 DEF Carries, Resumed, Sent
  <2> QED BY <1>4, <2>1, NewlySent
<1>5. CASE i \in dispatched
  <2>1. Live(i) /\ i # None
    BY <1>1, <1>3, <1>5, LiveSame, SystemConstants DEF Inv
  <2>2. m.intent.intentId = None
    BY <1>1 DEF Resumed
  <2>3. i = m'.intent.intentId
    BY <1>1, <1>3, <1>5, <2>1, <2>2 DEF Accounted
  <2>4. i = s.intentId
    BY <1>2, <2>1, <2>3
  <2>5. rows[s.intentId].st \in {"none", "quoted", "gone", "claimed", "awaiting",
                                 "executing", "bridging", "settling"}
    BY <2>1, <2>4 DEF Live, unsettled, claimable
  <2>6. s.status \in POLL_INFLIGHT_STATES
    BY <2>5 DEF Adopts
  <2>7. InFlight(m')
    BY <1>1, <2>6 DEF Resumed, Carries, InFlight
  <2> QED BY <2>3, <2>7
<1> QED BY <1>4, <1>5

\* Every step of the machine accounts for what can still move funds.
LEMMA MachineAccounted ==
    ASSUME "404" \notin Faults, Inv, Held, Held', Sound, PollFits(m), Sent, Accounted,
           HostMessage \/ Reply \/ \E t \in TimerName : TimerFired(t)
    PROVE  Sent' /\ Accounted'
<1>1. ASSUME NEW y, Good(y), update(y), Drops(y)
      PROVE  Sent' /\ Accounted'
  <2>1. Carries(y, m', NoQuote)
    BY <1>1, UpdateRules DEF Drops, Dropped
  <2> QED BY <1>1, <2>1, UpdateSent, DropsAccounted
<1>2. CASE ResetRequested
  BY <1>1, <1>2, ResetTurn
<1>3. CASE ~ResetRequested
  <2>1. m.intent.mayHaveMoved => m'.intent = m.intent
    BY <1>3, HostMoved, ReplyMoved, FiredMoved
  <2>2. Turn
    BY MachineTurn
  <2>3. PICK y :
            /\ Good(y) /\ update(y)
            /\ \/ \E q : GoesOn(y, q)
               \/ \E st : News(y, st)
               \/ \E st, marker : Finishes(y, st, marker)
               \/ Drops(y)
               \/ \E s : Adopts(y, s)
    BY <2>2 DEF Turn
  <2>4. Ordered(y)
    BY <2>3 DEF GoesOn, Proceeds, News, Told, Finishes, Ended, Drops, Dropped, Adopts, Resumed
  <2>5. \A q : Carries(y, m', q)
    BY <2>3, <2>4, UpdateRules
  <2>6. Sent'
    BY <2>3, UpdateSent
  <2>7. CASE \E q : GoesOn(y, q)
    BY <2>1, <2>3, <2>5, <2>6, <2>7, GoesAccounted
  <2>8. CASE \E st : News(y, st)
    BY <2>3, <2>5, <2>6, <2>8, NewsAccounted
  <2>9. CASE \E st, marker : Finishes(y, st, marker)
    BY <2>3, <2>5, <2>6, <2>9, FinishesAccounted
  <2>10. CASE Drops(y)
    BY <1>1, <2>3, <2>10
  <2>11. CASE \E s : Adopts(y, s)
    BY <2>3, <2>5, <2>6, <2>11, AdoptsAccounted
  <2> QED BY <2>3, <2>7, <2>8, <2>9, <2>10, <2>11
<1> QED BY <1>2, <1>3

\* So do the Worker and the clock.
LEMMA WorkerAccounted ==
    ASSUME Inv, Sent, Accounted, Worker \/ Tick
    PROVE  Sent' /\ Accounted'
<1>1. dispatched' = dispatched /\ released' = released
  BY DEF Worker, WorkerAnswers, WorkerClaims, WorkerMoves, WorkerSweeps, Tick
<1>2. /\ m'.intent = m.intent
      /\ \A b \in m'.asks : \E a \in m.asks : b.op = a.op /\ b.intentId = a.intentId
  <2>1. CASE m' = m
    BY <2>1
  <2>2. CASE WorkerAnswers
    <3>1. PICK a, st : a \in m.asks /\ m' = [m EXCEPT !.asks = (m.asks \ {a}) \cup {[a EXCEPT !.read = st]}]
      BY <2>2, Zenon DEF WorkerAnswers
    <3>2. a \in Ask
      BY <3>1, AskTypes
    <3>3. LET b == [a EXCEPT !.read = st] IN b.op = a.op /\ b.intentId = a.intentId
      BY <3>2 DEF Ask
    <3>4. PICK b : /\ b.op = a.op /\ b.intentId = a.intentId
                   /\ m' = [m EXCEPT !.asks = (m.asks \ {a}) \cup {b}]
      BY <3>1, <3>3
    <3>5. m'.intent = m.intent /\ m'.asks = (m.asks \ {a}) \cup {b}
      BY <3>4 DEF Inv, Good, Typed, Model
    <3> QED BY <3>1, <3>4, <3>5
  <2> QED BY <2>1, <2>2 DEF Worker, WorkerClaims, WorkerMoves, WorkerSweeps, Tick
<1>3. \A i \in Intents : Live(i)' => Live(i)
  BY LiveBefore
<1>4. Sent'
  BY <1>1, <1>2 DEF Sent
<1>5. Accounted'
  <2> SUFFICES ASSUME NEW i \in dispatched', Live(i)', i \notin released' \/ i = m'.intent.intentId
               PROVE  /\ i = m'.intent.intentId
                      /\ InFlight(m') \/ (m'.intent.status = "failed" /\ m'.intent.mayHaveMoved)
    BY DEF Accounted, InFlight
  <2>1. i \in dispatched /\ i \in Intents
    BY <1>1 DEF Inv
  <2>2. Live(i)
    BY <1>3, <2>1
  <2> QED BY <1>1, <1>2, <2>1, <2>2 DEF Accounted, InFlight
<1> QED BY <1>4, <1>5

\* Throughout, unless the Worker loses what it has.
LEMMA AccountedThroughout ==
    ASSUME "404" \notin Faults
    PROVE  Spec => [](Inv /\ Held /\ Sound /\ Sent /\ Accounted)
<1>1. Init => Sent /\ Accounted
  <2> SUFFICES ASSUME Init PROVE Sent /\ Accounted
    OBVIOUS
  <2>1. dispatched = {}
    BY DEF Init
  <2>2. Sent
    BY InitSound DEF Sent
  <2> QED BY <2>1, <2>2 DEF Accounted
<1>2. Inv /\ Held /\ Sound /\ PollFitted /\ Held' /\ Sent /\ Accounted /\ [Next]_vars
         => Sent' /\ Accounted'
  <2> SUFFICES ASSUME Inv, Held, Sound, PollFits(m), Held', Sent, Accounted, [Next]_vars
               PROVE  Sent' /\ Accounted'
    BY DEF PollFitted
  <2>1. CASE HostMessage \/ Reply \/ \E t \in TimerName : TimerFired(t)
    BY <2>1, MachineAccounted
  <2>2. CASE Worker \/ Tick
    BY <2>2, WorkerAccounted
  <2>3. CASE UNCHANGED vars
    BY <2>3 DEF vars, Sent, Accounted, InFlight, Live, unsettled, claimable
  <2> QED BY <2>1, <2>2, <2>3 DEF Next
<1> QED BY <1>1, <1>2, SoundThroughout, FitsInvariance, PTL DEF Spec

\* Whatever sits between two orders (an edited amount, a refused execute that
\* may still be claimed, a late answer, a resumed page): while one of them can
\* move funds and was not given up, no other that can was dispatched.
THEOREM OneLiveOrderTheorem ==
    ASSUME "404" \notin Faults
    PROVE  Spec => []OneLiveOrder
<1>1. Inv /\ Accounted => OneLiveOrder
  <2> SUFFICES ASSUME Inv, Accounted, NEW i \in dispatched \ released, NEW j \in dispatched \ released,
                      unsettled(i), unsettled(j)
               PROVE  i = j
    BY DEF OneLiveOrder
  <2>1. Live(i) /\ Live(j)
    BY DEF Live
  <2> QED BY <2>1 DEF Accounted
<1> QED BY <1>1, AccountedThroughout, PTL

\* An order in flight goes on in flight, or ends as its row did.
LEMMA MachineRetry ==
    ASSUME "404" \notin Faults, Inv, Held, Sound, InFlight(m),
           m'.intent.intentId = m.intent.intentId, phaseFromStatus(m'.intent) = "failed",
           HostMessage \/ Reply \/ \E t \in TimerName : TimerFired(t)
    PROVE  ~unsettled(m.intent.intentId)' /\ rows'[m.intent.intentId].st \notin Moved
<1>1. PICK y :
          /\ Good(y) /\ update(y)
          /\ \/ \E q : GoesOn(y, q)
             \/ \E st : News(y, st)
             \/ \E st, marker : Finishes(y, st, marker)
             \/ Drops(y)
             \/ \E s : Adopts(y, s)
  BY MachineTurn DEF Turn
<1>2. Ordered(y)
  BY <1>1 DEF GoesOn, Proceeds, News, Told, Finishes, Ended, Drops, Dropped, Adopts, Resumed
<1>3. (\A q : Carries(y, m', q)) /\ Ruled(y, m')
  BY <1>1, <1>2, UpdateRules
<1>4. m'.intent.status = "failed" /\ ~m'.intent.mayHaveMoved
  BY DEF phaseFromStatus
<1>5. m.intent.intentId # None /\ m.intent.status # "idle"
  BY StatusSets DEF Sound, Ordered, InFlight, POLL_INFLIGHT_STATES
<1>6. ~InFlight(m')
  BY <1>4 DEF InFlight, POLL_INFLIGHT_STATES
<1>7. CASE \E q : GoesOn(y, q)
  BY <1>3, <1>6, <1>7 DEF GoesOn, Proceeds, Goes, Carries
<1>8. CASE \E st : News(y, st)
  BY <1>3, <1>6, <1>8 DEF News, Told, Carries, InFlight
<1>9. CASE \E st, marker : Finishes(y, st, marker)
  <2>1. PICK st, marker : Finishes(y, st, marker)
    BY <1>9
  <2>2. y.intent.status = "failed" /\ ~y.intent.mayHaveMoved
    BY <1>3, <1>4 DEF Ruled
  <2>3. st = "failed" /\ y.intent.mayHaveMoved = ~marker
    BY <2>1, <2>2 DEF Finishes, Ended
  <2>4. marker
    BY <2>2, <2>3
  <2>5. rows' = rows /\ rows[m.intent.intentId].st \in {"not_executed", "gone"}
    BY <2>1, <2>3, <2>4 DEF Finishes
  <2> QED BY <2>5 DEF unsettled, claimable, Moved
<1>10. CASE Drops(y)
  <2>1. m'.intent.intentId = None
    BY <1>3, <1>10 DEF Drops, Dropped, Carries, INITIAL_INTENT_STATE, NoQuote
  <2> QED BY <1>5, <2>1
<1>11. CASE \E s : Adopts(y, s)
  BY <1>5, <1>11 DEF Adopts, Resumed
<1> QED BY <1>1, <1>7, <1>8, <1>9, <1>10, <1>11

\* No answer, read, frame, timer or rule turns an order in flight into the one
\* that offers Retry, but the word of a row that no longer can, and did not,
\* move anything.
THEOREM RetryTheorem ==
    ASSUME "404" \notin Faults
    PROVE  Spec => RetryOnlyIfNothingMoved
<1> DEFINE step == (/\ m.intent.status \in POLL_INFLIGHT_STATES
                    /\ m'.intent.intentId = m.intent.intentId
                    /\ phaseFromStatus(m'.intent) = "failed")
                   => ~unsettled(m.intent.intentId)' /\ rows'[m.intent.intentId].st \notin Moved
<1>1. Inv /\ Held /\ Sound /\ [Next]_vars => [step]_vars
  <2> SUFFICES ASSUME Inv, Held, Sound, Next, InFlight(m),
                      m'.intent.intentId = m.intent.intentId,
                      phaseFromStatus(m'.intent) = "failed"
               PROVE  ~unsettled(m.intent.intentId)' /\ rows'[m.intent.intentId].st \notin Moved
    BY DEF InFlight
  <2>1. CASE HostMessage \/ Reply \/ \E t \in TimerName : TimerFired(t)
    BY <2>1, MachineRetry
  <2>2. CASE Worker \/ Tick
    <3>1. m'.intent = m.intent
      <4>1. CASE WorkerAnswers
        <5>1. PICK left : m' = [m EXCEPT !.asks = left]
          BY <4>1, Zenon DEF WorkerAnswers
        <5> QED BY <5>1 DEF Inv, Good, Typed, Model
      <4> QED BY <2>2, <4>1 DEF Worker, WorkerClaims, WorkerMoves, WorkerSweeps, Tick
    <3>2. m'.intent.status = "failed"
      BY DEF phaseFromStatus
    <3> QED BY <3>1, <3>2 DEF InFlight, POLL_INFLIGHT_STATES
  <2> QED BY <2>1, <2>2 DEF Next
<1> QED BY <1>1, SoundThroughout, PTL DEF Spec, RetryOnlyIfNothingMoved
=============================================================================
