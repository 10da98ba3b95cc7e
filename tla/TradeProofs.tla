---------------------------- MODULE TradeProofs ----------------------------
(***************************************************************************)
(* The trade machine in its host keeps its types, its ceremony and its     *)
(* verdicts consistent, and never has a quote in the air over an order:    *)
(* for every set of intents, wallets, forms and quotes, every timing       *)
(* constant and every bound.                                               *)
(*                                                                         *)
(* First, of a single model x before or after any step: what the           *)
(* primitives of TradeMachine do to it, its type and the fields each one   *)
(* leaves alone; then that every handler maps a good model to a good one.  *)
(* Then the actions of the system, and the theorems.                       *)
(***************************************************************************)
EXTENDS TradeSystem, FiniteSetTheorems, TLAPS

\* A model of the right type, with finitely many calls and flights standing.
Typed(x) ==
    /\ x \in Model
    /\ IsFiniteSet(x.flights)
    /\ IsFiniteSet(x.asks)
    /\ IsFiniteSet(x.allocs)

\* y differs from x in at most the intent, the ceremony, the timers, the
\* flights and the calls: none of what a form or a host owns.
KeepsForm(x, y) ==
    /\ y.ctx = x.ctx /\ y.hidden = x.hidden /\ y.amount = x.amount
    /\ y.refresh = x.refresh /\ y.quotedTrade = x.quotedTrade
    /\ y.seenDepositAddresses = x.seenDepositAddresses
    /\ y.watched = x.watched /\ y.poll = x.poll

KeepsCeremony(x, y) ==
    /\ y.sign = x.sign /\ y.awaitingPull = x.awaitingPull
    /\ y.isSigningPull = x.isSigningPull /\ y.pendingIntentSig = x.pendingIntentSig

KeepsCalls(x, y) == y.asks = x.asks /\ y.allocs = x.allocs /\ y.event = x.event

-----------------------------------------------------------------------------
(* Constants of the model. *)

\* The sign flow that is not there is typed.
LEMMA NoSignType == NoSign \in SignFlow
BY DEF NoSign, SignFlow, OrNone, Never, Times

\* The poll that is not armed is typed.
LEMMA NoPollType == NoPoll \in PollState
BY DEF NoPoll, PollState, OrNone, IntentStatus, Times

\* The quote nobody holds is typed.
LEMMA NoQuoteType == NoQuote \in Quote
BY DEF NoQuote, Quote, OrNone, Times

\* The intent a page starts with is typed.
LEMMA InitialIntentType == INITIAL_INTENT_STATE \in Intent
BY NoQuoteType DEF INITIAL_INTENT_STATE, Intent, OrNone, IntentStatus, Never, Times

-----------------------------------------------------------------------------
(* Timers. *)

\* Arming a timer changes that timer only.
LEMMA SetTimerFrame ==
    ASSUME NEW x, Typed(x), NEW t \in TimerName, NEW d \in Times
    PROVE  LET y == setTimer(x, t, d)
           IN  /\ Typed(y) /\ KeepsForm(x, y) /\ KeepsCeremony(x, y) /\ KeepsCalls(x, y)
               /\ y.intent = x.intent /\ y.flights = x.flights
               /\ y.timers = [x.timers EXCEPT ![t] = d]
BY DEF setTimer, Typed, Model, KeepsForm, KeepsCeremony, KeepsCalls

\* So does disarming it.
LEMMA ClearTimerFrame ==
    ASSUME NEW x, Typed(x), NEW t \in TimerName
    PROVE  LET y == clearTimer(x, t)
           IN  /\ Typed(y) /\ KeepsForm(x, y) /\ KeepsCeremony(x, y) /\ KeepsCalls(x, y)
               /\ y.intent = x.intent /\ y.flights = x.flights
               /\ y.timers = [x.timers EXCEPT ![t] = Never]
BY DEF clearTimer, Typed, Model, KeepsForm, KeepsCeremony, KeepsCalls, Times, Never

\* Disarming several changes those only.
LEMMA ClearTimersFrame ==
    ASSUME NEW x, Typed(x), NEW ts
    PROVE  LET y == clearTimers(x, ts)
           IN  /\ Typed(y) /\ KeepsForm(x, y) /\ KeepsCeremony(x, y) /\ KeepsCalls(x, y)
               /\ y.intent = x.intent /\ y.flights = x.flights
               /\ y.timers = [t \in TimerName |-> IF t \in ts THEN Never ELSE x.timers[t]]
BY DEF clearTimers, Typed, Model, KeepsForm, KeepsCeremony, KeepsCalls, Times, Never

-----------------------------------------------------------------------------
(* The intent, the ceremony and the calls. *)

\* A patch replaces the intent only.
LEMMA PatchFrame ==
    ASSUME NEW x, Typed(x), NEW i \in Intent
    PROVE  LET y == patch(x, i)
           IN  /\ Typed(y) /\ KeepsForm(x, y) /\ KeepsCeremony(x, y) /\ KeepsCalls(x, y)
               /\ y.intent = i /\ y.flights = x.flights /\ y.timers = x.timers
BY DEF patch, Typed, Model, KeepsForm, KeepsCeremony, KeepsCalls

\* Replacing the sign flow changes it only.
LEMMA SignFrame ==
    ASSUME NEW x, Typed(x), NEW f \in SignFlow
    PROVE  LET y == [x EXCEPT !.sign = f]
           IN  /\ Typed(y) /\ KeepsForm(x, y) /\ KeepsCalls(x, y)
               /\ y.sign = f /\ y.awaitingPull = x.awaitingPull
               /\ y.isSigningPull = x.isSigningPull /\ y.pendingIntentSig = x.pendingIntentSig
               /\ y.intent = x.intent /\ y.flights = x.flights /\ y.timers = x.timers
BY DEF Typed, Model, KeepsForm, KeepsCalls

\* Ending a sign flow keeps the held signature and the wait for the second tap.
LEMMA EndSignFlowFrame ==
    ASSUME NEW x, Typed(x), NEW f
    PROVE  LET y == endSignFlow(x, f)
           IN  /\ Typed(y) /\ KeepsForm(x, y) /\ KeepsCalls(x, y)
               /\ y.sign = NoSign /\ y.awaitingPull = x.awaitingPull
               /\ y.pendingIntentSig = x.pendingIntentSig
               /\ y.intent = x.intent /\ y.flights = x.flights /\ y.timers = x.timers
BY NoSignType, ZenonT(60) DEF endSignFlow, Typed, Model, KeepsForm, KeepsCalls

\* Abandoning a ceremony forgets all of it, and its timers.
LEMMA AbandonSignFrame ==
    ASSUME NEW x, Typed(x)
    PROVE  LET y == abandonSign(x)
           IN  /\ Typed(y) /\ KeepsForm(x, y) /\ KeepsCalls(x, y)
               /\ y.sign = NoSign /\ ~y.awaitingPull /\ y.pendingIntentSig = None
               /\ y.intent = x.intent /\ y.flights = x.flights
               /\ y.timers["signPrompt"] = IF x.sign.stage # "none" THEN Never
                                           ELSE x.timers["signPrompt"]
               /\ y.timers["execute"] = IF awaitingResend(x) THEN Never
                                        ELSE x.timers["execute"]
<1> DEFINE ts == (IF x.sign.stage # "none" THEN {"signPrompt"} ELSE {})
                 \cup (IF awaitingResend(x) THEN {"execute"} ELSE {})
           c == clearTimers(x, ts)
<1>1. /\ Typed(c) /\ KeepsForm(x, c) /\ KeepsCeremony(x, c) /\ KeepsCalls(x, c)
      /\ c.intent = x.intent /\ c.flights = x.flights
      /\ c.timers = [t \in TimerName |-> IF t \in ts THEN Never ELSE x.timers[t]]
  BY ClearTimersFrame
<1>2. /\ ("signPrompt" \in ts) <=> (x.sign.stage # "none")
      /\ ("execute" \in ts) <=> awaitingResend(x)
  BY DEF awaitingResend
<1>3. abandonSign(x) = [c EXCEPT !.sign = NoSign, !.pendingIntentSig = None,
                                 !.awaitingPull = FALSE, !.isSigningPull = FALSE]
  BY DEF abandonSign
<1> DEFINE y == abandonSign(x)
<1> HIDE DEF c, ts
<1>4. /\ Typed(y) /\ KeepsForm(c, y) /\ KeepsCalls(c, y)
      /\ y.sign = NoSign /\ ~y.awaitingPull /\ y.pendingIntentSig = None
      /\ y.intent = c.intent /\ y.flights = c.flights /\ y.timers = c.timers
  BY <1>1, <1>3, NoSignType, ZenonT(60) DEF Typed, Model, KeepsForm, KeepsCalls, OrNone
<1> HIDE DEF y
<1>5. /\ y.timers["signPrompt"] = IF x.sign.stage # "none" THEN Never
                                  ELSE x.timers["signPrompt"]
      /\ y.timers["execute"] = IF awaitingResend(x) THEN Never ELSE x.timers["execute"]
  BY <1>1, <1>2, <1>4 DEF TimerName
<1>6. KeepsForm(x, y) /\ KeepsCalls(x, y)
  BY <1>1, <1>4 DEF KeepsForm, KeepsCalls
<1>7. QED
  BY <1>1, <1>4, <1>5, <1>6 DEF y

-----------------------------------------------------------------------------
(* Calls and flights. *)

\* A call is added to the ones standing.
LEMMA PerformFrame ==
    ASSUME NEW x, Typed(x), NEW a \in Ask
    PROVE  LET y == perform(x, a)
           IN  /\ Typed(y) /\ KeepsForm(x, y) /\ KeepsCeremony(x, y)
               /\ y.intent = x.intent /\ y.flights = x.flights /\ y.timers = x.timers
               /\ y.allocs = x.allocs
<1>1. IsFiniteSet(x.asks \cup {a})
  BY FS_AddElement DEF Typed
<1>2. QED
  BY <1>1 DEF perform, Typed, Model, KeepsForm, KeepsCeremony

\* Reporting an allocation touches the allocations and the event only.
LEMMA EndAllocationFrame ==
    ASSUME NEW x, Typed(x), NEW ref, NEW ok
    PROVE  LET y == endAllocation(x, ref, ok)
           IN  /\ Typed(y) /\ KeepsForm(x, y) /\ KeepsCeremony(x, y)
               /\ y.intent = x.intent /\ y.flights = x.flights /\ y.timers = x.timers
               /\ y.asks = x.asks
<1>1. IsFiniteSet(x.allocs \ {ref})
  BY FS_RemoveElement DEF Typed
<1>2. QED
  BY <1>1, ZenonT(60) DEF endAllocation, Typed, Model, KeepsForm, KeepsCeremony

\* Dropping a flight drops it only.
LEMMA WithoutFlightFrame ==
    ASSUME NEW x, Typed(x), NEW id
    PROVE  LET y == withoutFlight(x, id)
           IN  /\ Typed(y) /\ KeepsForm(x, y) /\ KeepsCeremony(x, y) /\ KeepsCalls(x, y)
               /\ y.intent = x.intent /\ y.timers = x.timers
               /\ y.flights \subseteq x.flights
<1>1. IsFiniteSet({f \in x.flights : f.id # id})
  BY FS_Subset DEF Typed
<1>2. QED
  BY <1>1 DEF withoutFlight, Typed, Model, KeepsForm, KeepsCeremony, KeepsCalls

\* Putting a flight adds it, in the place of the one with its id.
LEMMA PutFlightFrame ==
    ASSUME NEW x, Typed(x), NEW g \in Flight
    PROVE  LET y == putFlight(x, g)
           IN  /\ Typed(y) /\ KeepsForm(x, y) /\ KeepsCeremony(x, y) /\ KeepsCalls(x, y)
               /\ y.intent = x.intent /\ y.timers = x.timers
<1>1. IsFiniteSet({f \in x.flights : f.id # g.id})
  BY FS_Subset DEF Typed
<1>2. IsFiniteSet({f \in x.flights : f.id # g.id} \cup {g})
  BY <1>1, FS_AddElement
<1>3. QED
  BY <1>2 DEF putFlight, Typed, Model, KeepsForm, KeepsCeremony, KeepsCalls

\* Superseding drops every flight and answers the allocations they carried.
LEMMA SupersedeFrame ==
    ASSUME NEW x, Typed(x)
    PROVE  LET y == supersedeFlights(x)
           IN  /\ Typed(y) /\ KeepsForm(x, y) /\ KeepsCeremony(x, y)
               /\ y.intent = x.intent /\ y.timers = x.timers /\ y.asks = x.asks
               /\ y.flights = {}
<1> DEFINE none == {}
           refs == {f.ref : f \in x.flights} \ {0}
           left == x.allocs \ refs
           told == IF refs = {} THEN x.event ELSE "refused"
<1>1. IsFiniteSet(left) /\ IsFiniteSet(none)
  BY FS_Subset, FS_EmptySet DEF Typed
<1>2. none \in SUBSET Flight /\ left \in SUBSET Nat /\ told \in {"none", "allocated", "refused"}
  BY DEF Typed, Model
<1>3. supersedeFlights(x) = [x EXCEPT !.flights = none, !.allocs = left, !.event = told]
  BY DEF supersedeFlights, Typed, Model
<1> HIDE DEF none, refs, left, told
<1> DEFINE y == supersedeFlights(x)
<1>4. /\ y \in Model /\ y.flights = none /\ y.allocs = left /\ y.asks = x.asks
      /\ y.intent = x.intent /\ y.timers = x.timers
      /\ KeepsForm(x, y) /\ KeepsCeremony(x, y)
  BY <1>2, <1>3, ZenonT(60) DEF Typed, Model, KeepsForm, KeepsCeremony
<1> HIDE DEF y
<1>5. Typed(y)
  BY <1>1, <1>4 DEF Typed
<1>6. QED
  BY <1>4, <1>5 DEF y, none

\* A finite set has finite projections.
LEMMA FiniteIds ==
    ASSUME NEW x, Typed(x)
    PROVE  IsFiniteSet(idsHeld(x))
<1> DEFINE A == {f.id : f \in x.flights}
           B == {f.ref : f \in x.flights}
           C == {a.id : a \in x.asks}
<1>1. [f \in x.flights |-> f.id] \in Surjection(x.flights, A)
  BY DEF Surjection
<1>2. [f \in x.flights |-> f.ref] \in Surjection(x.flights, B)
  BY DEF Surjection
<1>3. [a \in x.asks |-> a.id] \in Surjection(x.asks, C)
  BY DEF Surjection
<1>4. IsFiniteSet(A) /\ IsFiniteSet(B) /\ IsFiniteSet(C)
  BY <1>1, <1>2, <1>3, FS_Surjection DEF Typed
<1>5. IsFiniteSet({x.sign.id, x.poll.gen})
  <2>1. IsFiniteSet({x.sign.id}) BY FS_Singleton
  <2>2. IsFiniteSet({x.sign.id} \cup {x.poll.gen}) BY <2>1, FS_AddElement
  <2>3. {x.sign.id} \cup {x.poll.gen} = {x.sign.id, x.poll.gen} OBVIOUS
  <2>4. QED BY <2>2, <2>3
<1>6. IsFiniteSet(A \cup B \cup C \cup x.allocs \cup {x.sign.id, x.poll.gen})
  BY <1>4, <1>5, FS_Union DEF Typed
<1>7. QED
  BY <1>6 DEF idsHeld

\* There is always a number nothing holds, and nextId is one.
LEMMA NextIdFresh ==
    ASSUME NEW x, Typed(x)
    PROVE  nextId(x) \in Nat \ {0} /\ nextId(x) \notin idsHeld(x)
<1> DEFINE n == Cardinality(idsHeld(x))
<1>1. n \in Nat
  BY FiniteIds, FS_CardinalityType
<1>2. Cardinality(1..(n + 1)) = n + 1
  BY <1>1, FS_Interval
<1>3. \E i \in 1..(n + 1) : i \notin idsHeld(x)
  <2>1. SUFFICES ASSUME 1..(n + 1) \in SUBSET idsHeld(x) PROVE FALSE
    OBVIOUS
  <2>2. Cardinality(1..(n + 1)) <= n
    BY <2>1, FiniteIds, FS_Subset
  <2>3. QED
    BY <1>1, <1>2, <2>2
<1>4. nextId(x) \in 1..(n + 1) /\ nextId(x) \notin idsHeld(x)
  BY <1>3 DEF nextId
<1>5. QED
  BY <1>1, <1>4

-----------------------------------------------------------------------------
(***************************************************************************)
(* The inductive invariant, on a record.  CeremonySafe, VerdictsSafe and   *)
(* FlightsSafe are what TradeSystem's CeremonyConsistent,                  *)
(* VerdictsConsistent and NoFlightOverOrder say of m.                      *)
(***************************************************************************)
CeremonySafe(x) ==
    /\ x.sign.stage \in {"intent", "approval", "pull"} => x.intent.status = "signing"
    /\ x.sign.stage = "execute" => x.intent.status = "executing"
    /\ x.awaitingPull => x.intent.status = "signing" /\ x.sign.stage # "intent"
    /\ x.pendingIntentSig # None =>
          x.intent.status = "signing" \/ (x.sign.stage = "execute" /\ ~awaitingResend(x))
    /\ armed(x, "signPrompt") => x.sign.stage \in {"intent", "pull"}
    /\ armed(x, "execute") <=> awaitingResend(x)

VerdictsSafe(x) ==
    /\ x.intent.notSent => x.intent.status = "executing" /\ x.sign.stage = "none"
    /\ x.intent.mayHaveMoved => x.intent.status = "failed"

FlightsSafe(x) ==
    x.intent.status \in QUOTE_BUSY_STATES \/ x.intent.mayHaveMoved => x.flights = {}

Good(x) == Typed(x) /\ CeremonySafe(x) /\ VerdictsSafe(x) /\ FlightsSafe(x)

\* What Good depends on: it carries over to a typed y that agrees with x there.
LEMMA GoodAgrees ==
    ASSUME NEW x, Good(x), NEW y, Typed(y), KeepsCeremony(x, y), y.intent = x.intent,
           y.flights \in SUBSET x.flights,
           y.timers["signPrompt"] = x.timers["signPrompt"],
           y.timers["execute"] = x.timers["execute"]
    PROVE  Good(y)
BY DEF Good, CeremonySafe, VerdictsSafe, FlightsSafe, KeepsCeremony, armed, awaitingResend

-----------------------------------------------------------------------------
(* A status move. *)

\* The intent u after a move to the status `to`.
movedTo(u, to) == [u EXCEPT !.status = to, !.notSent = FALSE]

\* The move ends the ceremony of x.
leaves(x, to) ==
    \/ x.intent.status = "executing"
    \/ x.intent.status = "signing" /\ ~(to = "executing" /\ x.sign.stage = "execute")

\* An edge of the table moves the intent, drops the flights when it enters a
\* busy state, and ends the ceremony when it leaves one; no edge, no change.
LEMMA TransitionFrame ==
    ASSUME NEW x, Typed(x), NEW to \in IntentStatus, NEW u \in Intent
    PROVE  LET y == transition(x, to, u)
               from == x.intent.status
           IN  /\ Typed(y) /\ KeepsForm(x, y) /\ y.asks = x.asks
               /\ ~canTransitionTo(from, to) => y = x
               /\ canTransitionTo(from, to) =>
                     /\ y.intent = movedTo(u, to)
                     /\ y.flights = IF to \in QUOTE_BUSY_STATES /\ from \notin QUOTE_BUSY_STATES
                                    THEN {} ELSE x.flights
                     /\ IF leaves(x, to)
                        THEN /\ y.sign = NoSign /\ ~y.awaitingPull /\ y.pendingIntentSig = None
                             /\ y.timers["signPrompt"] = IF x.sign.stage # "none" THEN Never
                                                         ELSE x.timers["signPrompt"]
                             /\ y.timers["execute"] = IF awaitingResend(x) THEN Never
                                                      ELSE x.timers["execute"]
                        ELSE KeepsCeremony(x, y) /\ y.timers = x.timers
<1> DEFINE from == x.intent.status
           v == movedTo(u, to)
           moved == patch(x, v)
           next == IF to \in QUOTE_BUSY_STATES /\ from \notin QUOTE_BUSY_STATES
                   THEN supersedeFlights(moved) ELSE moved
           y == transition(x, to, u)
<1>1. y = IF ~canTransitionTo(from, to) THEN x
          ELSE IF leaves(x, to) THEN abandonSign(next) ELSE next
  BY DEF transition, leaves, movedTo
<1>2. v \in Intent
  BY DEF Intent, movedTo
<1> HIDE DEF v
<1>3. /\ Typed(moved) /\ KeepsForm(x, moved) /\ KeepsCeremony(x, moved) /\ KeepsCalls(x, moved)
      /\ moved.intent = v /\ moved.flights = x.flights /\ moved.timers = x.timers
  BY <1>2, PatchFrame
<1> HIDE DEF moved
<1>4. /\ Typed(next) /\ KeepsForm(x, next) /\ KeepsCeremony(x, next) /\ next.asks = x.asks
      /\ next.intent = v /\ next.timers = x.timers
      /\ next.flights = IF to \in QUOTE_BUSY_STATES /\ from \notin QUOTE_BUSY_STATES
                        THEN {} ELSE x.flights
  <2>1. CASE to \in QUOTE_BUSY_STATES /\ from \notin QUOTE_BUSY_STATES
    <3> DEFINE z == supersedeFlights(moved)
    <3>1. /\ Typed(z) /\ KeepsForm(moved, z) /\ KeepsCeremony(moved, z)
          /\ z.intent = moved.intent /\ z.timers = moved.timers /\ z.asks = moved.asks
          /\ z.flights = {}
      BY <1>3, SupersedeFrame
    <3>2. next = z
      BY <2>1
    <3> HIDE DEF z, next
    <3>3. QED
      BY <1>3, <2>1, <3>1, <3>2 DEF KeepsForm, KeepsCeremony, KeepsCalls
  <2>2. CASE ~(to \in QUOTE_BUSY_STATES /\ from \notin QUOTE_BUSY_STATES)
    <3>1. next = moved
      BY <2>2
    <3> HIDE DEF next
    <3>2. QED
      BY <1>3, <2>2, <3>1 DEF KeepsCalls
  <2>3. QED
    BY <2>1, <2>2
<1> HIDE DEF next
<1>5. (awaitingResend(next) <=> awaitingResend(x)) /\ next.sign.stage = x.sign.stage
  BY <1>4 DEF awaitingResend, KeepsCeremony
<1>6. CASE ~canTransitionTo(from, to)
  BY <1>1, <1>6 DEF KeepsForm
<1>7. CASE canTransitionTo(from, to) /\ leaves(x, to)
  <2> DEFINE z == abandonSign(next)
  <2>1. /\ Typed(z) /\ KeepsForm(next, z) /\ KeepsCalls(next, z)
        /\ z.sign = NoSign /\ ~z.awaitingPull /\ z.pendingIntentSig = None
        /\ z.intent = next.intent /\ z.flights = next.flights
        /\ z.timers["signPrompt"] = IF next.sign.stage # "none" THEN Never
                                    ELSE next.timers["signPrompt"]
        /\ z.timers["execute"] = IF awaitingResend(next) THEN Never
                                 ELSE next.timers["execute"]
    BY <1>4, AbandonSignFrame
  <2>2. y = z
    BY <1>1, <1>7
  <2> HIDE DEF z, y
  <2>3. KeepsForm(x, y) /\ y.asks = x.asks
    BY <1>4, <2>1, <2>2 DEF KeepsForm, KeepsCalls
  <2>4. QED
    BY <1>4, <1>5, <1>7, <2>1, <2>2, <2>3 DEF v, y
<1>8. CASE canTransitionTo(from, to) /\ ~leaves(x, to)
  <2>1. y = next
    BY <1>1, <1>8
  <2> HIDE DEF y
  <2>2. QED
    BY <1>4, <1>8, <2>1 DEF v, y
<1>9. QED
  BY <1>6, <1>7, <1>8

\* A status move keeps a good model good, unless it claims that funds may have
\* moved anywhere but in a failure with no quote in the air.
LEMMA TransitionGood ==
    ASSUME NEW x, Good(x), NEW to \in IntentStatus, NEW u \in Intent,
           canTransitionTo(x.intent.status, to) /\ u.mayHaveMoved => to = "failed" /\ x.flights = {}
    PROVE  Good(transition(x, to, u))
<1> DEFINE y == transition(x, to, u)
           v == movedTo(u, to)
<1>1. Typed(x) /\ CeremonySafe(x) /\ VerdictsSafe(x) /\ FlightsSafe(x)
  BY DEF Good
<1>2. v.status = to /\ v.notSent = FALSE /\ v.mayHaveMoved = u.mayHaveMoved
  BY DEF Intent, movedTo
<1>3. NoSign.stage = "none" /\ NoSign.resendAt = Never
  BY DEF NoSign
<1>4. CASE ~canTransitionTo(x.intent.status, to)
  BY <1>4, TransitionFrame, <1>1
<1>5. CASE canTransitionTo(x.intent.status, to)
  <2>0. Typed(y) /\ y.intent = v
    BY <1>1, <1>5, TransitionFrame
  <2>1. y.flights = IF to \in QUOTE_BUSY_STATES /\ x.intent.status \notin QUOTE_BUSY_STATES
                    THEN {} ELSE x.flights
    BY <1>1, <1>5, TransitionFrame
  <2>2. IF leaves(x, to)
        THEN /\ y.sign = NoSign /\ ~y.awaitingPull /\ y.pendingIntentSig = None
             /\ y.timers["signPrompt"] = IF x.sign.stage # "none" THEN Never
                                         ELSE x.timers["signPrompt"]
             /\ y.timers["execute"] = IF awaitingResend(x) THEN Never ELSE x.timers["execute"]
        ELSE KeepsCeremony(x, y) /\ y.timers = x.timers
    BY <1>1, <1>5, TransitionFrame
  <2> HIDE DEF y, v
  <2>3. FlightsSafe(y)
    BY <1>1, <1>2, <1>5, <2>0, <2>1 DEF FlightsSafe, QUOTE_BUSY_STATES
  <2>4. CASE leaves(x, to)
    <3>1. ~armed(y, "signPrompt") /\ ~armed(y, "execute")
      BY <1>1, <2>2, <2>4 DEF CeremonySafe, armed
    <3>2. y.sign.stage = "none" /\ ~awaitingResend(y)
      BY <1>3, <2>2, <2>4 DEF awaitingResend
    <3>3. QED
      BY <1>2, <1>5, <2>0, <2>2, <2>3, <2>4, <3>1, <3>2 DEF Good, CeremonySafe, VerdictsSafe, y
  <2>5. CASE ~leaves(x, to)
    <3>1. /\ x.sign.stage \notin {"intent", "approval", "pull", "execute"} /\ ~x.awaitingPull
          /\ x.pendingIntentSig = None /\ ~awaitingResend(x)
      BY <1>1, <2>5 DEF CeremonySafe, leaves, awaitingResend
    <3>2. ~armed(y, "signPrompt") /\ ~armed(y, "execute")
      BY <1>1, <2>2, <2>5, <3>1 DEF CeremonySafe, armed
    <3>3. /\ y.sign.stage \notin {"intent", "approval", "pull", "execute"} /\ ~y.awaitingPull
          /\ y.pendingIntentSig = None /\ ~awaitingResend(y)
      BY <2>2, <2>5, <3>1 DEF KeepsCeremony, awaitingResend
    <3>4. QED
      BY <1>2, <1>5, <2>0, <2>3, <3>2, <3>3 DEF Good, CeremonySafe, VerdictsSafe, y
  <2>6. QED
    BY <2>4, <2>5
<1>6. QED
  BY <1>4, <1>5

-----------------------------------------------------------------------------
(* The primitives. *)

\* Calls, reports, dropped flights and the other timers keep a model good.
LEMMA PerformGood ==
    ASSUME NEW x, Good(x), NEW a \in Ask
    PROVE  LET y == perform(x, a)
           IN  /\ Good(y) /\ KeepsForm(x, y) /\ KeepsCeremony(x, y)
               /\ y.intent = x.intent /\ y.flights = x.flights /\ y.timers = x.timers
<1> DEFINE y == perform(x, a)
<1>1. /\ Typed(y) /\ KeepsForm(x, y) /\ KeepsCeremony(x, y)
      /\ y.intent = x.intent /\ y.flights = x.flights /\ y.timers = x.timers
  BY PerformFrame DEF Good
<1> HIDE DEF y
<1>2. Good(y)
  BY <1>1, GoodAgrees
<1>3. QED
  BY <1>1, <1>2 DEF y

\* Answering an allocation touches no ceremony, verdict or flight.
LEMMA EndAllocationGood ==
    ASSUME NEW x, Good(x), NEW ref, NEW ok
    PROVE  LET y == endAllocation(x, ref, ok)
           IN  /\ Good(y) /\ KeepsForm(x, y) /\ KeepsCeremony(x, y)
               /\ y.intent = x.intent /\ y.flights = x.flights /\ y.timers = x.timers
               /\ y.asks = x.asks
<1> DEFINE y == endAllocation(x, ref, ok)
<1>1. /\ Typed(y) /\ KeepsForm(x, y) /\ KeepsCeremony(x, y)
      /\ y.intent = x.intent /\ y.flights = x.flights /\ y.timers = x.timers
      /\ y.asks = x.asks
  BY EndAllocationFrame DEF Good
<1> HIDE DEF y
<1>2. Good(y)
  BY <1>1, GoodAgrees
<1>3. QED
  BY <1>1, <1>2 DEF y

\* One quote fewer in the air is never a danger to an order.
LEMMA WithoutFlightGood ==
    ASSUME NEW x, Good(x), NEW id
    PROVE  LET y == withoutFlight(x, id)
           IN  /\ Good(y) /\ KeepsForm(x, y) /\ KeepsCeremony(x, y)
               /\ y.intent = x.intent /\ y.timers = x.timers /\ y.asks = x.asks
<1> DEFINE y == withoutFlight(x, id)
<1>1. /\ Typed(y) /\ KeepsForm(x, y) /\ KeepsCeremony(x, y) /\ y.asks = x.asks
      /\ y.intent = x.intent /\ y.timers = x.timers /\ y.flights \in SUBSET x.flights
  BY WithoutFlightFrame DEF Good, KeepsCalls
<1> HIDE DEF y
<1>2. Good(y)
  BY <1>1, GoodAgrees
<1>3. QED
  BY <1>1, <1>2 DEF y

\* Nor is dropping every quote in the air (supersedeFlights).
LEMMA SupersedeGood ==
    ASSUME NEW x, Good(x)
    PROVE  LET y == supersedeFlights(x)
           IN  /\ Good(y) /\ KeepsForm(x, y) /\ KeepsCeremony(x, y)
               /\ y.intent = x.intent /\ y.timers = x.timers /\ y.flights = {}
<1> DEFINE y == supersedeFlights(x)
<1>1. /\ Typed(y) /\ KeepsForm(x, y) /\ KeepsCeremony(x, y)
      /\ y.intent = x.intent /\ y.timers = x.timers /\ y.flights = {}
  BY SupersedeFrame DEF Good
<1> HIDE DEF y
<1>2. Good(y)
  BY <1>1, GoodAgrees
<1>3. QED
  BY <1>1, <1>2 DEF y

\* Arming a timer that no ceremony owns keeps a model good.
LEMMA SetTimerGood ==
    ASSUME NEW x, Good(x), NEW t \in TimerName \ {"signPrompt", "execute"}, NEW d \in Times
    PROVE  LET y == setTimer(x, t, d)
           IN  /\ Good(y) /\ KeepsForm(x, y) /\ KeepsCeremony(x, y)
               /\ y.intent = x.intent /\ y.flights = x.flights
<1> DEFINE y == setTimer(x, t, d)
<1>1. /\ Typed(y) /\ KeepsForm(x, y) /\ KeepsCeremony(x, y)
      /\ y.intent = x.intent /\ y.flights = x.flights
      /\ y.timers = [x.timers EXCEPT ![t] = d]
  BY SetTimerFrame DEF Good
<1>2. x.timers \in [TimerName -> Times]
  BY DEF Good, Typed, Model
<1> HIDE DEF y
<1>3. /\ y.timers["signPrompt"] = x.timers["signPrompt"]
      /\ y.timers["execute"] = x.timers["execute"]
  BY <1>1, <1>2 DEF TimerName
<1>4. Good(y)
  BY <1>1, <1>3, GoodAgrees
<1>5. QED
  BY <1>1, <1>4 DEF y

\* Disarming such a timer does too.
LEMMA ClearTimerGood ==
    ASSUME NEW x, Good(x), NEW t \in TimerName \ {"signPrompt", "execute"}
    PROVE  LET y == clearTimer(x, t)
           IN  /\ Good(y) /\ KeepsForm(x, y) /\ KeepsCeremony(x, y)
               /\ y.intent = x.intent /\ y.flights = x.flights
<1>1. Never \in Times
  BY DEF Never, Times
<1>2. clearTimer(x, t) = setTimer(x, t, Never)
  BY DEF clearTimer, setTimer
<1>3. QED
  BY <1>1, <1>2, SetTimerGood

\* Away from a busy status there is no ceremony, no signature and no timer of one.
LEMMA AtRest ==
    ASSUME NEW x, Good(x), x.intent.status \notin QUOTE_BUSY_STATES
    PROVE  /\ x.sign.stage = "none" /\ ~x.awaitingPull /\ x.pendingIntentSig = None
           /\ ~armed(x, "signPrompt") /\ ~armed(x, "execute") /\ ~awaitingResend(x)
           /\ ~x.intent.notSent
<1>1. x.sign.stage \in {"none", "intent", "approval", "pull", "execute"}
  BY DEF Good, Typed, Model, SignFlow
<1>2. QED
  BY <1>1 DEF Good, CeremonySafe, VerdictsSafe, QUOTE_BUSY_STATES, awaitingResend

\* A patch at rest that stays at rest.
LEMMA RestPatchGood ==
    ASSUME NEW x, Good(x), x.intent.status \notin QUOTE_BUSY_STATES,
           NEW i \in Intent, i.status \notin QUOTE_BUSY_STATES, ~i.notSent, ~i.mayHaveMoved
    PROVE  LET y == patch(x, i)
           IN  /\ Good(y) /\ KeepsForm(x, y) /\ KeepsCeremony(x, y)
               /\ y.intent = i /\ y.flights = x.flights /\ y.timers = x.timers
<1> DEFINE y == patch(x, i)
<1>1. /\ Typed(y) /\ KeepsForm(x, y) /\ KeepsCeremony(x, y)
      /\ y.intent = i /\ y.flights = x.flights /\ y.timers = x.timers
  BY PatchFrame DEF Good
<1> HIDE DEF y
<1>2. Good(y)
  BY <1>1, AtRest DEF Good, CeremonySafe, VerdictsSafe, FlightsSafe, KeepsCeremony, armed,
     awaitingResend
<1>3. QED
  BY <1>1, <1>2 DEF y

\* A patch that keeps the status and both verdicts.
LEMMA SamePatchGood ==
    ASSUME NEW x, Good(x), NEW i \in Intent, i.status = x.intent.status,
           i.notSent => x.intent.notSent, i.mayHaveMoved = x.intent.mayHaveMoved
    PROVE  LET y == patch(x, i)
           IN  /\ Good(y) /\ KeepsForm(x, y) /\ KeepsCeremony(x, y)
               /\ y.intent = i /\ y.flights = x.flights /\ y.timers = x.timers
               /\ y.asks = x.asks
<1> DEFINE y == patch(x, i)
<1>1. /\ Typed(y) /\ KeepsForm(x, y) /\ KeepsCeremony(x, y) /\ KeepsCalls(x, y)
      /\ y.intent = i /\ y.flights = x.flights /\ y.timers = x.timers
  BY PatchFrame DEF Good
<1> HIDE DEF y
<1>2. Good(y)
  BY <1>1 DEF Good, CeremonySafe, VerdictsSafe, FlightsSafe, KeepsCeremony, armed,
     awaitingResend
<1>3. QED
  BY <1>1, <1>2 DEF y, KeepsCalls

\* The fields a proof reads have their types.
LEMMA FieldTypes ==
    ASSUME NEW x, Good(x)
    PROVE  /\ x.intent \in Intent /\ x.intent.status \in IntentStatus
           /\ x.ctx \in Context /\ x.amount \in AmountField
           /\ x.sign \in SignFlow /\ x.poll \in PollState
           /\ x.timers \in [TimerName -> Times]
           /\ x.intent.quote \in Quote /\ x.intent.intentId \in OrNone(Intents)
           /\ x.pendingIntentSig \in OrNone(Intents)
<1>1. /\ x.intent \in Intent
      /\ x.ctx \in Context /\ x.amount \in AmountField
      /\ x.sign \in SignFlow /\ x.poll \in PollState
      /\ x.timers \in [TimerName -> Times]
      /\ x.pendingIntentSig \in OrNone(Intents)
  BY DEF Good, Typed, Model
<1>2. QED
  BY <1>1 DEF Intent

-----------------------------------------------------------------------------
(* Quoting. *)

\* Adding a flight at rest, with no doubt about an order that ended.
LEMMA PutFlightGood ==
    ASSUME NEW x, Good(x), x.intent.status \notin QUOTE_BUSY_STATES, ~x.intent.mayHaveMoved,
           NEW g \in Flight
    PROVE  LET y == putFlight(x, g) IN Good(y) /\ KeepsForm(x, y) /\ y.intent = x.intent
<1> DEFINE y == putFlight(x, g)
<1>1. /\ Typed(y) /\ KeepsForm(x, y) /\ KeepsCeremony(x, y)
      /\ y.intent = x.intent /\ y.timers = x.timers
  BY PutFlightFrame DEF Good
<1> HIDE DEF y
<1>2. Good(y)
  BY <1>1 DEF Good, CeremonySafe, VerdictsSafe, FlightsSafe, KeepsCeremony, armed,
     awaitingResend
<1>3. QED
  BY <1>1, <1>2 DEF y

\* At rest, a move to another status at rest leaves the model at rest.
LEMMA RestMove ==
    ASSUME NEW x, Good(x), x.intent.status \notin QUOTE_BUSY_STATES, ~x.intent.mayHaveMoved,
           NEW to \in IntentStatus \ QUOTE_BUSY_STATES, NEW u \in Intent, ~u.mayHaveMoved
    PROVE  LET y == transition(x, to, u)
           IN  /\ Good(y) /\ KeepsForm(x, y)
               /\ y.intent.status \notin QUOTE_BUSY_STATES /\ ~y.intent.mayHaveMoved
<1> DEFINE y == transition(x, to, u)
<1>1. Good(y)
  BY TransitionGood
<1>2. movedTo(u, to).status = to /\ movedTo(u, to).mayHaveMoved = u.mayHaveMoved
  BY DEF movedTo, Intent
<1>3. KeepsForm(x, y) /\ (y = x \/ y.intent = movedTo(u, to))
  BY TransitionFrame DEF Good
<1> HIDE DEF y
<1>4. QED
  BY <1>1, <1>2, <1>3 DEF y

\* sendQuote puts a flight up only over a model with no order.
LEMMA SendQuoteGood ==
    ASSUME NEW x, Good(x), x.intent.status \notin QUOTE_BUSY_STATES, ~x.intent.mayHaveMoved,
           NEW g \in Flight
    PROVE  Good(sendQuote(x, g))
<1> DEFINE told == endAllocation(x, g.ref, FALSE)
           dropped == withoutFlight(told, g.id)
           bare == [x.intent EXCEPT !.quote = NoQuote]
           failed == [x.intent EXCEPT !.status = "failed"]
           next == IF g.silent THEN x ELSE transition(x, "quoting", x.intent)
           sent == [g EXCEPT !.stage = "api"]
           ask == [NoAsk EXCEPT !.op = "quote", !.id = g.id]
           put == putFlight(next, sent)
<1>1. Good(told) /\ told.intent = x.intent
  BY EndAllocationGood, Zenon
<1>2. Good(dropped) /\ dropped.intent = x.intent
  <2> HIDE DEF told
  <2>1. QED BY <1>1, WithoutFlightGood
<1> HIDE DEF dropped
<1>3. /\ bare \in Intent /\ bare.mayHaveMoved = x.intent.mayHaveMoved
      /\ failed \in Intent /\ failed.mayHaveMoved = x.intent.mayHaveMoved
      /\ failed.notSent = x.intent.notSent /\ failed.status = "failed"
  BY FieldTypes, NoQuoteType DEF Intent, IntentStatus
<1> HIDE DEF bare, failed
<1>4. "quoting" \in IntentStatus \ QUOTE_BUSY_STATES /\ "failed" \notin QUOTE_BUSY_STATES
  BY DEF IntentStatus, QUOTE_BUSY_STATES
<1>5. Good(transition(dropped, "quoting", bare))
  BY <1>2, <1>3, <1>4, RestMove
<1>6. Good(patch(dropped, failed))
  BY <1>2, <1>3, <1>4, AtRest, RestPatchGood
<1>7. Good(next) /\ next.intent.status \notin QUOTE_BUSY_STATES /\ ~next.intent.mayHaveMoved
  BY <1>4, RestMove, FieldTypes
<1>8. sent \in Flight /\ ask \in Ask
  BY DEF Flight, Ask, NoAsk, OrNone
<1> HIDE DEF next, sent, ask
<1>9. Good(put)
  BY <1>7, <1>8, PutFlightGood
<1> HIDE DEF put
<1>10. Good(perform(put, ask))
  BY <1>8, <1>9, PerformGood
<1>11. \/ sendQuote(x, g) = dropped
       \/ sendQuote(x, g) = transition(dropped, "quoting", bare)
       \/ sendQuote(x, g) = patch(dropped, failed)
       \/ sendQuote(x, g) = perform(put, ask)
  BY DEF sendQuote, dropped, told, bare, failed, put, next, sent, ask
<1>12. QED
  BY <1>2, <1>5, <1>6, <1>10, <1>11

\* What a quote is asked with.
QuoteOpts == [amount : AmountField, silent : BOOLEAN, ref : Nat]

\* startQuote refuses over an order, and clears the way before it sends.
LEMMA StartQuoteGood ==
    ASSUME NEW x, Good(x), x.intent.status \notin QUOTE_BUSY_STATES, NEW o \in QuoteOpts
    PROVE  Good(startQuote(x, o))
<1> DEFINE access == quoteAccessDecision(x.ctx.address # None, x.ctx.trade, o.ref # 0)
           g == [id |-> nextId(x), stage |-> "session", amount |-> o.amount,
                 silent |-> o.silent, ref |-> o.ref, ctx |-> x.ctx,
                 preview |-> access = "preview"]
           ask == [NoAsk EXCEPT !.op = "session", !.id = g.id]
           put == putFlight(x, g)
<1>1. nextId(x) \in Nat
  BY NextIdFresh DEF Good
<1>2. g \in Flight
  <2> HIDE DEF access
  <2>1. QED BY <1>1, FieldTypes DEF QuoteOpts, Flight
<1>3. ask \in Ask
  BY <1>1 DEF Ask, NoAsk, OrNone
<1>4. Good(endAllocation(x, o.ref, FALSE))
  BY EndAllocationGood
<1>5. ~heldUntilReset(x.intent) => ~x.intent.mayHaveMoved
  BY DEF heldUntilReset, Good, VerdictsSafe
<1>6. ~heldUntilReset(x.intent) => Good(sendQuote(x, g))
  <2> HIDE DEF g
  <2>1. QED BY <1>2, <1>5, SendQuoteGood
<1>7. ~heldUntilReset(x.intent) => Good(perform(put, ask))
  <2>1. ~heldUntilReset(x.intent) => Good(put)
    <3> HIDE DEF g
    <3>1. QED BY <1>2, <1>5, PutFlightGood
  <2> HIDE DEF put, ask
  <2>2. QED BY <1>3, <2>1, PerformGood
<1>8. \/ startQuote(x, o) = endAllocation(x, o.ref, FALSE)
      \/ ~heldUntilReset(x.intent) /\ startQuote(x, o) = perform(put, ask)
      \/ ~heldUntilReset(x.intent) /\ startQuote(x, o) = sendQuote(x, g)
  BY DEF startQuote
<1>9. QED
  BY <1>4, <1>6, <1>7, <1>8

\* A flight overtaken by a form edit ends without touching the intent.
LEMMA DropStaleFlightGood ==
    ASSUME NEW x, Good(x), NEW g
    PROVE  Good(dropStaleFlight(x, g))
<1> DEFINE told == endAllocation(x, g.ref, FALSE)
<1>1. Good(told)
  BY EndAllocationGood
<1> HIDE DEF told
<1>2. Good(withoutFlight(told, g.id))
  BY <1>1, WithoutFlightGood
<1>3. QED
  BY <1>2 DEF dropStaleFlight, told

\* A thrown quote fails an intent that is no order (quoteThrew).
LEMMA QuoteFailedGood ==
    ASSUME NEW x, Good(x), x.intent.status \notin QUOTE_BUSY_STATES, ~x.intent.mayHaveMoved,
           NEW g \in Flight
    PROVE  Good(quoteFailed(x, g))
<1> DEFINE next == endAllocation(x, g.ref, FALSE)
           failed == [x.intent EXCEPT !.status = "failed", !.quote = NoQuote]
           quoted == [next.intent EXCEPT !.status = "quoted"]
<1>1. Good(next) /\ next.intent = x.intent
  BY EndAllocationGood, Zenon
<1> HIDE DEF next
<1>2. /\ failed \in Intent /\ ~failed.mayHaveMoved /\ ~failed.notSent
      /\ failed.status \notin QUOTE_BUSY_STATES
  BY FieldTypes, NoQuoteType, AtRest, ZenonT(60) DEF Intent, IntentStatus, QUOTE_BUSY_STATES
<1>3. /\ quoted \in Intent /\ ~quoted.mayHaveMoved /\ ~quoted.notSent
      /\ quoted.status \notin QUOTE_BUSY_STATES
  BY <1>1, FieldTypes, AtRest DEF Intent, IntentStatus, QUOTE_BUSY_STATES
<1> HIDE DEF failed, quoted
<1>4. Good(patch(next, failed)) /\ Good(patch(next, quoted))
  BY <1>1, <1>2, <1>3, RestPatchGood
<1>5. \/ quoteFailed(x, g) = next
      \/ quoteFailed(x, g) = patch(next, failed)
      \/ quoteFailed(x, g) = patch(next, quoted)
  BY DEF quoteFailed, allocationFailed, next, failed, quoted
<1>6. QED
  BY <1>1, <1>4, <1>5

\* A flight in the air means there is no order for its answer to replace.
LEMMA FlightAtRest ==
    ASSUME NEW x, Good(x), NEW g \in x.flights
    PROVE  g \in Flight /\ x.intent.status \notin QUOTE_BUSY_STATES /\ ~x.intent.mayHaveMoved
<1>1. x.flights \in SUBSET Flight
  BY DEF Good, Typed, Model
<1>2. QED
  BY <1>1 DEF Good, FlightsSafe

\* A session answer sends its quote or ends the allocation.
LEMMA OnSessionGood ==
    ASSUME NEW x, Good(x), NEW id, NEW result
    PROVE  Good(onSession(x, id, result))
<1> DEFINE found == {f \in x.flights : f.id = id /\ f.stage = "session"}
           g == CHOOSE f \in found : TRUE
<1>1. CASE found = {}
  BY <1>1 DEF onSession
<1>2. CASE found # {}
  <2>1. g \in x.flights
    BY <1>2
  <2> DEFINE y == onSession(x, id, result)
             w == withoutFlight(x, id)
  <2>2. y = dropStaleFlight(x, g) \/ y = sendQuote(x, g) \/ y = quoteFailed(w, g)
    BY <1>2 DEF onSession
  <2> HIDE DEF g, found, y
  <2>3. g \in Flight /\ x.intent.status \notin QUOTE_BUSY_STATES /\ ~x.intent.mayHaveMoved
    BY <2>1, FlightAtRest
  <2>4. Good(w) /\ w.intent = x.intent
    BY WithoutFlightGood
  <2> HIDE DEF w
  <2>5. Good(dropStaleFlight(x, g)) /\ Good(sendQuote(x, g)) /\ Good(quoteFailed(w, g))
    BY <2>3, <2>4, DropStaleFlightGood, SendQuoteGood, QuoteFailedGood
  <2>6. QED
    BY <2>2, <2>5 DEF y
<1>3. QED
  BY <1>1, <1>2

\* A quote that fails a check ends in failed, with nothing moved.
LEMMA RefuseQuoteGood ==
    ASSUME NEW x, Good(x), x.intent.status \notin QUOTE_BUSY_STATES, ~x.intent.mayHaveMoved,
           NEW g \in Flight, NEW q \in Quote
    PROVE  Good(refuseQuote(x, g, q))
<1> DEFINE next == endAllocation(x, g.ref, FALSE)
           with == [x.intent EXCEPT !.quote = q]
<1>1. Good(next) /\ next.intent = x.intent
  BY EndAllocationGood, Zenon
<1>2. with \in Intent /\ ~with.mayHaveMoved
  BY FieldTypes DEF Intent
<1>3. "failed" \in IntentStatus \ QUOTE_BUSY_STATES
  BY DEF IntentStatus, QUOTE_BUSY_STATES
<1>4. refuseQuote(x, g, q) = next \/ refuseQuote(x, g, q) = transition(next, "failed", with)
  BY DEF refuseQuote
<1> HIDE DEF next, with
<1>5. Good(transition(next, "failed", with))
  BY <1>1, <1>2, <1>3, RestMove
<1>6. QED
  BY <1>1, <1>4, <1>5

\* What a form or a host owns has no part in Good.
LEMMA TradeKeyType ==
    ASSUME NEW c \in Context
    PROVE  tradeKey(c) \in TradeKey
<1>1. /\ c.trade \in Trade /\ c.address \in OrNone(Wallets) /\ c.chainId \in OrNone(Chains)
  BY DEF Context
<1>2. [c.trade EXCEPT !.keys = c.trade.settlement = "stealth" /\ @] \in Trade
  BY <1>1 DEF Trade
<1>3. QED
  BY <1>1, <1>2 DEF tradeKey, TradeKey

\* Remembering the trade a quote was made for touches no order.
LEMMA QuotedTradeGood ==
    ASSUME NEW x, Good(x), NEW k \in TradeKey
    PROVE  LET y == [x EXCEPT !.quotedTrade = k] IN Good(y) /\ y.intent = x.intent
<1> DEFINE y == [x EXCEPT !.quotedTrade = k]
<1>1. /\ Typed(y) /\ KeepsCeremony(x, y) /\ y.intent = x.intent /\ y.flights = x.flights
      /\ y.timers = x.timers
  BY DEF Good, Typed, Model, KeepsCeremony, OrNone
<1> HIDE DEF y
<1>2. Good(y)
  BY <1>1, GoodAgrees
<1>3. QED
  BY <1>1, <1>2 DEF y

Plan == [on : BOOLEAN, amount : AmountField, hasAllocatedDeposit : BOOLEAN]

\* Nor does the refresh plan.
LEMMA RefreshGood ==
    ASSUME NEW x, Good(x), NEW p \in Plan
    PROVE  LET y == [x EXCEPT !.refresh = p]
           IN  Good(y) /\ y.intent = x.intent /\ y.ctx = x.ctx
<1> DEFINE y == [x EXCEPT !.refresh = p]
<1>1. /\ Typed(y) /\ KeepsCeremony(x, y) /\ y.intent = x.intent /\ y.flights = x.flights
      /\ y.timers = x.timers /\ y.ctx = x.ctx
  BY DEF Good, Typed, Model, KeepsCeremony, Plan
<1> HIDE DEF y
<1>2. Good(y)
  BY <1>1, GoodAgrees
<1>3. QED
  BY <1>1, <1>2 DEF y

\* Nor does the list of deposit addresses seen.
LEMMA SeenGood ==
    ASSUME NEW x, Good(x), NEW p \in Addresses \X OrNone(Intents)
    PROVE  LET y == [x EXCEPT !.seenDepositAddresses = @ \cup {p}]
           IN  Good(y) /\ y.intent = x.intent
<1> DEFINE y == [x EXCEPT !.seenDepositAddresses = @ \cup {p}]
<1>1. /\ Typed(y) /\ KeepsCeremony(x, y) /\ y.intent = x.intent /\ y.flights = x.flights
      /\ y.timers = x.timers
  BY DEF Good, Typed, Model, KeepsCeremony
<1> HIDE DEF y
<1>2. Good(y)
  BY <1>1, GoodAgrees
<1>3. QED
  BY <1>1, <1>2 DEF y

\* Accepting a quote moves an intent with no order to quoted.
LEMMA AcceptQuoteGood ==
    ASSUME NEW x, Good(x), x.intent.status \notin QUOTE_BUSY_STATES, ~x.intent.mayHaveMoved,
           NEW g \in Flight, NEW q \in Quote, NEW n \in Nat
    PROVE  Good(acceptQuote(x, g, q, n))
<1> DEFINE holder == IF q.preview THEN None ELSE g.ctx.address
           until == IF q.address # None THEN q.depositDeadline ELSE Never
           accepted == [x.intent EXCEPT
                           !.intentId = q.intent, !.quote = q,
                           !.quotedAddress = holder,
                           !.quotedChainId = g.ctx.chainId,
                           !.quotedFromAmount = g.amount,
                           !.depositDeadline = until]
           still == [accepted EXCEPT !.pollExhausted = FALSE]
           landed == \/ x.intent.status = "quoted"
                     \/ ~g.silent /\ canTransitionTo(x.intent.status, "quoted")
           next == IF g.silent THEN patch(x, accepted)
                   ELSE IF x.intent.status = "quoted" THEN patch(x, still)
                   ELSE transition(x, "quoted", still)
           traded == IF landed THEN [next EXCEPT !.quotedTrade = tradeKey(g.ctx)] ELSE next
           due == q.expiry - QUOTE_REFRESH_BUFFER
           plan == [on |-> TRUE, amount |-> g.amount, hasAllocatedDeposit |-> q.address # None]
           timed == setTimer(traded, "refresh", due)
           planned == IF due > n THEN [timed EXCEPT !.refresh = plan] ELSE traded
<1>1. g.ctx \in Context /\ g.amount \in AmountField /\ g.silent \in BOOLEAN
  BY DEF Flight
<1>2. g.ctx.address \in OrNone(Wallets) /\ g.ctx.chainId \in OrNone(Chains)
  BY <1>1 DEF Context
<1>3. /\ q.intent \in OrNone(Intents) /\ q.expiry \in Int /\ q.depositDeadline \in Int
      /\ q.preview \in BOOLEAN
  BY DEF Quote, Times
<1>4. /\ accepted \in Intent /\ accepted.status = x.intent.status
      /\ accepted.notSent = x.intent.notSent /\ accepted.mayHaveMoved = x.intent.mayHaveMoved
  <2>1. holder \in OrNone(Wallets) /\ until \in Times
    BY <1>2, <1>3 DEF OrNone, Times, Never
  <2>2. g.amount \in OrNone(AmountField)
    BY <1>1 DEF OrNone
  <2> HIDE DEF holder, until
  <2>3. QED
    BY <1>2, <1>3, <2>1, <2>2, FieldTypes DEF Intent
<1> HIDE DEF accepted
<1>5. /\ still \in Intent /\ still.status = accepted.status
      /\ still.notSent = accepted.notSent /\ still.mayHaveMoved = accepted.mayHaveMoved
  BY <1>4 DEF Intent
<1> HIDE DEF still
<1>6. Good(patch(x, accepted)) /\ Good(patch(x, still))
  BY <1>4, <1>5, SamePatchGood
<1>7. Good(transition(x, "quoted", still))
  <2>1. "quoted" \in IntentStatus \ QUOTE_BUSY_STATES
    BY DEF IntentStatus, QUOTE_BUSY_STATES
  <2>2. QED
    BY <1>4, <1>5, <2>1, RestMove
<1>8. Good(next)
  BY <1>6, <1>7
<1> HIDE DEF next
<1>9. Good(traded)
  BY <1>1, <1>8, TradeKeyType, QuotedTradeGood
<1> HIDE DEF traded, landed
<1>10. due \in Times /\ plan \in Plan
  BY <1>1, <1>3, MachineConstants DEF Times, Plan
<1> HIDE DEF due, plan
<1>11. Good(timed)
  <2>1. "refresh" \in TimerName \ {"signPrompt", "execute"}
    BY DEF TimerName
  <2>2. QED
    BY <1>9, <1>10, <2>1, SetTimerGood
<1> HIDE DEF timed
<1>12. Good(planned)
  BY <1>9, <1>10, <1>11, RefreshGood
<1> HIDE DEF planned
<1>13. Good(endAllocation(planned, g.ref, TRUE))
  BY <1>12, EndAllocationGood
<1>14. acceptQuote(x, g, q, n) = x \/ acceptQuote(x, g, q, n) = endAllocation(planned, g.ref, TRUE)
  <2>1. acceptQuote(x, g, q, n) = IF g.silent /\ x.intent.status # "quoted" THEN x
                                  ELSE endAllocation(planned, g.ref, TRUE)
    BY Zenon DEF acceptQuote, planned, timed, due, plan, traded, landed, next, still, accepted,
       holder, until
  <2>2. QED
    BY <2>1
<1>15. QED
  BY <1>13, <1>14

\* A quote answer, of any age, finds its flight and no order, or is dropped.
LEMMA OnQuoteGood ==
    ASSUME NEW x, Good(x), NEW id, NEW reply, reply.quote \in Quote, NEW n \in Nat
    PROVE  Good(onQuote(x, id, reply, n))
<1> DEFINE found == {f \in x.flights : f.id = id /\ f.stage = "api"}
           g == CHOOSE f \in found : TRUE
<1>1. CASE found = {}
  BY <1>1 DEF onQuote
<1>2. CASE found # {}
  <2> DEFINE y == onQuote(x, id, reply, n)
             w == withoutFlight(x, id)
             q == reply.quote
             p == <<q.address, q.intent>>
             seen == [w EXCEPT !.seenDepositAddresses = @ \cup {p}]
             shown == IF reply.success /\ ~q.canSolve THEN q ELSE NoQuote
  <2>1. g \in x.flights
    BY <1>2
  <2>2. \/ y = dropStaleFlight(x, g)
        \/ y = quoteFailed(w, g)
        \/ y = refuseQuote(w, g, shown)
        \/ y = acceptQuote(w, g, q, n)
        \/ y = refuseQuote(w, g, NoQuote)
        \/ q.address # None /\ y = acceptQuote(seen, g, q, n)
    BY <1>2 DEF onQuote
  <2> HIDE DEF g, found, y
  <2>3. g \in Flight /\ x.intent.status \notin QUOTE_BUSY_STATES /\ ~x.intent.mayHaveMoved
    BY <2>1, FlightAtRest
  <2>4. Good(w) /\ w.intent = x.intent
    BY WithoutFlightGood
  <2> HIDE DEF w
  <2>5. shown \in Quote
    BY NoQuoteType
  <2>6. q.address # None => p \in Addresses \X OrNone(Intents)
    BY DEF Quote, OrNone
  <2> HIDE DEF q, p, shown
  <2>7. Good(dropStaleFlight(x, g)) /\ Good(quoteFailed(w, g))
    BY <2>3, <2>4, DropStaleFlightGood, QuoteFailedGood
  <2>8. Good(refuseQuote(w, g, shown)) /\ Good(refuseQuote(w, g, NoQuote))
    BY <2>3, <2>4, <2>5, NoQuoteType, RefuseQuoteGood
  <2>9. q \in Quote
    BY DEF q
  <2>10. Good(acceptQuote(w, g, q, n))
    BY <2>3, <2>4, <2>9, AcceptQuoteGood
  <2>11. q.address # None => Good(acceptQuote(seen, g, q, n))
    <3>1. q.address # None => Good(seen) /\ seen.intent = x.intent
      BY <2>4, <2>6, SeenGood
    <3> HIDE DEF seen
    <3>2. QED
      BY <2>3, <2>9, <3>1, AcceptQuoteGood
  <2>12. QED
    BY <2>2, <2>7, <2>8, <2>10, <2>11 DEF y
<1>3. QED
  BY <1>1, <1>2

-----------------------------------------------------------------------------
(* The ceremony. *)

\* Only a new quote, or nothing, follows an order that may have moved, so any
\* other status move that leaves that verdict alone keeps a model good.
LEMMA MoveGood ==
    ASSUME NEW x, Good(x), NEW to \in IntentStatus \ {"idle", "quoting"}, NEW u \in Intent,
           u.mayHaveMoved = x.intent.mayHaveMoved
    PROVE  Good(transition(x, to, u))
<1>1. ~(canTransitionTo(x.intent.status, to) /\ u.mayHaveMoved)
  BY DEF Good, VerdictsSafe, canTransitionTo, INTENT_STATUS_TRANSITIONS
<1>2. QED
  BY <1>1, TransitionGood

\* An expired quote lapses only from quoted.
LEMMA TickExpiryGood ==
    ASSUME NEW x, Good(x), NEW n
    PROVE  Good(tickExpiry(x, n))
<1>1. "expired" \in IntentStatus \ {"idle", "quoting"}
  BY DEF IntentStatus
<1>2. Good(transition(x, "expired", x.intent))
  BY <1>1, FieldTypes, MoveGood
<1>3. QED
  BY <1>2 DEF tickExpiry

\* No ceremony timer runs but the one a sign flow accounts for.
LEMMA SigningTimers ==
    ASSUME NEW x, Good(x), x.intent.status = "signing"
    PROVE  ~armed(x, "execute") /\ ~x.intent.notSent /\ ~x.intent.mayHaveMoved /\ x.flights = {}
BY DEF Good, CeremonySafe, VerdictsSafe, FlightsSafe, awaitingResend, QUOTE_BUSY_STATES

\* While signing with no prompt open, any sign flow short of a prompt or an
\* execute may take the place of the present one.
LEMMA FlowGood ==
    ASSUME NEW x, Good(x), x.intent.status = "signing", ~armed(x, "signPrompt"),
           NEW f \in SignFlow, f.stage \in {"none", "intent", "approval"},
           f.stage = "intent" => ~x.awaitingPull
    PROVE  LET y == [x EXCEPT !.sign = f] IN Good(y) /\ y.intent = x.intent /\ KeepsForm(x, y)
<1> DEFINE y == [x EXCEPT !.sign = f]
<1>1. /\ Typed(y) /\ KeepsForm(x, y) /\ y.sign = f /\ y.awaitingPull = x.awaitingPull
      /\ y.pendingIntentSig = x.pendingIntentSig
      /\ y.intent = x.intent /\ y.flights = x.flights /\ y.timers = x.timers
  BY SignFrame DEF Good
<1> HIDE DEF y
<1>2. Good(y)
  BY <1>1, SigningTimers
  DEF Good, CeremonySafe, VerdictsSafe, FlightsSafe, armed, awaitingResend
<1>3. QED
  BY <1>1, <1>2 DEF y

\* Opening a prompt arms its timer with its flow.
LEMMA PromptGood ==
    ASSUME NEW x, Good(x), x.intent.status = "signing", NEW a \in Ask,
           NEW f \in SignFlow, f.stage \in {"intent", "pull"},
           f.stage = "intent" => ~x.awaitingPull
    PROVE  Good([openPrompt(x, a) EXCEPT !.sign = f])
<1> DEFINE p == perform(x, a)
           t == setTimer(p, "signPrompt", AtOnce)
           y == [t EXCEPT !.sign = f]
<1>1. Good(p) /\ KeepsCeremony(x, p) /\ p.intent = x.intent /\ p.flights = x.flights
  BY PerformGood
<1> HIDE DEF p
<1>2. /\ Typed(t) /\ KeepsCeremony(p, t) /\ t.intent = p.intent /\ t.flights = p.flights
      /\ t.timers = [p.timers EXCEPT !["signPrompt"] = AtOnce]
  <2>1. "signPrompt" \in TimerName /\ AtOnce \in Times
    BY DEF TimerName, AtOnce, Times
  <2>2. QED
    BY <1>1, <2>1, SetTimerFrame DEF Good
<1> HIDE DEF t
<1>3. t.timers["execute"] = p.timers["execute"]
  BY <1>1, <1>2, FieldTypes DEF TimerName
<1>4. /\ Typed(y) /\ y.sign = f /\ y.awaitingPull = t.awaitingPull
      /\ y.pendingIntentSig = t.pendingIntentSig
      /\ y.intent = t.intent /\ y.flights = t.flights /\ y.timers = t.timers
  BY <1>2, SignFrame
<1> HIDE DEF y
<1>5. Good(y)
  BY <1>1, <1>2, <1>3, <1>4, SigningTimers, SMTT(30)
  DEF Good, CeremonySafe, VerdictsSafe, FlightsSafe, KeepsCeremony, armed, awaitingResend
<1>6. QED
  BY <1>5 DEF openPrompt, y, t, p

\* A flow that ends outside an order leaves nothing behind.
LEMMA EndSignFlowGood ==
    ASSUME NEW x, Good(x), x.intent.status = "signing", ~armed(x, "signPrompt"), NEW f
    PROVE  LET y == endSignFlow(x, f) IN Good(y) /\ y.intent = x.intent
<1> DEFINE y == endSignFlow(x, f)
<1>1. /\ Typed(y) /\ y.sign = NoSign /\ y.awaitingPull = x.awaitingPull
      /\ y.pendingIntentSig = x.pendingIntentSig
      /\ y.intent = x.intent /\ y.flights = x.flights /\ y.timers = x.timers
  BY EndSignFlowFrame DEF Good
<1>2. NoSign.stage = "none" /\ NoSign.resendAt = Never
  BY DEF NoSign
<1> HIDE DEF y
<1>3. Good(y)
  BY <1>1, <1>2, SigningTimers
  DEF Good, CeremonySafe, VerdictsSafe, FlightsSafe, armed, awaitingResend
<1>4. QED
  BY <1>1, <1>3 DEF y

\* Abandoning a ceremony takes its signature and its timers along.
LEMMA AbandonSignGood ==
    ASSUME NEW x, Good(x)
    PROVE  LET y == abandonSign(x) IN Good(y) /\ y.intent = x.intent
<1> DEFINE y == abandonSign(x)
<1>1. /\ Typed(y) /\ y.sign = NoSign /\ ~y.awaitingPull /\ y.pendingIntentSig = None
      /\ y.intent = x.intent /\ y.flights = x.flights
      /\ y.timers["signPrompt"] = IF x.sign.stage # "none" THEN Never
                                  ELSE x.timers["signPrompt"]
      /\ y.timers["execute"] = IF awaitingResend(x) THEN Never ELSE x.timers["execute"]
  BY AbandonSignFrame DEF Good
<1>2. NoSign.stage = "none" /\ NoSign.resendAt = Never
  BY DEF NoSign
<1> HIDE DEF y
<1>3. ~armed(y, "signPrompt") /\ ~armed(y, "execute") /\ ~awaitingResend(y)
  BY <1>1, <1>2 DEF Good, CeremonySafe, armed, awaitingResend
<1>4. Good(y)
  BY <1>1, <1>2, <1>3 DEF Good, CeremonySafe, VerdictsSafe, FlightsSafe
<1>5. QED
  BY <1>1, <1>4 DEF y

\* The prompt's timer may be cleared at any time.
LEMMA ClearPromptGood ==
    ASSUME NEW x, Good(x)
    PROVE  LET y == clearTimer(x, "signPrompt")
           IN  /\ Good(y) /\ ~armed(y, "signPrompt") /\ KeepsForm(x, y) /\ KeepsCeremony(x, y)
               /\ y.intent = x.intent
<1> DEFINE y == clearTimer(x, "signPrompt")
<1>1. /\ Typed(y) /\ KeepsForm(x, y) /\ KeepsCeremony(x, y)
      /\ y.intent = x.intent /\ y.flights = x.flights
      /\ y.timers = [x.timers EXCEPT !["signPrompt"] = Never]
  <2>1. "signPrompt" \in TimerName
    BY DEF TimerName
  <2>2. QED
    BY <2>1, ClearTimerFrame DEF Good
<1> HIDE DEF y
<1>2. ~armed(y, "signPrompt") /\ y.timers["execute"] = x.timers["execute"]
  BY <1>1, FieldTypes DEF TimerName, armed
<1>3. Good(y)
  BY <1>1, <1>2
  DEF Good, CeremonySafe, VerdictsSafe, FlightsSafe, KeepsCeremony, armed, awaitingResend
<1>4. QED
  BY <1>1, <1>2, <1>3 DEF y

\* The wait for the second tap can be given up, and a pull can be under way.
LEMMA PullFlagsGood ==
    ASSUME NEW x, Good(x)
    PROVE  /\ LET y == [x EXCEPT !.awaitingPull = FALSE]
              IN  /\ Good(y) /\ ~y.awaitingPull /\ y.intent = x.intent
                  /\ y.timers = x.timers /\ y.sign = x.sign
           /\ LET y == [x EXCEPT !.isSigningPull = TRUE]
              IN  Good(y) /\ y.intent = x.intent /\ y.timers = x.timers
<1> DEFINE y == [x EXCEPT !.awaitingPull = FALSE]
           z == [x EXCEPT !.isSigningPull = TRUE]
<1>1. /\ Typed(y) /\ ~y.awaitingPull /\ y.intent = x.intent /\ y.timers = x.timers
      /\ y.sign = x.sign /\ y.pendingIntentSig = x.pendingIntentSig /\ y.flights = x.flights
  BY ZenonT(60) DEF Good, Typed, Model
<1>2. /\ Typed(z) /\ z.awaitingPull = x.awaitingPull /\ z.intent = x.intent
      /\ z.timers = x.timers /\ z.sign = x.sign
      /\ z.pendingIntentSig = x.pendingIntentSig /\ z.flights = x.flights
  BY ZenonT(60) DEF Good, Typed, Model
<1> HIDE DEF y, z
<1>3. Good(y)
  BY <1>1 DEF Good, CeremonySafe, VerdictsSafe, FlightsSafe, armed, awaitingResend
<1>4. Good(z)
  BY <1>2 DEF Good, CeremonySafe, VerdictsSafe, FlightsSafe, armed, awaitingResend
<1>5. QED
  BY <1>1, <1>2, <1>3, <1>4 DEF y, z

\* Confirm opens the first prompt, reveals a deposit address, or refuses.
LEMMA BeginSignGood ==
    ASSUME NEW x, Good(x), NEW n
    PROVE  Good(beginSign(x, n))
<1> DEFINE q == x.intent.quote
           y == beginSign(x, n)
           s == transition(x, "signing", x.intent)
           id == nextId(x)
           ask == [NoAsk EXCEPT !.op = "signIntent", !.id = id, !.intentId = q.intent]
           flow == [NoSign EXCEPT !.stage = "intent", !.id = id]
<1>1. /\ "awaiting_deposit" \in IntentStatus \ {"idle", "quoting"}
      /\ "expired" \in IntentStatus \ {"idle", "quoting"}
      /\ "signing" \in IntentStatus \ {"idle", "quoting"}
  BY DEF IntentStatus
<1>2. /\ Good(transition(x, "awaiting_deposit", x.intent))
      /\ Good(transition(x, "expired", x.intent)) /\ Good(s)
  BY <1>1, FieldTypes, MoveGood
<1>3. x.intent.status = "quoted" => s.intent.status = "signing" /\ ~s.awaitingPull
  <2>1. SUFFICES ASSUME x.intent.status = "quoted"
                 PROVE  s.intent.status = "signing" /\ ~s.awaitingPull
    OBVIOUS
  <2>2. canTransitionTo(x.intent.status, "signing") /\ ~leaves(x, "signing")
    BY <2>1 DEF canTransitionTo, INTENT_STATUS_TRANSITIONS, leaves
  <2>3. s.intent = movedTo(x.intent, "signing") /\ KeepsCeremony(x, s)
    BY <1>1, <2>2, FieldTypes, TransitionFrame DEF Good
  <2>4. movedTo(x.intent, "signing").status = "signing"
    BY FieldTypes DEF movedTo, Intent
  <2>5. ~x.awaitingPull
    BY <2>1 DEF Good, CeremonySafe
  <2>6. QED
    BY <2>3, <2>4, <2>5 DEF KeepsCeremony
<1>4. id \in Nat
  BY NextIdFresh DEF Good
<1>5. ask \in Ask /\ flow \in SignFlow /\ flow.stage = "intent"
  <2>1. q.intent \in OrNone(Intents)
    BY FieldTypes DEF Quote
  <2>2. ask \in Ask
    BY <1>4, <2>1 DEF Ask, NoAsk, OrNone
  <2>3. QED
    BY <1>4, <2>2, NoSignType DEF SignFlow, NoSign
<1> HIDE DEF s, ask, flow
<1>6. x.intent.status = "quoted" => Good([openPrompt(s, ask) EXCEPT !.sign = flow])
  BY <1>2, <1>3, <1>5, PromptGood
<1>7. \/ y = x
      \/ y = transition(x, "awaiting_deposit", x.intent)
      \/ y = transition(x, "expired", x.intent)
      \/ /\ x.intent.status = "quoted"
         /\ y = [openPrompt(s, ask) EXCEPT !.sign = flow]
  BY DEF beginSign, canSignQuote, s, ask, flow
<1>8. QED
  BY <1>2, <1>6, <1>7

\* After the first signature the approval or the second prompt opens.
LEMMA CompletePullGood ==
    ASSUME NEW x, Good(x), x.intent.status = "signing", ~armed(x, "signPrompt"),
           NEW f \in SignFlow, f.stage \in {"intent", "approval"},
           f.stage = "intent" => ~x.awaitingPull
    PROVE  Good(completePull(x, f))
<1> DEFINE y == completePull(x, f)
           held == [x EXCEPT !.sign = f]
           ask == [NoAsk EXCEPT !.op = "approval", !.id = f.id]
           p == perform(x, ask)
           g == [f EXCEPT !.stage = "approval"]
<1>1. \/ y = endSignFlow(x, f)
      \/ y = transition(held, "quoted", x.intent)
      \/ y = [p EXCEPT !.sign = g]
  BY DEF completePull
<1> HIDE DEF y
<1>2. Good(endSignFlow(x, f))
  BY EndSignFlowGood
<1>3. Good(held) /\ held.intent = x.intent
  BY FlowGood
<1> HIDE DEF held
<1>4. Good(transition(held, "quoted", x.intent))
  <2>1. "quoted" \in IntentStatus \ {"idle", "quoting"}
    BY DEF IntentStatus
  <2>2. QED
    BY <1>3, <2>1, FieldTypes, MoveGood
<1>5. ask \in Ask /\ g \in SignFlow /\ g.stage = "approval"
  BY DEF Ask, NoAsk, OrNone, SignFlow
<1> HIDE DEF ask, g
<1>6. Good(p) /\ p.intent = x.intent /\ p.timers = x.timers
  BY <1>5, PerformGood
<1> HIDE DEF p
<1>7. Good([p EXCEPT !.sign = g])
  BY <1>5, <1>6, FlowGood DEF armed
<1>8. QED
  BY <1>1, <1>2, <1>4, <1>7 DEF y

\* The second tap is heard only while it is awaited.
LEMMA BeginPullSignGood ==
    ASSUME NEW x, Good(x), NEW n
    PROVE  Good(beginPullSign(x, n))
<1> DEFINE y == beginPullSign(x, n)
           f == [NoSign EXCEPT !.stage = "approval", !.id = nextId(x),
                               !.origin = "pull", !.sig = x.pendingIntentSig]
           w == [x EXCEPT !.awaitingPull = FALSE]
           s == [x EXCEPT !.isSigningPull = TRUE]
<1>1. \/ y = x
      \/ /\ x.pendingIntentSig # None /\ x.sign.stage = "none"
         /\ y = transition(w, "quoted", x.intent) \/ y = completePull(s, f)
  BY DEF beginPullSign
<1>2. f \in SignFlow /\ f.stage = "approval"
  <2>1. nextId(x) \in Nat
    BY NextIdFresh DEF Good
  <2>2. QED
    BY <2>1, FieldTypes, NoSignType DEF SignFlow, NoSign
<1>3. Good(w) /\ w.intent = x.intent /\ Good(s) /\ s.intent = x.intent /\ s.timers = x.timers
  BY PullFlagsGood
<1> HIDE DEF y, f, w, s
<1>4. Good(transition(w, "quoted", x.intent))
  <2>1. "quoted" \in IntentStatus \ {"idle", "quoting"}
    BY DEF IntentStatus
  <2>2. QED
    BY <1>3, <2>1, FieldTypes, MoveGood
<1>5. x.pendingIntentSig # None /\ x.sign.stage = "none" => Good(completePull(s, f))
  <2>1. SUFFICES ASSUME x.pendingIntentSig # None, x.sign.stage = "none"
                 PROVE  Good(completePull(s, f))
    OBVIOUS
  <2>2. x.intent.status = "signing" /\ ~armed(x, "signPrompt")
    BY <2>1 DEF Good, CeremonySafe
  <2>3. QED
    BY <1>2, <1>3, <2>2, CompletePullGood DEF armed
<1>6. QED
  BY <1>1, <1>4, <1>5 DEF y

\* Every sign flow but an execute belongs to the signing status.
LEMMA StageStatus ==
    ASSUME NEW x, Good(x), x.sign.stage \notin {"none", "execute"}
    PROVE  x.intent.status = "signing"
<1>1. x.sign.stage \in {"none", "intent", "approval", "pull", "execute"}
  BY FieldTypes DEF SignFlow
<1>2. QED
  BY <1>1 DEF Good, CeremonySafe

\* A rejected, failed or timed out prompt returns to a quote or fails the intent.
LEMMA SignFlowFailedGood ==
    ASSUME NEW x, Good(x), x.sign.stage # "execute", NEW failure
    PROVE  Good(signFlowFailed(x, failure))
<1> DEFINE y == signFlowFailed(x, failure)
           quiet == clearTimer(x, "signPrompt")
           next == endSignFlow(quiet, x.sign)
           w == [next EXCEPT !.awaitingPull = FALSE]
<1>1. CASE x.sign.stage = "none"
  BY <1>1 DEF signFlowFailed
<1>2. CASE x.sign.stage # "none"
  <2>1. \/ y = transition(next, "failed", x.intent) \/ y = transition(next, "quoted", x.intent)
        \/ y = transition(w, "quoted", x.intent) \/ y = next
    BY <1>2 DEF signFlowFailed
  <2> HIDE DEF y
  <2>2. x.intent.status = "signing"
    BY <1>2, StageStatus
  <2>3. Good(quiet) /\ ~armed(quiet, "signPrompt") /\ quiet.intent = x.intent
    BY ClearPromptGood
  <2> HIDE DEF quiet
  <2>4. Good(next) /\ next.intent = x.intent
    BY <2>2, <2>3, EndSignFlowGood
  <2> HIDE DEF next
  <2>5. Good(w) /\ w.intent = x.intent
    BY <2>4, PullFlagsGood
  <2> HIDE DEF w
  <2>6. {"failed", "quoted"} \in SUBSET (IntentStatus \ {"idle", "quoting"})
    BY DEF IntentStatus
  <2>7. /\ Good(transition(next, "failed", x.intent)) /\ Good(transition(next, "quoted", x.intent))
        /\ Good(transition(w, "quoted", x.intent))
    BY <2>4, <2>5, <2>6, FieldTypes, MoveGood
  <2>8. QED
    BY <2>1, <2>4, <2>7 DEF y
<1>3. QED
  BY <1>1, <1>2

\* An approval answer is heard only by the flow that asked for it.
LEMMA OnApprovalGood ==
    ASSUME NEW x, Good(x), NEW id, NEW result
    PROVE  Good(onApproval(x, id, result))
<1> DEFINE y == onApproval(x, id, result)
           f == x.sign
           ask == [NoAsk EXCEPT !.op = "signPull", !.id = f.id, !.intentId = x.intent.quote.intent]
           g == [f EXCEPT !.stage = "pull"]
<1>1. CASE f.stage # "approval"
  BY <1>1 DEF onApproval
<1>2. CASE f.stage = "approval"
  <2>1. \/ y = x \/ y = signFlowFailed(x, result) \/ y = transition(x, "quoted", x.intent)
        \/ y = endSignFlow(x, f) \/ y = [openPrompt(x, ask) EXCEPT !.sign = g]
    BY <1>2 DEF onApproval
  <2>2. x.intent.status = "signing" /\ ~armed(x, "signPrompt")
    BY <1>2 DEF Good, CeremonySafe
  <2>3. ask \in Ask /\ g \in SignFlow /\ g.stage = "pull"
    <3>1. f \in SignFlow /\ x.intent.quote.intent \in OrNone(Intents)
      BY FieldTypes DEF Quote
    <3> HIDE DEF f
    <3>2. QED
      BY <3>1 DEF Ask, NoAsk, OrNone, SignFlow
  <2> HIDE DEF y, ask, g
  <2>4. Good([openPrompt(x, ask) EXCEPT !.sign = g])
    BY <2>2, <2>3, PromptGood
  <2>5. Good(signFlowFailed(x, result)) /\ Good(endSignFlow(x, f))
    BY <1>2, <2>2, SignFlowFailedGood, EndSignFlowGood
  <2>6. Good(transition(x, "quoted", x.intent))
    <3>1. "quoted" \in IntentStatus \ {"idle", "quoting"}
      BY DEF IntentStatus
    <3>2. QED
      BY <3>1, FieldTypes, MoveGood
  <2>7. QED
    BY <2>1, <2>4, <2>5, <2>6 DEF y
<1>3. QED
  BY <1>1, <1>2

-----------------------------------------------------------------------------
(* Execute. *)

\* Dispatching is the one move from signing to executing that keeps the flow.
LEMMA RunExecuteGood ==
    ASSUME NEW x, Good(x), x.intent.status = "signing", ~armed(x, "signPrompt"),
           ~x.awaitingPull, NEW f \in SignFlow, NEW pullSig \in OrNone(Intents)
    PROVE  Good(runExecute(x, f, pullSig))
<1> DEFINE i == x.intent.intentId
           g == [f EXCEPT !.stage = "execute", !.request = i,
                          !.pullSig = pullSig, !.resends = 0, !.resendAt = Never]
           staged == [x EXCEPT !.sign = g]
           e == transition(staged, "executing", x.intent)
           ask == [NoAsk EXCEPT !.op = "execute", !.id = f.id, !.intentId = x.intent.intentId,
                                !.sig = f.sig, !.pullSig = pullSig]
<1>1. g \in SignFlow /\ g.stage = "execute" /\ g.resendAt = Never
  <2>1. i \in OrNone(Intents) /\ Never \in Times
    BY FieldTypes DEF Never, Times
  <2> HIDE DEF i
  <2>2. QED
    BY <2>1 DEF SignFlow
<1>2. ask \in Ask
  BY FieldTypes DEF Ask, NoAsk, OrNone, SignFlow
<1> HIDE DEF g, ask
<1>3. /\ Typed(staged) /\ staged.sign = g /\ staged.awaitingPull = x.awaitingPull
      /\ staged.pendingIntentSig = x.pendingIntentSig
      /\ staged.intent = x.intent /\ staged.flights = x.flights /\ staged.timers = x.timers
  BY <1>1, SignFrame DEF Good
<1> HIDE DEF staged
<1>4. /\ canTransitionTo(staged.intent.status, "executing") /\ ~leaves(staged, "executing")
      /\ "executing" \in IntentStatus
  BY <1>1, <1>3 DEF canTransitionTo, INTENT_STATUS_TRANSITIONS, leaves, IntentStatus
<1>5. Typed(e) /\ e.intent = movedTo(x.intent, "executing")
  BY <1>3, <1>4, FieldTypes, TransitionFrame
<1>6. KeepsCeremony(staged, e) /\ e.timers = staged.timers
  BY <1>3, <1>4, FieldTypes, TransitionFrame
<1>7. e.flights = {}
  <2>1. e.flights = IF "executing" \in QUOTE_BUSY_STATES
                       /\ staged.intent.status \notin QUOTE_BUSY_STATES
                    THEN {} ELSE staged.flights
    BY <1>3, <1>4, FieldTypes, TransitionFrame
  <2>2. QED
    BY <1>3, <2>1, SigningTimers
<1>8. LET moved == movedTo(x.intent, "executing")
      IN  moved.status = "executing" /\ ~moved.notSent /\ ~moved.mayHaveMoved
  BY FieldTypes, SigningTimers DEF movedTo, Intent
<1> HIDE DEF e
<1>9. Good(e)
  <2>1. e.sign.stage = "execute" /\ ~awaitingResend(e) /\ ~e.awaitingPull
    BY <1>1, <1>3, <1>6 DEF KeepsCeremony, awaitingResend
  <2>2. ~armed(e, "signPrompt") /\ ~armed(e, "execute")
    BY <1>3, <1>6, SigningTimers DEF armed
  <2>3. e.intent.status = "executing" /\ ~e.intent.notSent /\ ~e.intent.mayHaveMoved
    BY <1>5, <1>8
  <2>4. QED
    BY <1>5, <1>7, <2>1, <2>2, <2>3 DEF Good, CeremonySafe, VerdictsSafe, FlightsSafe
<1>10. Good(perform(e, ask))
  BY <1>2, <1>9, PerformGood
<1>11. runExecute(x, f, pullSig) = perform(e, ask)
  BY DEF runExecute, e, ask, staged, g
<1>12. QED
  BY <1>10, <1>11

\* So is a signature: a late one finds no flow, or another stage of it.
LEMMA OnSignedGood ==
    ASSUME NEW x, Good(x), NEW id, NEW purpose \in {"intent", "pull"}, NEW result,
           NEW signed \in OrNone(Intents)
    PROVE  Good(onSigned(x, id, purpose, result, signed))
<1> DEFINE y == onSigned(x, id, purpose, result, signed)
           quiet == clearTimer(x, "signPrompt")
           sf == [x.sign EXCEPT !.sig = signed]
           next == [quiet EXCEPT !.pendingIntentSig = signed]
           tapped == [quiet EXCEPT !.awaitingPull = FALSE]
           waiting == [next EXCEPT !.awaitingPull = TRUE, !.sign = NoSign]
<1>1. CASE x.sign.stage # purpose
  BY <1>1 DEF onSigned
<1>2. CASE x.sign.stage = purpose
  <2>1. \/ y = x \/ y = abandonSign(x)
        \/ y = signFlowFailed(quiet, result)
        \/ y = runExecute(tapped, x.sign, signed)
        \/ purpose = "intent" /\ y = runExecute(next, sf, None)
        \/ purpose = "intent" /\ y = waiting
        \/ purpose = "intent" /\ y = completePull(next, sf)
    BY <1>2 DEF onSigned
  <2>2. x.intent.status = "signing"
    BY <1>2, StageStatus
  <2>3. /\ Good(quiet) /\ ~armed(quiet, "signPrompt") /\ quiet.intent = x.intent
        /\ KeepsCeremony(x, quiet)
    BY ClearPromptGood
  <2> HIDE DEF y, quiet
  <2>4. Good(signFlowFailed(quiet, result)) /\ Good(abandonSign(x))
    BY <1>2, <2>3, SignFlowFailedGood, AbandonSignGood DEF KeepsCeremony
  <2>5. Good(runExecute(tapped, x.sign, signed))
    <3>1. /\ Good(tapped) /\ ~tapped.awaitingPull /\ tapped.intent = quiet.intent
          /\ tapped.timers = quiet.timers
      BY <2>3, PullFlagsGood
    <3> HIDE DEF tapped
    <3>2. QED
      BY <2>2, <2>3, <3>1, FieldTypes, RunExecuteGood DEF armed
  <2>6. /\ Typed(next) /\ next.pendingIntentSig = signed /\ next.intent = x.intent
        /\ next.sign = x.sign /\ next.awaitingPull = x.awaitingPull
        /\ next.timers = quiet.timers /\ next.flights = quiet.flights
    BY <2>3 DEF Good, Typed, Model, KeepsCeremony
  <2>7. Good(next) /\ ~armed(next, "signPrompt")
    <3> HIDE DEF next
    <3>1. QED
      BY <2>2, <2>3, <2>6
      DEF Good, CeremonySafe, VerdictsSafe, FlightsSafe, KeepsCeremony, armed, awaitingResend
  <2> HIDE DEF next
  <2>8. purpose = "intent" => ~next.awaitingPull
    BY <1>2, <2>6 DEF Good, CeremonySafe
  <2>9. sf \in SignFlow /\ sf.stage = purpose
    BY <1>2, FieldTypes DEF SignFlow
  <2> HIDE DEF sf
  <2>10. None \in OrNone(Intents)
    BY DEF OrNone
  <2>11. purpose = "intent" => Good(runExecute(next, sf, None)) /\ Good(completePull(next, sf))
    BY <2>2, <2>6, <2>7, <2>8, <2>9, <2>10, RunExecuteGood, CompletePullGood
  <2>12. Good(waiting)
    <3>1. /\ Typed(waiting) /\ waiting.sign = NoSign /\ waiting.awaitingPull
          /\ waiting.pendingIntentSig = next.pendingIntentSig /\ waiting.intent = next.intent
          /\ waiting.timers = next.timers /\ waiting.flights = next.flights
      BY <2>7, NoSignType, ZenonT(60) DEF Good, Typed, Model
    <3>2. NoSign.stage = "none" /\ NoSign.resendAt = Never
      BY DEF NoSign
    <3>3. ~armed(next, "execute") /\ ~next.intent.notSent
      BY <2>2, <2>6, <2>7, SigningTimers
    <3> HIDE DEF waiting
    <3>4. QED
      BY <2>2, <2>6, <2>7, <3>1, <3>2, <3>3
      DEF Good, CeremonySafe, VerdictsSafe, FlightsSafe, armed, awaitingResend
  <2>13. QED
    BY <2>1, <2>4, <2>5, <2>11, <2>12 DEF y
<1>3. QED
  BY <1>1, <1>2

\* The state an execute is resent from: its timer has fired or been cleared.
ReadyToSend(x) ==
    /\ Typed(x) /\ VerdictsSafe(x)
    /\ x.intent.status = "executing" /\ x.sign.stage = "execute" /\ x.flights = {}
    /\ x.pendingIntentSig = None /\ ~x.awaitingPull
    /\ ~armed(x, "signPrompt") /\ ~armed(x, "execute")

\* Giving up the resends ends the flow: "not sent yet" with no request out.
LEMMA StopResendingGood ==
    ASSUME NEW x, ReadyToSend(x), NEW f
    PROVE  Good(stopResending(x, f))
<1> DEFINE e == endSignFlow(x, f)
           i == [x.intent EXCEPT !.notSent = TRUE]
           y == patch(e, i)
<1>1. /\ Typed(e) /\ e.sign = NoSign /\ e.awaitingPull = x.awaitingPull
      /\ e.pendingIntentSig = x.pendingIntentSig
      /\ e.intent = x.intent /\ e.flights = x.flights /\ e.timers = x.timers
  BY EndSignFlowFrame DEF ReadyToSend
<1>2. i \in Intent /\ i.status = "executing" /\ i.mayHaveMoved = x.intent.mayHaveMoved
  <2>1. x.intent \in Intent /\ x.intent.status = "executing"
    BY DEF ReadyToSend, Typed, Model
  <2>2. QED
    BY <2>1 DEF Intent
<1>3. NoSign.stage = "none" /\ NoSign.resendAt = Never
  BY DEF NoSign
<1> HIDE DEF e, i
<1>4. /\ Typed(y) /\ KeepsCeremony(e, y) /\ y.intent = i /\ y.flights = e.flights
      /\ y.timers = e.timers
  BY <1>1, <1>2, PatchFrame
<1> HIDE DEF y
<1>5. Good(y)
  BY <1>1, <1>2, <1>3, <1>4
  DEF ReadyToSend, Good, CeremonySafe, VerdictsSafe, FlightsSafe, KeepsCeremony, armed,
      awaitingResend
<1>6. QED
  BY <1>5 DEF stopResending, y, e, i

\* A bound of two numbers is one of them and no less than either.
LEMMA MaxOfTwo ==
    ASSUME NEW a \in Int, NEW b \in Int
    PROVE  Max({a, b}) \in {a, b} /\ Max({a, b}) >= a /\ Max({a, b}) >= b
<1>1. \E v \in {a, b} : \A w \in {a, b} : v >= w
  BY DEF Max
<1>2. QED
  BY <1>1 DEF Max

\* The delay before a resend ends at a time, never at the code's null.
LEMMA ResendDelay ==
    ASSUME NEW k, NEW r \in Int, NEW d, NEW n \in Nat
    PROVE  LET delay == decideExecuteResend(k, r, d, n)
           IN  delay # Never => n + delay \in Nat
<1> DEFINE soon == n + MIN_RESEND_DELAY
           sendAt == Max({r, soon})
           delay == decideExecuteResend(k, r, d, n)
<1>1. soon \in Nat
  BY DecisionConstants
<1>2. sendAt \in Int /\ sendAt >= soon
  <2> HIDE DEF soon
  <2>1. sendAt \in {r, soon} /\ sendAt >= soon
    BY <1>1, MaxOfTwo
  <2>2. QED
    BY <1>1, <2>1
<1>3. delay = Never \/ delay = sendAt - n
  BY DEF decideExecuteResend
<1> HIDE DEF soon, sendAt, delay
<1>4. QED
  BY <1>1, <1>2, <1>3 DEF delay

\* A refusal before acceptance waits for a resend or gives up.
LEMMA OnNotAcceptedGood ==
    ASSUME NEW x, Good(x), x.sign.stage = "execute", ~awaitingResend(x),
           NEW r \in Int, NEW n \in Nat
    PROVE  Good(onNotAccepted(x, x.sign, r, n))
<1> DEFINE quiet == [x EXCEPT !.pendingIntentSig = None]
           delay == decideExecuteResend(x.sign.resends, r, executeDeadline(x.intent.quote), n)
           d == n + delay
           t == setTimer(quiet, "execute", d)
           g == [x.sign EXCEPT !.resendAt = d]
           y == [t EXCEPT !.sign = g]
<1>1. /\ Typed(quiet) /\ quiet.intent = x.intent /\ quiet.flights = x.flights
      /\ quiet.timers = x.timers /\ quiet.sign = x.sign
      /\ quiet.awaitingPull = x.awaitingPull /\ quiet.pendingIntentSig = None
  BY DEF Good, Typed, Model, OrNone
<1> HIDE DEF quiet
<1>2. ReadyToSend(quiet)
  BY <1>1 DEF ReadyToSend, Good, CeremonySafe, VerdictsSafe, FlightsSafe, armed,
     QUOTE_BUSY_STATES
<1>3. CASE delay = Never
  BY <1>2, <1>3, StopResendingGood DEF onNotAccepted, quiet
<1>4. CASE delay # Never
  <2>1. d \in Nat
    BY <1>4, ResendDelay
  <2> HIDE DEF delay, d
  <2>2. /\ g \in SignFlow /\ g.stage = "execute" /\ g.resendAt = d
    BY <2>1, FieldTypes DEF SignFlow, Times
  <2> HIDE DEF g
  <2>3. /\ Typed(t) /\ KeepsCeremony(quiet, t) /\ t.intent = quiet.intent
        /\ t.flights = quiet.flights /\ t.timers = [quiet.timers EXCEPT !["execute"] = d]
    <3>1. "execute" \in TimerName /\ d \in Times
      BY <2>1 DEF TimerName, Times
    <3>2. QED
      BY <1>1, <3>1, SetTimerFrame
  <2> HIDE DEF t
  <2>4. /\ t.timers["signPrompt"] = x.timers["signPrompt"] /\ t.timers["execute"] = d
    BY <1>1, <2>3, FieldTypes DEF TimerName
  <2>5. /\ Typed(y) /\ y.sign = g /\ y.awaitingPull = t.awaitingPull
        /\ y.pendingIntentSig = t.pendingIntentSig
        /\ y.intent = t.intent /\ y.flights = t.flights /\ y.timers = t.timers
    BY <2>2, <2>3, SignFrame
  <2> HIDE DEF y
  <2>6. /\ armed(y, "execute") /\ awaitingResend(y) /\ ~armed(y, "signPrompt")
    BY <1>1, <1>2, <2>1, <2>2, <2>4, <2>5 DEF ReadyToSend, armed, awaitingResend, Never
  <2>7. /\ ~y.awaitingPull /\ y.pendingIntentSig = None /\ y.sign.stage = "execute"
        /\ y.intent = x.intent /\ y.intent.status = "executing" /\ y.flights = {}
    BY <1>1, <1>2, <2>2, <2>3, <2>5 DEF ReadyToSend, KeepsCeremony
  <2>8. ~y.intent.notSent /\ ~y.intent.mayHaveMoved
    BY <2>7 DEF Good, VerdictsSafe
  <2>9. Good(y)
    BY <2>5, <2>6, <2>7, <2>8 DEF Good, CeremonySafe, VerdictsSafe, FlightsSafe
  <2>10. onNotAccepted(x, x.sign, r, n) = y
    BY <1>4 DEF onNotAccepted, y, t, g, d, delay, quiet
  <2>11. QED
    BY <2>9, <2>10
<1>5. QED
  BY <1>3, <1>4

\* A resend sends the flow's own request again, or gives up at its deadline.
LEMMA ResendExecuteGood ==
    ASSUME NEW x, ReadyToSend(x), awaitingResend(x), NEW n
    PROVE  Good(resendExecute(x, n))
<1> DEFINE y == resendExecute(x, n)
           f == x.sign
           id == nextId(x)
           ask == [NoAsk EXCEPT !.op = "execute", !.id = id, !.intentId = f.request,
                                !.sig = f.sig, !.pullSig = f.pullSig]
           k == f.resends + 1
           g == [f EXCEPT !.id = id, !.resends = k, !.resendAt = Never]
           p == perform(x, ask)
           z == [p EXCEPT !.sign = g]
<1>1. y = stopResending(x, f) \/ y = z
  BY DEF resendExecute, ReadyToSend
<1>2. Good(stopResending(x, f))
  BY StopResendingGood
<1>3. id \in Nat /\ f \in SignFlow /\ f.stage = "execute" /\ Typed(x)
  BY NextIdFresh DEF ReadyToSend, Typed, Model
<1> HIDE DEF y, id, f
<1>4. ask \in Ask
  BY <1>3 DEF Ask, NoAsk, OrNone, SignFlow
<1>5. g \in SignFlow /\ g.stage = "execute" /\ g.resendAt = Never
  <2>1. k \in Nat /\ Never \in Times
    BY <1>3 DEF SignFlow, Times, Never
  <2> HIDE DEF k
  <2>2. QED
    BY <1>3, <2>1 DEF SignFlow
<1> HIDE DEF ask, g
<1>6. /\ Typed(p) /\ KeepsCeremony(x, p)
      /\ p.intent = x.intent /\ p.flights = x.flights /\ p.timers = x.timers
  BY <1>3, <1>4, PerformFrame
<1> HIDE DEF p
<1>7. /\ Typed(z) /\ z.sign = g /\ z.awaitingPull = p.awaitingPull
      /\ z.pendingIntentSig = p.pendingIntentSig
      /\ z.intent = p.intent /\ z.flights = p.flights /\ z.timers = p.timers
  BY <1>5, <1>6, SignFrame
<1> HIDE DEF z
<1>8. Good(z)
  <2>1. /\ ~z.awaitingPull /\ z.pendingIntentSig = None /\ z.flights = {}
        /\ z.intent = x.intent /\ z.timers = x.timers
    BY <1>6, <1>7 DEF ReadyToSend, KeepsCeremony
  <2>2. ~x.intent.notSent /\ ~x.intent.mayHaveMoved /\ x.intent.status = "executing"
    BY DEF ReadyToSend, VerdictsSafe
  <2>3. ~awaitingResend(z) /\ ~armed(z, "execute") /\ ~armed(z, "signPrompt")
    BY <1>5, <1>7, <2>1 DEF ReadyToSend, awaitingResend, armed
  <2>4. QED
    BY <1>5, <1>7, <2>1, <2>2, <2>3 DEF Good, CeremonySafe, VerdictsSafe, FlightsSafe
<1>9. QED
  BY <1>1, <1>2, <1>8 DEF y

\* A waiting resend whose timer is disarmed is ready to go.
LEMMA DisarmedReady ==
    ASSUME NEW x, Good(x), awaitingResend(x)
    PROVE  LET y == clearTimer(x, "execute") IN ReadyToSend(y) /\ awaitingResend(y)
<1> DEFINE y == clearTimer(x, "execute")
<1>1. /\ Typed(y) /\ KeepsCeremony(x, y) /\ y.intent = x.intent /\ y.flights = x.flights
      /\ y.timers = [x.timers EXCEPT !["execute"] = Never]
  <2>1. "execute" \in TimerName
    BY DEF TimerName
  <2>2. QED
    BY <2>1, ClearTimerFrame DEF Good
<1> HIDE DEF y
<1>2. y.timers["execute"] = Never /\ y.timers["signPrompt"] = x.timers["signPrompt"]
  BY <1>1, FieldTypes DEF TimerName
<1>3. /\ x.intent.status = "executing" /\ x.sign.stage = "execute" /\ x.flights = {}
      /\ ~x.awaitingPull /\ x.pendingIntentSig = None /\ ~armed(x, "signPrompt")
  BY DEF Good, CeremonySafe, FlightsSafe, awaitingResend, QUOTE_BUSY_STATES
<1>4. ReadyToSend(y)
  BY <1>1, <1>2, <1>3 DEF ReadyToSend, Good, VerdictsSafe, KeepsCeremony, armed
<1>5. awaitingResend(y)
  BY <1>1 DEF KeepsCeremony, awaitingResend
<1>6. QED
  BY <1>4, <1>5 DEF y

\* The poll tick resends only what its own timer missed.
LEMMA ResendBackstopGood ==
    ASSUME NEW x, Good(x), awaitingResend(x), NEW n
    PROVE  Good(resendBackstop(x, n))
<1> DEFINE y == clearTimer(x, "execute")
<1>1. ReadyToSend(y) /\ awaitingResend(y)
  BY DisarmedReady
<1>2. resendBackstop(x, n) = x \/ resendBackstop(x, n) = resendExecute(y, n)
  BY DEF resendBackstop
<1> HIDE DEF y
<1>3. QED
  BY <1>1, <1>2, ResendExecuteGood

\* What the handlers rely on of an execute's answer.
ExecuteReply(r) ==
    /\ r.kind = "notAccepted" => r.retryAfter \in Int
    /\ r.kind = "response" =>
          /\ r.status \in IntentStatus \ {"idle", "quoting"}
          /\ r.success \in BOOLEAN /\ r.reconciling \in BOOLEAN
          /\ r.marker \in BOOLEAN /\ r.unmapped \in BOOLEAN

\* Reading an execute's answer gives a typed decision, in doubt at worst.
LEMMA ExecuteResultType ==
    ASSUME NEW r, ExecuteReply(r), r.kind = "response"
    PROVE  LET d == decideExecuteResult(r)
           IN  /\ d.status \in IntentStatus \ {"idle", "quoting"}
               /\ d.reconciling \in BOOLEAN /\ d.mayHaveMoved \in BOOLEAN
<1>1. /\ r.status \in IntentStatus \ {"idle", "quoting"}
      /\ r.success \in BOOLEAN /\ r.reconciling \in BOOLEAN /\ r.marker \in BOOLEAN
  BY DEF ExecuteReply
<1>2. failureMayHaveMoved(r.marker) \in BOOLEAN
  BY <1>1 DEF failureMayHaveMoved
<1>3. {"failed", "completed", "executing"} \in SUBSET (IntentStatus \ {"idle", "quoting"})
  BY DEF IntentStatus
<1>4. CASE r.status = "failed" /\ ~r.success /\ ~r.reconciling
  BY <1>2, <1>3, <1>4 DEF decideExecuteResult
<1>5. CASE r.status = "failed" /\ ~(~r.success /\ ~r.reconciling)
  BY <1>1, <1>3, <1>5 DEF decideExecuteResult
<1>6. CASE r.status = "completed"
  BY <1>3, <1>6 DEF decideExecuteResult
<1>7. CASE r.status \notin {"failed", "completed"}
  BY <1>1, <1>7 DEF decideExecuteResult
<1>8. QED
  BY <1>4, <1>5, <1>6, <1>7

\* Every answer to an execute, late or unreadable, leaves a good model.
LEMMA OnExecutedGood ==
    ASSUME NEW x, Good(x), NEW id, NEW r, ExecuteReply(r), NEW n \in Nat
    PROVE  Good(onExecuted(x, id, r, n))
<1> DEFINE y == onExecuted(x, id, r, n)
           f == x.sign
           bare == [x EXCEPT !.pendingIntentSig = None]
           next == endSignFlow(bare, f)
           doubtful == [x.intent EXCEPT !.reconciling = TRUE]
           unsent == [x.intent EXCEPT !.notSent = TRUE]
           d == decideExecuteResult(r)
           ended == [x.intent EXCEPT !.mayHaveMoved = d.mayHaveMoved]
           inDoubt == d.reconciling \/ r.unmapped
           moved == [x.intent EXCEPT !.reconciling = inDoubt]
<1>1. CASE f.stage # "execute" \/ awaitingResend(x)
  BY <1>1 DEF onExecuted
<1>2. CASE f.stage = "execute" /\ ~awaitingResend(x)
  <2>1. \/ y = x
        \/ r.kind = "notAccepted" /\ y = onNotAccepted(x, f, r.retryAfter, n)
        \/ y = patch(next, doubtful)
        \/ y = patch(next, unsent)
        \/ r.kind = "response" /\ y = transition(next, "failed", ended)
        \/ r.kind = "response" /\ y = transition(next, d.status, moved)
    BY <1>2 DEF onExecuted
  <2> HIDE DEF y
  <2>2. r.kind = "notAccepted" => Good(onNotAccepted(x, f, r.retryAfter, n))
    BY <1>2, OnNotAcceptedGood DEF ExecuteReply
  <2>3. /\ x.intent.status = "executing" /\ ~x.awaitingPull /\ x.flights = {}
        /\ ~x.intent.notSent /\ ~x.intent.mayHaveMoved
        /\ ~armed(x, "signPrompt") /\ ~armed(x, "execute")
    BY <1>2 DEF Good, CeremonySafe, VerdictsSafe, FlightsSafe, QUOTE_BUSY_STATES
  <2>4. /\ Typed(bare) /\ bare.intent = x.intent /\ bare.flights = x.flights
        /\ bare.timers = x.timers /\ bare.awaitingPull = x.awaitingPull
        /\ bare.pendingIntentSig = None
    BY DEF Good, Typed, Model, OrNone
  <2> HIDE DEF bare, f
  <2>5. /\ Typed(next) /\ next.sign = NoSign /\ ~next.awaitingPull
        /\ next.pendingIntentSig = None
        /\ next.intent = x.intent /\ next.flights = {} /\ next.timers = x.timers
    BY <2>3, <2>4, EndSignFlowFrame
  <2>6. NoSign.stage = "none" /\ NoSign.resendAt = Never
    BY DEF NoSign
  <2> HIDE DEF next
  <2>7. Good(next)
    BY <2>3, <2>5, <2>6
    DEF Good, CeremonySafe, VerdictsSafe, FlightsSafe, armed, awaitingResend
  <2>8. /\ doubtful \in Intent /\ doubtful.status = x.intent.status
        /\ doubtful.notSent = x.intent.notSent /\ doubtful.mayHaveMoved = x.intent.mayHaveMoved
    BY FieldTypes DEF Intent
  <2>9. /\ unsent \in Intent /\ unsent.status = "executing" /\ ~unsent.mayHaveMoved
    BY <2>3, FieldTypes DEF Intent
  <2> HIDE DEF doubtful, unsent
  <2>10. Good(patch(next, doubtful))
    BY <2>5, <2>7, <2>8, SamePatchGood
  <2>11. Good(patch(next, unsent))
    <3> DEFINE z == patch(next, unsent)
    <3>1. /\ Typed(z) /\ KeepsCeremony(next, z)
          /\ z.intent = unsent /\ z.flights = next.flights /\ z.timers = next.timers
      BY <2>5, <2>9, PatchFrame
    <3> HIDE DEF z
    <3>2. Good(z)
      BY <2>3, <2>5, <2>6, <2>9, <3>1
      DEF Good, CeremonySafe, VerdictsSafe, FlightsSafe, KeepsCeremony, armed, awaitingResend
    <3>3. QED
      BY <3>2 DEF z
  <2>12. r.kind = "response" => Good(transition(next, "failed", ended))
    <3>1. SUFFICES ASSUME r.kind = "response" PROVE Good(transition(next, "failed", ended))
      OBVIOUS
    <3>2. ended \in Intent /\ "failed" \in IntentStatus
      <4>1. d.mayHaveMoved \in BOOLEAN
        BY <3>1, ExecuteResultType
      <4> HIDE DEF d
      <4>2. QED
        BY <4>1, FieldTypes DEF Intent, IntentStatus
    <3> HIDE DEF ended
    <3>3. QED
      BY <2>5, <2>7, <3>2, TransitionGood
  <2>13. r.kind = "response" => Good(transition(next, d.status, moved))
    <3>1. SUFFICES ASSUME r.kind = "response" PROVE Good(transition(next, d.status, moved))
      OBVIOUS
    <3>2. d.status \in IntentStatus \ {"idle", "quoting"} /\ d.reconciling \in BOOLEAN
      BY <3>1, ExecuteResultType
    <3> HIDE DEF d
    <3>3. inDoubt \in BOOLEAN
      BY <3>1, <3>2 DEF ExecuteReply
    <3> HIDE DEF inDoubt
    <3>4. moved \in Intent /\ moved.mayHaveMoved = x.intent.mayHaveMoved
      BY <3>3, FieldTypes DEF Intent
    <3> HIDE DEF moved
    <3>5. QED
      BY <2>5, <2>7, <3>2, <3>4, MoveGood
  <2>14. QED
    BY <2>1, <2>2, <2>10, <2>11, <2>12, <2>13 DEF y
<1>3. QED
  BY <1>1, <1>2

-----------------------------------------------------------------------------
(* Status. *)

\* What the handlers rely on of a status update.
StatusUpdate(u) ==
    /\ u.status \in IntentStatus \ {"idle", "quoting"}
    /\ u.marker \in BOOLEAN /\ u.unmapped \in BOOLEAN

\* A verdict update says "may have moved" only of an order that was in flight.
LEMMA MapStatusUpdateType ==
    ASSUME NEW i \in Intent, NEW u, StatusUpdate(u)
    PROVE  LET v == mapStatusUpdate(i, u)
           IN  /\ v \in Intent
               /\ v.mayHaveMoved =>
                     \/ i.mayHaveMoved
                     \/ u.status = "failed" /\ i.status \in POLL_INFLIGHT_STATES
<1> DEFINE w == IF u.status = "failed" /\ i.status \in POLL_INFLIGHT_STATES
                THEN failureMayHaveMoved(u.marker) ELSE i.mayHaveMoved
           v == [i EXCEPT !.reconciling = FALSE, !.mayHaveMoved = w]
<1>1. w \in BOOLEAN
  BY DEF failureMayHaveMoved, StatusUpdate, Intent
<1>2. w => \/ i.mayHaveMoved
           \/ u.status = "failed" /\ i.status \in POLL_INFLIGHT_STATES
  OBVIOUS
<1>3. mapStatusUpdate(i, u) = v
  BY DEF mapStatusUpdate, Intent
<1> HIDE DEF w
<1>4. v \in Intent /\ v.mayHaveMoved = w
  BY <1>1 DEF Intent
<1> HIDE DEF v
<1>5. QED
  BY <1>2, <1>3, <1>4

\* A status from a read or a frame moves the intent along the table.
LEMMA ApplyStatusUpdateGood ==
    ASSUME NEW x, Good(x), NEW u, StatusUpdate(u)
    PROVE  Good(applyStatusUpdate(x, u))
<1> DEFINE v == mapStatusUpdate(x.intent, u)
           next == IF u.status = x.intent.status THEN x ELSE transition(x, u.status, v)
           inDoubt == [next.intent EXCEPT !.reconciling = TRUE]
           doubted == IF u.unmapped /\ next.intent.status \in POLL_INFLIGHT_STATES
                      THEN patch(next, inDoubt) ELSE next
           cleared == [doubted.intent EXCEPT !.notSent = FALSE, !.reconciling = TRUE]
<1>1. Good(transition(x, u.status, v))
  <2>1. /\ v \in Intent
        /\ v.mayHaveMoved => \/ x.intent.mayHaveMoved
                             \/ u.status = "failed" /\ x.intent.status \in POLL_INFLIGHT_STATES
    BY FieldTypes, MapStatusUpdateType
  <2> HIDE DEF v
  <2>2. x.intent.status \in POLL_INFLIGHT_STATES => x.flights = {}
    BY DEF Good, FlightsSafe, POLL_INFLIGHT_STATES, QUOTE_BUSY_STATES
  <2>3. ~(canTransitionTo(x.intent.status, u.status) /\ x.intent.mayHaveMoved)
    BY DEF Good, VerdictsSafe, StatusUpdate, canTransitionTo, INTENT_STATUS_TRANSITIONS
  <2>4. QED
    BY <2>1, <2>2, <2>3, TransitionGood DEF StatusUpdate
<1>2. Good(next)
  BY <1>1
<1> HIDE DEF next
<1>3. /\ inDoubt \in Intent /\ inDoubt.status = next.intent.status
      /\ inDoubt.notSent = next.intent.notSent
      /\ inDoubt.mayHaveMoved = next.intent.mayHaveMoved
  BY <1>2, FieldTypes DEF Intent
<1> HIDE DEF inDoubt
<1>4. Good(doubted)
  BY <1>2, <1>3, SamePatchGood
<1> HIDE DEF doubted
<1>5. /\ cleared \in Intent /\ cleared.status = doubted.intent.status
      /\ ~cleared.notSent /\ cleared.mayHaveMoved = doubted.intent.mayHaveMoved
  BY <1>4, FieldTypes DEF Intent
<1> HIDE DEF cleared
<1>6. Good(patch(doubted, cleared))
  BY <1>4, <1>5, SamePatchGood
<1>7. applyStatusUpdate(x, u) = doubted \/ applyStatusUpdate(x, u) = patch(doubted, cleared)
  BY DEF applyStatusUpdate, doubted, cleared, inDoubt, next
<1>8. QED
  BY <1>4, <1>6, <1>7

\* The poll has no part in Good.
LEMMA PollGood ==
    ASSUME NEW x, Good(x), NEW p \in PollState
    PROVE  LET y == [x EXCEPT !.poll = p]
           IN  /\ Good(y) /\ y.poll = p /\ y.intent = x.intent /\ y.timers = x.timers
               /\ KeepsCeremony(x, y)
<1> DEFINE y == [x EXCEPT !.poll = p]
<1>1. /\ Typed(y) /\ KeepsCeremony(x, y) /\ y.intent = x.intent /\ y.flights = x.flights
      /\ y.timers = x.timers /\ y.poll = p
  BY DEF Good, Typed, Model, KeepsCeremony
<1> HIDE DEF y
<1>2. Good(y)
  BY <1>1, GoodAgrees
<1>3. QED
  BY <1>1, <1>2 DEF y

\* A read of the status leaves the order as it is.
LEMMA PollTickGood ==
    ASSUME NEW x, Good(x), NEW elapsed
    PROVE  Good(pollTick(x, elapsed))
<1> DEFINE p == x.poll
           k == p.polls + 1
           ask == [NoAsk EXCEPT !.op = "status", !.id = p.gen, !.intentId = p.intentId,
                                !.attempt = k]
           s == IF elapsed THEN p.spent + 1 ELSE p.spent
           q == [p EXCEPT !.polls = k, !.spent = s]
           z == perform(x, ask)
<1>1. p \in PollState
  BY FieldTypes
<1>2. pollTick(x, elapsed) = x \/ pollTick(x, elapsed) = [z EXCEPT !.poll = q]
  BY <1>1 DEF pollTick, PollState
<1> HIDE DEF p
<1>3. k \in Nat /\ s \in Nat
  BY <1>1 DEF PollState
<1> HIDE DEF k, s
<1>4. ask \in Ask /\ q \in PollState
  BY <1>1, <1>3 DEF Ask, NoAsk, OrNone, PollState
<1> HIDE DEF ask, q
<1>5. Good(z)
  BY <1>4, PerformGood
<1> HIDE DEF z
<1>6. Good([z EXCEPT !.poll = q])
  BY <1>4, <1>5, PollGood
<1>7. QED
  BY <1>2, <1>6

\* Stopping the poll marks the intent and moves nothing.
LEMMA ExhaustPollGood ==
    ASSUME NEW x, Good(x)
    PROVE  Good(exhaustPoll(x))
<1> DEFINE c == clearTimer(x, "poll")
           p == [x.poll EXCEPT !.stopped = TRUE]
           b == x.intent.pollExhausted \/ x.intent.intentId = x.poll.intentId
           i == [x.intent EXCEPT !.pollExhausted = b]
           z == [c EXCEPT !.poll = p]
<1>1. Good(c) /\ c.intent = x.intent /\ c.poll = x.poll
  <2>1. "poll" \in TimerName \ {"signPrompt", "execute"}
    BY DEF TimerName
  <2>2. QED
    BY <2>1, ClearTimerGood DEF KeepsForm
<1>2. p \in PollState
  BY FieldTypes DEF PollState
<1>3. /\ i \in Intent /\ i.status = x.intent.status /\ i.notSent = x.intent.notSent
      /\ i.mayHaveMoved = x.intent.mayHaveMoved
  <2>1. b \in BOOLEAN
    BY FieldTypes DEF Intent
  <2> HIDE DEF b
  <2>2. QED
    BY <2>1, FieldTypes DEF Intent
<1>4. exhaustPoll(x) = patch(z, i)
  <2> HIDE DEF b
  <2>1. exhaustPoll(x) = [c EXCEPT !.poll = p, !.intent = i]
    <3> HIDE DEF c
    <3>1. c \in Model
      BY <1>1 DEF Good, Typed
    <3>2. exhaustPoll(x) = [c EXCEPT !.poll.stopped = TRUE,
                                     !.intent.pollExhausted = @ \/ x.intent.intentId = x.poll.intentId]
      BY DEF exhaustPoll, c
    <3>3. QED
      BY <1>1, <3>1, <3>2 DEF Model, b
  <2> HIDE DEF c, p, i
  <2>2. QED
    BY <2>1 DEF patch
<1> HIDE DEF c, p, i
<1>5. Good(z) /\ z.intent = x.intent
  BY <1>1, <1>2, PollGood
<1> HIDE DEF z
<1>6. Good(patch(z, i))
  BY <1>3, <1>5, SamePatchGood
<1>7. QED
  BY <1>4, <1>6

\* Every answer to a read, late, foreign, empty or 404, leaves a good model.
LEMMA OnStatusGood ==
    ASSUME NEW x, Good(x), NEW gen, NEW attempt \in Nat, NEW r,
           r.kind = "data" => StatusUpdate(r), NEW n
    PROVE  Good(onStatus(x, gen, attempt, r, n))
<1> DEFINE y == onStatus(x, gen, attempt, r, n)
           ok == r.kind # "threw"
           a == IF ok THEN Max({x.poll.answered, attempt}) ELSE x.poll.answered
           answer == [x.poll EXCEPT !.answered = a]
           notSent == [x.intent EXCEPT !.notSent = TRUE]
           unsent == IF readsNotSent(x, attempt, r) THEN patch(x, notSent) ELSE x
           inDoubt == [unsent.intent EXCEPT !.reconciling = TRUE]
           read == IF escalatesToReconcile(unsent, attempt) THEN patch(unsent, inDoubt)
                   ELSE unsent
           swept == r.kind = "notFound" /\ sweptPastFinish(read, n)
           ended == [read.intent EXCEPT !.reconciling = FALSE, !.mayHaveMoved = FALSE]
           next == IF swept THEN transition(read, "failed", ended)
                   ELSE IF r.kind = "data" THEN applyStatusUpdate(read, r)
                   ELSE read
           stopped == [answer EXCEPT !.stopped = TRUE]
           restarted == [answer EXCEPT !.spent = 0]
           quiet == clearTimer(next, "poll")
<1>1. Good(unsent)
  <2>1. CASE ~readsNotSent(x, attempt, r)
    BY <2>1
  <2>2. CASE readsNotSent(x, attempt, r)
    <3>1. x.intent.status = "executing" /\ x.sign.stage = "none"
      BY <2>2 DEF readsNotSent
    <3>2. /\ notSent \in Intent /\ notSent.status = x.intent.status
          /\ notSent.mayHaveMoved = x.intent.mayHaveMoved
      BY FieldTypes DEF Intent
    <3> HIDE DEF notSent
    <3> DEFINE z == patch(x, notSent)
    <3>3. /\ Typed(z) /\ KeepsCeremony(x, z)
          /\ z.intent = notSent /\ z.flights = x.flights /\ z.timers = x.timers
      BY <3>2, PatchFrame DEF Good
    <3> HIDE DEF z
    <3>4. Good(z)
      BY <3>1, <3>2, <3>3
      DEF Good, CeremonySafe, VerdictsSafe, FlightsSafe, KeepsCeremony, armed, awaitingResend
    <3>5. QED
      BY <2>2, <3>4 DEF z
  <2>3. QED
    BY <2>1, <2>2
<1> HIDE DEF unsent
<1>2. Good(read)
  <2>1. /\ inDoubt \in Intent /\ inDoubt.status = unsent.intent.status
        /\ inDoubt.notSent = unsent.intent.notSent
        /\ inDoubt.mayHaveMoved = unsent.intent.mayHaveMoved
    BY <1>1, FieldTypes DEF Intent
  <2> HIDE DEF inDoubt
  <2>2. QED
    BY <1>1, <2>1, SamePatchGood
<1> HIDE DEF read
<1>3. Good(next)
  <2>1. ended \in Intent /\ ~ended.mayHaveMoved /\ "failed" \in IntentStatus
    BY <1>2, FieldTypes, ZenonT(60) DEF Intent, IntentStatus
  <2> HIDE DEF ended, swept
  <2>2. Good(transition(read, "failed", ended))
    BY <1>2, <2>1, TransitionGood
  <2>3. r.kind = "data" => Good(applyStatusUpdate(read, r))
    BY <1>2, ApplyStatusUpdateGood
  <2>4. QED
    BY <1>2, <2>2, <2>3
<1> HIDE DEF next
<1>4. answer \in PollState
  <2>1. x.poll \in PollState /\ x.poll.answered \in Nat
    BY FieldTypes DEF PollState
  <2>2. a \in Nat
    <3> DEFINE p == x.poll.answered
    <3>1. p \in Int /\ attempt \in Int
      BY <2>1
    <3> HIDE DEF p
    <3>2. Max({p, attempt}) \in {p, attempt}
      BY <3>1, MaxOfTwo
    <3>3. QED
      BY <2>1, <3>2 DEF p
  <2> HIDE DEF a
  <2>3. QED
    BY <2>1, <2>2 DEF PollState
<1> HIDE DEF answer
<1>5. stopped \in PollState /\ restarted \in PollState
  BY <1>4 DEF PollState
<1> HIDE DEF stopped, restarted
<1>6. Good(quiet)
  <2>1. "poll" \in TimerName \ {"signPrompt", "execute"}
    BY DEF TimerName
  <2>2. QED
    BY <1>3, <2>1, ClearTimerGood
<1> HIDE DEF quiet
<1>7. /\ Good([quiet EXCEPT !.poll = stopped]) /\ Good([next EXCEPT !.poll = restarted])
      /\ Good([next EXCEPT !.poll = answer])
  BY <1>3, <1>4, <1>5, <1>6, PollGood
<1>8. Good(exhaustPoll([next EXCEPT !.poll = answer]))
  BY <1>7, ExhaustPollGood
<1>9. \/ y = x
      \/ y = [quiet EXCEPT !.poll = stopped]
      \/ y = [next EXCEPT !.poll = restarted]
      \/ y = [next EXCEPT !.poll = answer]
      \/ y = exhaustPoll([next EXCEPT !.poll = answer])
  BY DEF onStatus, quiet, stopped, restarted, answer, next, read, unsent
<1>10. QED
  BY <1>7, <1>8, <1>9

-----------------------------------------------------------------------------
(* The reactive rules. *)

\* What the rules have already reacted to has no part in Good.
LEMMA WatchedGood ==
    ASSUME NEW x, Good(x), NEW w, [x EXCEPT !.watched = w] \in Model
    PROVE  LET y == [x EXCEPT !.watched = w]
           IN  /\ Good(y) /\ y.intent = x.intent /\ y.ctx = x.ctx /\ y.amount = x.amount
               /\ y.flights = x.flights /\ y.timers = x.timers /\ KeepsCeremony(x, y)
<1> DEFINE y == [x EXCEPT !.watched = w]
<1>1. /\ Typed(y) /\ KeepsCeremony(x, y) /\ y.intent = x.intent /\ y.flights = x.flights
      /\ y.timers = x.timers /\ y.ctx = x.ctx /\ y.amount = x.amount
  BY DEF Good, Typed, Model, KeepsCeremony
<1> HIDE DEF y
<1>2. Good(y)
  BY <1>1, GoodAgrees
<1>3. QED
  BY <1>1, <1>2 DEF y

Watched == [wallet : OrNone([address : OrNone(Wallets), chainId : OrNone(Chains),
                             quotedAddress : OrNone(Wallets), quotedChainId : OrNone(Chains)]),
            upgrade : OrNone([trade : TradeKey, amount : AmountField,
                              preview : BOOLEAN, status : IntentStatus]),
            expiry : Times]

\* A wallet change drops a quote or a ceremony, whole.
LEMMA WatchWalletGood ==
    ASSUME NEW x, Good(x)
    PROVE  Good(watchWallet(x))
<1> DEFINE y == watchWallet(x)
           key == [address |-> x.ctx.address, chainId |-> x.ctx.chainId,
                   quotedAddress |-> x.intent.quotedAddress,
                   quotedChainId |-> x.intent.quotedChainId]
           w == [x.watched EXCEPT !.wallet = key]
           next == [x EXCEPT !.watched = w]
           quiet == clearTimers(next, {"debounce", "refresh", "signPrompt"})
           z == [quiet EXCEPT !.intent = INITIAL_INTENT_STATE, !.refresh = NoRefresh,
                              !.awaitingPull = FALSE, !.isSigningPull = FALSE,
                              !.pendingIntentSig = None, !.sign = NoSign]
<1>1. x \in Model /\ x.watched \in Watched
  BY DEF Good, Typed, Model, Watched
<1>2. w \in Watched
  <2>1. /\ x.ctx.address \in OrNone(Wallets) /\ x.ctx.chainId \in OrNone(Chains)
        /\ x.intent.quotedAddress \in OrNone(Wallets)
        /\ x.intent.quotedChainId \in OrNone(Chains)
    BY FieldTypes DEF Context, Intent
  <2>2. key \in [address : OrNone(Wallets), chainId : OrNone(Chains),
                 quotedAddress : OrNone(Wallets), quotedChainId : OrNone(Chains)]
    BY <2>1
  <2>3. key \in OrNone([address : OrNone(Wallets), chainId : OrNone(Chains),
                        quotedAddress : OrNone(Wallets), quotedChainId : OrNone(Chains)])
    <3> HIDE DEF key
    <3>1. QED BY <2>2 DEF OrNone
  <2> HIDE DEF key
  <2>4. QED
    BY <1>1, <2>3 DEF Watched
<1>3. [x EXCEPT !.watched.wallet = key] = next
  BY <1>1 DEF Model
<1>4. y = x \/ y = next \/ (x.intent.status \in WALLET_INTERRUPTIBLE_STATES /\ y = z)
  BY <1>3 DEF watchWallet
<1> HIDE DEF y, key, w
<1>5. next \in Model
  BY <1>1, <1>2 DEF Model, Watched
<1>6. Good(next) /\ next.intent = x.intent
  BY <1>5, WatchedGood
<1> HIDE DEF next
<1>7. /\ Typed(quiet) /\ quiet.flights = next.flights
      /\ quiet.timers = [t \in TimerName |-> IF t \in {"debounce", "refresh", "signPrompt"}
                                             THEN Never ELSE next.timers[t]]
  BY <1>6, ClearTimersFrame DEF Good
<1>8. quiet.timers["signPrompt"] = Never /\ quiet.timers["execute"] = next.timers["execute"]
  BY <1>7 DEF TimerName
<1> HIDE DEF quiet
<1>9. /\ Typed(z) /\ z.intent = INITIAL_INTENT_STATE /\ z.sign = NoSign /\ ~z.awaitingPull
      /\ z.pendingIntentSig = None /\ z.timers = quiet.timers /\ z.flights = quiet.flights
  <2>1. NoRefresh \in [on : BOOLEAN, amount : AmountField, hasAllocatedDeposit : BOOLEAN]
    BY DEF NoRefresh, AmountField
  <2>2. None \in OrNone(Intents)
    BY DEF OrNone
  <2>3. QED
    BY <1>7, <2>1, <2>2, InitialIntentType, NoSignType, ZenonT(60) DEF Typed, Model
<1>10. /\ NoSign.stage = "none" /\ NoSign.resendAt = Never
       /\ INITIAL_INTENT_STATE.status = "idle" /\ ~INITIAL_INTENT_STATE.notSent
       /\ ~INITIAL_INTENT_STATE.mayHaveMoved
  BY DEF NoSign, INITIAL_INTENT_STATE
<1> HIDE DEF z
<1>11. x.intent.status \in WALLET_INTERRUPTIBLE_STATES => Good(z)
  <2>1. SUFFICES ASSUME x.intent.status \in WALLET_INTERRUPTIBLE_STATES PROVE Good(z)
    OBVIOUS
  <2>2. ~armed(next, "execute")
    BY <1>6, <2>1
    DEF Good, CeremonySafe, awaitingResend, WALLET_INTERRUPTIBLE_STATES
  <2>3. QED
    BY <1>8, <1>9, <1>10, <2>2
    DEF Good, CeremonySafe, VerdictsSafe, FlightsSafe, armed, awaitingResend, QUOTE_BUSY_STATES
<1>12. QED
  BY <1>4, <1>6, <1>11 DEF y

\* A preview is upgraded only where no order is.
LEMMA UpgradePreviewGood ==
    ASSUME NEW x, Good(x)
    PROVE  Good(upgradePreview(x))
<1> DEFINE y == upgradePreview(x)
           key == [trade |-> tradeKey(x.ctx), amount |-> x.amount,
                   preview |-> x.intent.quote.preview, status |-> x.intent.status]
           w == [x.watched EXCEPT !.upgrade = key]
           next == [x EXCEPT !.watched = w]
           opts == [quoteOpts(x.amount) EXCEPT !.silent = TRUE]
<1>1. x \in Model /\ x.watched \in Watched
  BY DEF Good, Typed, Model, Watched
<1>2. w \in Watched
  <2>1. tradeKey(x.ctx) \in TradeKey
    BY FieldTypes, TradeKeyType
  <2>2. /\ x.amount \in AmountField /\ x.intent.quote.preview \in BOOLEAN
        /\ x.intent.status \in IntentStatus
    BY FieldTypes DEF Quote
  <2>3. key \in [trade : TradeKey, amount : AmountField, preview : BOOLEAN,
                 status : IntentStatus]
    BY <2>1, <2>2
  <2>4. key \in OrNone([trade : TradeKey, amount : AmountField, preview : BOOLEAN,
                        status : IntentStatus])
    <3> HIDE DEF key
    <3>1. QED BY <2>3 DEF OrNone
  <2> HIDE DEF key
  <2>5. QED
    BY <1>1, <2>4 DEF Watched
<1>3. [x EXCEPT !.watched.upgrade = key] = next
  BY <1>1 DEF Model
<1>4. y = x \/ y = next \/ (x.intent.status = "quoted" /\ y = startQuote(next, opts))
  BY <1>3 DEF upgradePreview, shouldUpgradePreviewQuote
<1> HIDE DEF y, key, w
<1>5. next \in Model
  BY <1>1, <1>2 DEF Model, Watched
<1>6. Good(next) /\ next.intent = x.intent
  BY <1>5, WatchedGood
<1>7. opts \in QuoteOpts
  BY FieldTypes DEF QuoteOpts, quoteOpts
<1> HIDE DEF next, opts
<1>8. x.intent.status = "quoted" => Good(startQuote(next, opts))
  BY <1>6, <1>7, StartQuoteGood DEF QUOTE_BUSY_STATES
<1>9. QED
  BY <1>4, <1>6, <1>8 DEF y

\* The expiry timer belongs to no ceremony.
LEMMA ArmExpiryGood ==
    ASSUME NEW x, Good(x), NEW n
    PROVE  Good(armExpiry(x, n))
<1> DEFINE y == armExpiry(x, n)
           q == x.intent.quote
           key == IF x.intent.status = "quoted" /\ q.held /\ q.address = None
                  THEN q.expiry ELSE Never
           w == [x.watched EXCEPT !.expiry = key]
           due == IF key = Never THEN Never ELSE AtOnce
           seen == [x EXCEPT !.watched = w]
           next == setTimer(seen, "expiry", due)
<1>1. x \in Model /\ x.watched \in Watched
  BY DEF Good, Typed, Model, Watched
<1>2. key \in Times /\ due \in Times
  <2>1. q.expiry \in Times
    BY FieldTypes DEF Quote
  <2>2. QED
    BY <2>1 DEF Times, Never, AtOnce
<1>3. [x EXCEPT !.watched.expiry = key, !.timers["expiry"] = due] = next
  BY <1>1 DEF Model, setTimer
<1>4. y = x \/ y = next \/ y = tickExpiry(next, n)
  BY <1>3 DEF armExpiry
<1> HIDE DEF y, key, due
<1>5. w \in Watched
  BY <1>1, <1>2 DEF Watched
<1> HIDE DEF w
<1>6. seen \in Model
  BY <1>1, <1>5 DEF Model, Watched
<1>7. Good(seen)
  BY <1>6, WatchedGood
<1> HIDE DEF seen
<1>8. Good(next)
  <2>1. "expiry" \in TimerName \ {"signPrompt", "execute"}
    BY DEF TimerName
  <2>2. QED
    BY <1>2, <1>7, <2>1, SetTimerGood
<1> HIDE DEF next
<1>9. Good(tickExpiry(next, n))
  BY <1>8, TickExpiryGood
<1>10. QED
  BY <1>4, <1>8, <1>9 DEF y

\* The ceiling of a poll is a number.
LEMMA PollCeilingType ==
    ASSUME NEW s, NEW d \in Int, NEW n \in Nat, NEW f \in Int
    PROVE  pollCeilingAttempts(s, d, n, f) \in Int
<1> DEFINE flat == CeilDiv(FLAT_CEILING, STATUS_POLL)
           window == CASE s = "awaiting_deposit" /\ d > 0 -> d - n + DEPOSIT_POLL_GRACE
                       [] s = "executing" /\ f > 0 -> f - n + STATUS_POLL
                       [] OTHER -> 0
           low == Min({window, POLL_CEILING_MAX})
           high == CeilDiv(low, STATUS_POLL)
<1>1. /\ FLAT_CEILING \in Int /\ STATUS_POLL \in Nat \ {0} /\ POLL_CEILING_MAX \in Int
      /\ DEPOSIT_POLL_GRACE \in Int
  BY DecisionConstants
<1>2. window \in Int
  <2>1. CASE s = "awaiting_deposit" /\ d > 0
    BY <1>1, <2>1
  <2>2. CASE s = "executing" /\ f > 0
    BY <1>1, <2>2
  <2>3. CASE ~(s = "awaiting_deposit" /\ d > 0) /\ ~(s = "executing" /\ f > 0)
    BY <2>3
  <2>4. QED
    BY <2>1, <2>2, <2>3
<1>3. flat \in Int
  BY <1>1 DEF CeilDiv
<1>4. pollCeilingAttempts(s, d, n, f) = IF window <= 0 THEN flat ELSE Max({flat, high})
  BY DEF pollCeilingAttempts
<1> HIDE DEF window, flat
<1>5. low \in Int
  <2>1. \E v \in {window, POLL_CEILING_MAX} : \A u \in {window, POLL_CEILING_MAX} : v <= u
    BY <1>1, <1>2
  <2>2. low \in {window, POLL_CEILING_MAX}
    BY <2>1 DEF Min
  <2>3. QED
    BY <1>1, <1>2, <2>2
<1> HIDE DEF low
<1>6. high \in Int
  BY <1>1, <1>5 DEF CeilDiv
<1> HIDE DEF high
<1>7. Max({flat, high}) \in Int
  <2>1. Max({flat, high}) \in {flat, high}
    BY <1>3, <1>6, MaxOfTwo
  <2>2. QED
    BY <1>3, <1>6, <2>1
<1>8. QED
  BY <1>3, <1>4, <1>7

\* The finish of an unexecuted order is a time.
LEMMA UnexecutedFinishType ==
    ASSUME NEW q \in Quote
    PROVE  unexecutedFinishAt(q) \in Int
<1> DEFINE b == IF q.eip712 THEN q.deadline ELSE q.expiry
<1>1. q.expiry \in Int /\ q.deadline \in Int /\ QUOTED_EXPIRY_GRACE \in Int
  BY DecisionConstants DEF Quote, Times
<1>2. {q.expiry} \cup (IF q.eip712 THEN {q.deadline} ELSE {}) = {q.expiry, b}
  OBVIOUS
<1>3. unexecutedFinishAt(q) = IF ~q.held THEN Never ELSE Max({q.expiry, b}) + QUOTED_EXPIRY_GRACE
  BY <1>2 DEF unexecutedFinishAt
<1>4. b \in Int
  BY <1>1
<1> HIDE DEF b
<1>5. Max({q.expiry, b}) \in {q.expiry, b}
  BY <1>1, <1>4, MaxOfTwo
<1>6. Max({q.expiry, b}) \in Int
  BY <1>1, <1>4, <1>5
<1>7. QED
  BY <1>1, <1>3, <1>6 DEF Never

\* Nor does the poll timer.
LEMMA ArmPollGood ==
    ASSUME NEW x, Good(x), NEW n \in Nat
    PROVE  Good(armPoll(x, n))
<1> DEFINE y == armPoll(x, n)
           i == x.intent
           k == pollCeilingAttempts(i.status, i.depositDeadline, n, unexecutedFinishAt(i.quote))
           poll == [NoPoll EXCEPT !.live = TRUE, !.intentId = i.intentId, !.phase = i.status,
                                  !.resend = awaitingResend(x), !.gen = nextId(x), !.max = k]
           quiet == clearTimer(x, "poll")
           due == n + STATUS_POLL
           timed == setTimer(x, "poll", due)
           next == [timed EXCEPT !.poll = poll]
<1>1. y = x \/ y = [quiet EXCEPT !.poll = NoPoll] \/ y = next \/ y = pollTick(next, FALSE)
  BY DEF armPoll
<1> HIDE DEF y
<1>2. poll \in PollState
  <2>1. k \in Int
    <3>1. i.depositDeadline \in Int /\ unexecutedFinishAt(i.quote) \in Int
      BY FieldTypes, UnexecutedFinishType DEF Intent, Times
    <3>2. QED
      BY <3>1, PollCeilingType
  <2>2. nextId(x) \in Nat
    BY NextIdFresh DEF Good
  <2>3. i.intentId \in OrNone(Intents) /\ i.status \in IntentStatus
    BY FieldTypes
  <2>4. awaitingResend(x) \in BOOLEAN
    BY DEF awaitingResend
  <2> HIDE DEF k, i
  <2>5. QED
    BY <2>1, <2>2, <2>3, <2>4 DEF PollState, NoPoll, Times
<1> HIDE DEF poll
<1>3. "poll" \in TimerName \ {"signPrompt", "execute"} /\ due \in Times
  BY DecisionConstants DEF TimerName, Times
<1>4. Good(quiet) /\ Good(timed)
  <2> HIDE DEF due
  <2>1. QED BY <1>3, ClearTimerGood, SetTimerGood
<1> HIDE DEF quiet, timed
<1>5. Good([quiet EXCEPT !.poll = NoPoll]) /\ Good(next)
  BY <1>2, <1>4, NoPollType, PollGood
<1> HIDE DEF next
<1>6. Good(pollTick(next, FALSE))
  BY <1>5, PollTickGood
<1>7. QED
  BY <1>1, <1>5, <1>6 DEF y

\* The rules that follow every update keep a model good.
LEMMA SettleGood ==
    ASSUME NEW x, Good(x), NEW n \in Nat
    PROVE  Good(settle(x, n))
<1>1. ASSUME NEW z, Good(z) PROVE Good(settlePass(z, n))
  <2> DEFINE a == watchWallet(z)
             b == upgradePreview(a)
             c == armExpiry(b, n)
  <2>1. Good(a)
    BY <1>1, WatchWalletGood
  <2> HIDE DEF a
  <2>2. Good(b)
    BY <2>1, UpgradePreviewGood
  <2> HIDE DEF b
  <2>3. Good(c)
    BY <2>2, ArmExpiryGood
  <2> HIDE DEF c
  <2>4. Good(armPoll(c, n))
    BY <2>3, ArmPollGood
  <2>5. QED
    BY <2>4 DEF settlePass, c, b, a
<1> DEFINE p1 == settlePass(x, n)
           p2 == settlePass(p1, n)
           p3 == settlePass(p2, n)
<1>2. Good(p1)
  BY <1>1
<1> HIDE DEF p1
<1>3. Good(p2)
  BY <1>1, <1>2
<1> HIDE DEF p2
<1>4. Good(p3)
  BY <1>1, <1>3
<1> HIDE DEF p3
<1>5. Good(settlePass(p3, n))
  BY <1>1, <1>4
<1>6. QED
  BY <1>2, <1>5 DEF settle, p3, p2, p1

-----------------------------------------------------------------------------
(* Messages from the host. *)

\* A new form or wallet drops the quotes asked for the old one.
LEMMA ContextChangedGood ==
    ASSUME NEW x, Good(x), NEW c \in Context
    PROVE  Good(contextChanged(x, c))
<1> DEFINE y == contextChanged(x, c)
           next == [x EXCEPT !.ctx = c]
           timed == setTimer(next, "debounce", AtOnce)
<1>1. y = next \/ y = supersedeFlights(timed) \/ y = supersedeFlights(next)
  BY DEF contextChanged
<1>2. /\ Typed(next) /\ KeepsCeremony(x, next) /\ next.intent = x.intent
      /\ next.flights = x.flights /\ next.timers = x.timers
  BY DEF Good, Typed, Model, KeepsCeremony
<1> HIDE DEF y, next
<1>3. Good(next)
  BY <1>2, GoodAgrees
<1>4. Good(timed)
  <2>1. "debounce" \in TimerName \ {"signPrompt", "execute"} /\ AtOnce \in Times
    BY DEF TimerName, AtOnce, Times
  <2>2. QED
    BY <1>3, <2>1, SetTimerGood
<1> HIDE DEF timed
<1>5. QED
  BY <1>1, <1>3, <1>4, SupersedeGood DEF y

\* An edited amount quotes anew, and an emptied one resets what may be reset.
LEMMA QuoteRequestedGood ==
    ASSUME NEW x, Good(x), NEW amount \in AmountField
    PROVE  Good(quoteRequested(x, amount))
<1> DEFINE y == quoteRequested(x, amount)
           c == clearTimer(x, "debounce")
           quiet == clearTimer(c, "refresh")
           kept == IF amount = x.amount THEN quiet ELSE supersedeFlights(quiet)
           next == [kept EXCEPT !.amount = amount, !.refresh = NoRefresh]
           idle == patch(next, INITIAL_INTENT_STATE)
           z == abandonSign(idle)
<1>1. y = setTimer(next, "debounce", AtOnce) \/ y = next \/ y = z
  BY DEF quoteRequested
<1>2. {"debounce", "refresh"} \in SUBSET (TimerName \ {"signPrompt", "execute"}) /\ AtOnce \in Times
  BY DEF TimerName, AtOnce, Times
<1> HIDE DEF y
<1>3. Good(c)
  BY <1>2, ClearTimerGood
<1> HIDE DEF c
<1>4. Good(quiet)
  BY <1>2, <1>3, ClearTimerGood
<1> HIDE DEF quiet
<1>5. Good(kept)
  BY <1>4, SupersedeGood
<1> HIDE DEF kept
<1>6. /\ Typed(next) /\ KeepsCeremony(kept, next) /\ next.intent = kept.intent
      /\ next.flights = kept.flights /\ next.timers = kept.timers
  <2>1. NoRefresh \in [on : BOOLEAN, amount : AmountField, hasAllocatedDeposit : BOOLEAN]
    BY DEF NoRefresh, AmountField
  <2>2. QED
    BY <1>5, <2>1, ZenonT(60) DEF Good, Typed, Model, KeepsCeremony
<1> HIDE DEF next
<1>7. Good(next)
  BY <1>5, <1>6, GoodAgrees
<1>8. Good(setTimer(next, "debounce", AtOnce))
  BY <1>2, <1>7, SetTimerGood
<1>9. /\ Typed(idle) /\ KeepsCeremony(next, idle) /\ idle.intent = INITIAL_INTENT_STATE
      /\ idle.flights = next.flights /\ idle.timers = next.timers
  BY <1>6, InitialIntentType, PatchFrame
<1> HIDE DEF idle
<1>10. /\ Typed(z) /\ z.sign = NoSign /\ ~z.awaitingPull /\ z.pendingIntentSig = None
       /\ z.intent = idle.intent
       /\ z.timers["signPrompt"] = IF idle.sign.stage # "none" THEN Never
                                   ELSE idle.timers["signPrompt"]
       /\ z.timers["execute"] = IF awaitingResend(idle) THEN Never ELSE idle.timers["execute"]
  BY <1>9, AbandonSignFrame
<1>11. /\ NoSign.stage = "none" /\ NoSign.resendAt = Never
       /\ INITIAL_INTENT_STATE.status = "idle" /\ ~INITIAL_INTENT_STATE.notSent
       /\ ~INITIAL_INTENT_STATE.mayHaveMoved
  BY DEF NoSign, INITIAL_INTENT_STATE
<1> HIDE DEF z
<1>12. ~armed(z, "signPrompt") /\ ~armed(z, "execute") /\ ~awaitingResend(z)
  BY <1>7, <1>9, <1>10, <1>11 DEF Good, CeremonySafe, KeepsCeremony, armed, awaitingResend
<1>13. Good(z)
  BY <1>9, <1>10, <1>11, <1>12
  DEF Good, CeremonySafe, VerdictsSafe, FlightsSafe, QUOTE_BUSY_STATES
<1>14. QED
  BY <1>1, <1>7, <1>8, <1>13 DEF y

\* An allocation is refused over an order.
LEMMA AllocateRequestedGood ==
    ASSUME NEW x, Good(x)
    PROVE  Good(allocateRequested(x))
<1> DEFINE y == allocateRequested(x)
           ref == nextId(x)
           told == [x EXCEPT !.event = "refused"]
           next == [x EXCEPT !.allocs = @ \cup {ref}]
           opts == [quoteOpts(x.amount) EXCEPT !.ref = ref]
<1>1. y = told \/ (x.intent.status \in ALLOCATABLE_STATES /\ y = startQuote(next, opts))
  BY DEF allocateRequested, allocationRefused
<1> HIDE DEF y
<1>2. ref \in Nat
  BY NextIdFresh DEF Good
<1>3. opts \in QuoteOpts
  <2> HIDE DEF ref
  <2>1. QED BY <1>2, FieldTypes DEF QuoteOpts, quoteOpts
<1> HIDE DEF ref, opts
<1>4. /\ Typed(told) /\ KeepsCeremony(x, told) /\ told.intent = x.intent
      /\ told.flights = x.flights /\ told.timers = x.timers
  BY DEF Good, Typed, Model, KeepsCeremony
<1> HIDE DEF told
<1>5. Good(told)
  BY <1>4, GoodAgrees
<1>6. /\ Typed(next) /\ KeepsCeremony(x, next) /\ next.intent = x.intent
      /\ next.flights = x.flights /\ next.timers = x.timers
  <2>1. IsFiniteSet(x.allocs \cup {ref})
    BY FS_AddElement DEF Good, Typed
  <2>2. QED
    BY <1>2, <2>1 DEF Good, Typed, Model, KeepsCeremony
<1> HIDE DEF next
<1>7. Good(next)
  BY <1>6, GoodAgrees
<1>8. x.intent.status \in ALLOCATABLE_STATES => Good(startQuote(next, opts))
  BY <1>3, <1>6, <1>7, StartQuoteGood DEF ALLOCATABLE_STATES, QUOTE_BUSY_STATES
<1>9. QED
  BY <1>1, <1>5, <1>8 DEF y

\* The amount on screen, asked for as it is.
LEMMA QuoteOptsType ==
    ASSUME NEW a \in AmountField
    PROVE  /\ quoteOpts(a) \in QuoteOpts
           /\ \A b \in BOOLEAN : [quoteOpts(a) EXCEPT !.silent = b] \in QuoteOpts
BY DEF quoteOpts, QuoteOpts

\* A refresh is a silent quote.
LEMMA RefreshRequestedGood ==
    ASSUME NEW x, Good(x)
    PROVE  Good(refreshRequested(x))
<1>1. x.intent.status \notin QUOTE_BUSY_STATES => Good(startQuote(x, quoteOpts(x.amount)))
  BY FieldTypes, QuoteOptsType, StartQuoteGood
<1>2. QED
  BY <1>1 DEF refreshRequested

\* Cancelling abandons the ceremony and returns to the quote.
LEMMA CancelSignRequestedGood ==
    ASSUME NEW x, Good(x)
    PROVE  Good(cancelSignRequested(x))
<1> DEFINE z == abandonSign(x)
<1>1. Good(z) /\ z.intent = x.intent
  BY AbandonSignGood
<1> HIDE DEF z
<1>2. "quoted" \in IntentStatus \ {"idle", "quoting"}
  BY DEF IntentStatus
<1>3. Good(transition(z, "quoted", x.intent))
  BY <1>1, <1>2, FieldTypes, MoveGood
<1>4. QED
  BY <1>3 DEF cancelSignRequested, z

\* Reset leaves the model of a new page.
LEMMA ResetRequestedGood ==
    ASSUME NEW x, Good(x)
    PROVE  Good(resetRequested(x))
<1> DEFINE ts == {"debounce", "refresh", "signPrompt"}
                 \cup (IF awaitingResend(x) THEN {"execute"} ELSE {})
           quiet == clearTimers(x, ts)
           s == supersedeFlights(quiet)
           y == [s EXCEPT
                   !.intent = INITIAL_INTENT_STATE, !.amount = "",
                   !.awaitingPull = FALSE, !.isSigningPull = FALSE, !.pendingIntentSig = None,
                   !.refresh = NoRefresh, !.quotedTrade = None, !.sign = NoSign]
<1>1. "signPrompt" \in ts /\ ("execute" \in ts <=> awaitingResend(x))
  OBVIOUS
<1>2. resetRequested(x) = y
  BY DEF resetRequested
<1> HIDE DEF ts
<1>3. /\ Typed(quiet)
      /\ quiet.timers = [t \in TimerName |-> IF t \in ts THEN Never ELSE x.timers[t]]
  BY ClearTimersFrame DEF Good
<1>4. ~armed(quiet, "signPrompt") /\ ~armed(quiet, "execute")
  BY <1>1, <1>3 DEF Good, CeremonySafe, armed, TimerName
<1> HIDE DEF quiet
<1>5. Typed(s) /\ s.timers = quiet.timers /\ s.flights = {}
  BY <1>3, SupersedeFrame
<1> HIDE DEF s
<1>6. /\ Typed(y) /\ y.intent = INITIAL_INTENT_STATE /\ y.sign = NoSign /\ ~y.awaitingPull
      /\ y.pendingIntentSig = None /\ y.timers = s.timers /\ y.flights = s.flights
  <2>1. NoRefresh \in [on : BOOLEAN, amount : AmountField, hasAllocatedDeposit : BOOLEAN]
    BY DEF NoRefresh, AmountField
  <2>2. None \in OrNone(Intents) /\ None \in OrNone(TradeKey) /\ "" \in AmountField
    BY DEF OrNone, AmountField
  <2>3. QED
    BY <1>5, <2>1, <2>2, InitialIntentType, NoSignType, ZenonT(60) DEF Typed, Model
<1>7. /\ NoSign.stage = "none" /\ NoSign.resendAt = Never
      /\ INITIAL_INTENT_STATE.status = "idle" /\ ~INITIAL_INTENT_STATE.notSent
      /\ ~INITIAL_INTENT_STATE.mayHaveMoved
  BY DEF NoSign, INITIAL_INTENT_STATE
<1> HIDE DEF y
<1>8. Good(y)
  BY <1>4, <1>5, <1>6, <1>7
  DEF Good, CeremonySafe, VerdictsSafe, FlightsSafe, armed, awaitingResend
<1>9. QED
  BY <1>2, <1>8

\* What the handler relies on of a stored order.
Stored(s) ==
    /\ s.intentId \in Intents /\ s.owner \in Wallets /\ s.depositDeadline \in Times
    /\ s.status \in IntentStatus /\ s.marker \in BOOLEAN

\* A resumed order starts without a ceremony and without quotes in the air.
LEMMA ResumeRequestedGood ==
    ASSUME NEW x, Good(x), NEW s, Stored(s)
    PROVE  Good(resumeRequested(x, s))
<1> DEFINE b == s.status = "failed" /\ failureMayHaveMoved(s.marker)
           i == [INITIAL_INTENT_STATE EXCEPT
                    !.intentId = s.intentId, !.status = s.status,
                    !.quotedAddress = s.owner, !.depositDeadline = s.depositDeadline,
                    !.mayHaveMoved = b]
           c == clearTimer(x, "debounce")
           p == patch(c, i)
           y == supersedeFlights(p)
<1>1. resumeRequested(x, s) = x \/ (x.intent.status = "idle" /\ resumeRequested(x, s) = y)
  BY DEF resumeRequested, canAdoptResumedIntent
<1>2. b \in BOOLEAN /\ (b => s.status = "failed")
  BY DEF failureMayHaveMoved, Stored
<1> HIDE DEF b
<1>3. /\ i \in Intent /\ i.status = s.status /\ ~i.notSent /\ i.mayHaveMoved = b
  <2>1. s.intentId \in OrNone(Intents) /\ s.owner \in OrNone(Wallets)
    BY DEF Stored, OrNone
  <2>2. ~INITIAL_INTENT_STATE.notSent
    BY DEF INITIAL_INTENT_STATE
  <2>3. QED
    BY <1>2, <2>1, <2>2, InitialIntentType DEF Stored, Intent
<1> HIDE DEF i
<1>4. Good(c) /\ c.intent = x.intent
  <2>1. "debounce" \in TimerName \ {"signPrompt", "execute"}
    BY DEF TimerName
  <2>2. QED
    BY <2>1, ClearTimerGood
<1> HIDE DEF c
<1>5. /\ Typed(p) /\ KeepsCeremony(c, p) /\ p.intent = i /\ p.timers = c.timers
  BY <1>3, <1>4, PatchFrame DEF Good
<1> HIDE DEF p
<1>6. /\ Typed(y) /\ KeepsCeremony(p, y) /\ y.intent = p.intent /\ y.timers = p.timers
      /\ y.flights = {}
  BY <1>5, SupersedeFrame
<1> HIDE DEF y
<1>7. x.intent.status = "idle" => Good(y)
  <2>1. SUFFICES ASSUME x.intent.status = "idle" PROVE Good(y)
    OBVIOUS
  <2>2. /\ c.sign.stage = "none" /\ ~c.awaitingPull /\ c.pendingIntentSig = None
        /\ ~armed(c, "signPrompt") /\ ~armed(c, "execute") /\ ~awaitingResend(c)
    BY <1>4, <2>1, AtRest DEF QUOTE_BUSY_STATES
  <2>3. QED
    BY <1>2, <1>3, <1>5, <1>6, <2>2
    DEF Good, CeremonySafe, VerdictsSafe, FlightsSafe, KeepsCeremony, armed, awaitingResend
<1>8. QED
  BY <1>1, <1>7

\* A returning tab restarts a stopped poll and moves nothing.
LEMMA RestartPollGood ==
    ASSUME NEW x, Good(x)
    PROVE  Good(restartPoll(x))
<1> DEFINE i == [x.intent EXCEPT !.pollExhausted = FALSE]
           p == patch(x, i)
<1>1. /\ i \in Intent /\ i.status = x.intent.status /\ i.notSent = x.intent.notSent
      /\ i.mayHaveMoved = x.intent.mayHaveMoved
  BY FieldTypes DEF Intent
<1> HIDE DEF i
<1>2. Good(p)
  BY <1>1, SamePatchGood
<1> HIDE DEF p
<1>3. Good([p EXCEPT !.poll = NoPoll])
  BY <1>2, NoPollType, PollGood
<1>4. QED
  BY <1>3 DEF restartPoll, p, i

\* A returning tab may also resend or refresh, under their own guards.
LEMMA VisibilityChangedGood ==
    ASSUME NEW x, Good(x), NEW hidden \in BOOLEAN, NEW n
    PROVE  Good(visibilityChanged(x, hidden, n))
<1> DEFINE y == visibilityChanged(x, hidden, n)
           seen == [x EXCEPT !.hidden = hidden]
           stale == /\ x.amount # ""
                    /\ shouldRefreshOnReturn(x.intent.status, x.ctx.paused,
                                             x.intent.quote.address # None)
           next == IF stale THEN startQuote(seen, quoteOpts(x.amount)) ELSE seen
<1>1. \/ y = seen \/ (awaitingResend(next) /\ y = resendBackstop(next, n))
      \/ y = restartPoll(next) \/ y = pollTick(next, FALSE)
  BY DEF visibilityChanged
<1> HIDE DEF y
<1>2. /\ Typed(seen) /\ KeepsCeremony(x, seen) /\ seen.intent = x.intent
      /\ seen.flights = x.flights /\ seen.timers = x.timers
  BY DEF Good, Typed, Model, KeepsCeremony
<1> HIDE DEF seen
<1>3. Good(seen)
  BY <1>2, GoodAgrees
<1>4. stale => x.intent.status \notin QUOTE_BUSY_STATES
  BY DEF shouldRefreshOnReturn, QUOTE_BUSY_STATES
<1> HIDE DEF stale
<1>5. Good(next)
  <2>1. stale => Good(startQuote(seen, quoteOpts(x.amount)))
    BY <1>2, <1>3, <1>4, FieldTypes, QuoteOptsType, StartQuoteGood
  <2>2. QED
    BY <1>3, <2>1
<1> HIDE DEF next
<1>6. /\ awaitingResend(next) => Good(resendBackstop(next, n))
      /\ Good(restartPoll(next)) /\ Good(pollTick(next, FALSE))
  BY <1>5, ResendBackstopGood, RestartPollGood, PollTickGood
<1>7. QED
  BY <1>1, <1>3, <1>6 DEF y

\* A stream frame moves its own intent only.
LEMMA StreamStatusGood ==
    ASSUME NEW x, Good(x), NEW i, NEW u, StatusUpdate(u)
    PROVE  Good(streamStatus(x, i, u))
BY ApplyStatusUpdateGood DEF streamStatus

\* A timer that fires: the host has disarmed it, or re-armed a repeating one.
LEMMA OnTimerGood ==
    ASSUME NEW x, Good(x), NEW t \in TimerName, armed(x, t), NEW d \in Times,
           t \in {"signPrompt", "execute"} => d = Never, NEW n
    PROVE  Good(onTimer(setTimer(x, t, d), t, n))
<1> DEFINE z == setTimer(x, t, d)
<1>1. CASE t = "execute"
  <2>1. z = clearTimer(x, "execute") /\ awaitingResend(x)
    BY <1>1 DEF setTimer, clearTimer, Good, CeremonySafe
  <2>2. ReadyToSend(z) /\ awaitingResend(z)
    BY <2>1, DisarmedReady
  <2> HIDE DEF z
  <2>3. Good(resendExecute(z, n))
    BY <2>2, ResendExecuteGood
  <2>4. onTimer(z, t, n) = resendExecute(z, n)
    BY <1>1 DEF onTimer
  <2>5. QED
    BY <2>3, <2>4 DEF z
<1>2. CASE t = "signPrompt"
  <2>1. z = clearTimer(x, "signPrompt") /\ x.sign.stage # "execute"
    BY <1>2 DEF setTimer, clearTimer, Good, CeremonySafe
  <2>2. Good(z) /\ z.sign.stage # "execute"
    BY <2>1, ClearPromptGood DEF KeepsCeremony
  <2> HIDE DEF z
  <2>3. Good(signFlowFailed(z, "timeout"))
    BY <2>2, SignFlowFailedGood
  <2>4. onTimer(z, t, n) = signFlowFailed(z, "timeout")
    BY <1>2 DEF onTimer
  <2>5. QED
    BY <2>3, <2>4 DEF z
<1>3. CASE t \notin {"execute", "signPrompt"}
  <2>1. Good(z)
    BY <1>3, SetTimerGood
  <2> HIDE DEF z
  <2> DEFINE y == onTimer(z, t, n)
             next == [z EXCEPT !.refresh = NoRefresh]
             opts == [quoteOpts(z.refresh.amount) EXCEPT !.silent = z.ctx.paused]
  <2>2. CASE t = "debounce"
    BY <2>1, <2>2, RefreshRequestedGood DEF onTimer, z
  <2>3. CASE t = "refresh"
    <3>1. y = z \/ y = next \/ (z.intent.status = "quoted" /\ y = startQuote(next, opts))
      BY <2>3 DEF onTimer, shouldRefreshQuote
    <3>2. NoRefresh \in Plan
      BY DEF NoRefresh, Plan, AmountField
    <3>3. Good(next) /\ next.intent = z.intent
      BY <2>1, <3>2, RefreshGood
    <3>4. opts \in QuoteOpts
      <4>1. z.refresh.amount \in AmountField /\ z.ctx.paused \in BOOLEAN
        BY <2>1 DEF Good, Typed, Model, Context
      <4>2. QED
        BY <4>1, QuoteOptsType
    <3> HIDE DEF y, next, opts
    <3>5. z.intent.status = "quoted" => Good(startQuote(next, opts))
      BY <3>3, <3>4, StartQuoteGood DEF QUOTE_BUSY_STATES
    <3>6. QED
      BY <2>1, <3>1, <3>3, <3>5 DEF y, z
  <2>4. CASE t = "expiry"
    BY <2>1, <2>4, TickExpiryGood DEF onTimer, z
  <2>5. CASE t = "poll"
    <3>1. \/ awaitingResend(z) /\ y = resendBackstop(z, n)
          \/ y = pollTick(z, TRUE) \/ y = z
      BY <2>5 DEF onTimer
    <3>2. QED
      BY <2>1, <3>1, ResendBackstopGood, PollTickGood DEF z
  <2>6. QED
    BY <1>3, <2>2, <2>3, <2>4, <2>5 DEF TimerName
<1>4. QED
  BY <1>1, <1>2, <1>3

-----------------------------------------------------------------------------
(* The actions and the theorems. *)

\* The inductive invariant: the types of the variables, and a good model.
Inv ==
    /\ Good(m)
    /\ now \in Nat
    /\ rows \in [Intents -> [st : RowState, deadline : Times]]
    /\ dispatched \subseteq Intents
    /\ released \subseteq OrNone(Intents)

-----------------------------------------------------------------------------
\* The machine starts with nothing asked, nothing signed and nothing armed.
LEMMA InitGood ==
    ASSUME NEW c \in Context
    PROVE  Good(init(c))
<1> DEFINE x == init(c)
<1>1. x \in Model
  <2>1. /\ INITIAL_INTENT_STATE \in Intent /\ NoSign \in SignFlow /\ NoPoll \in PollState
    BY InitialIntentType, NoSignType, NoPollType
  <2>2. NoRefresh \in [on : BOOLEAN, amount : AmountField, hasAllocatedDeposit : BOOLEAN]
    BY DEF NoRefresh, AmountField
  <2>3. [wallet |-> None, upgrade |-> None, expiry |-> Never] \in Watched
    BY DEF Watched, OrNone, Times, Never
  <2>4. [t \in TimerName |-> Never] \in [TimerName -> Times]
    BY DEF Times, Never
  <2>5. None \in OrNone(Intents) /\ None \in OrNone(TradeKey) /\ "" \in AmountField
    BY DEF OrNone, AmountField
  <2>6. QED
    BY <2>1, <2>2, <2>3, <2>4, <2>5 DEF init, Model, Watched
<1>2. /\ x.flights = {} /\ x.asks = {} /\ x.allocs = {} /\ x.sign = NoSign /\ ~x.awaitingPull
      /\ x.pendingIntentSig = None /\ x.intent = INITIAL_INTENT_STATE
      /\ x.timers = [t \in TimerName |-> Never]
  BY DEF init
<1>3. /\ NoSign.stage = "none" /\ NoSign.resendAt = Never
      /\ INITIAL_INTENT_STATE.status = "idle" /\ ~INITIAL_INTENT_STATE.notSent
      /\ ~INITIAL_INTENT_STATE.mayHaveMoved
  BY DEF NoSign, INITIAL_INTENT_STATE
<1> HIDE DEF x
<1>4. Typed(x)
  BY <1>1, <1>2, FS_EmptySet DEF Typed
<1>5. ~armed(x, "signPrompt") /\ ~armed(x, "execute") /\ ~awaitingResend(x)
  BY <1>2, <1>3 DEF armed, awaitingResend, TimerName
<1>6. Good(x)
  BY <1>2, <1>3, <1>4, <1>5 DEF Good, CeremonySafe, VerdictsSafe, FlightsSafe, QUOTE_BUSY_STATES
<1>7. QED
  BY <1>6 DEF x

\* Forgetting the last event, and taking an answered call off the list.
LEMMA FreshGood ==
    ASSUME Good(m), NEW a
    PROVE  /\ Good(fresh) /\ fresh.intent = m.intent /\ fresh.timers = m.timers
           /\ Good(answered(a))
<1>1. /\ Typed(fresh) /\ KeepsCeremony(m, fresh) /\ fresh.intent = m.intent
      /\ fresh.flights = m.flights /\ fresh.timers = m.timers /\ fresh.asks = m.asks
  BY DEF fresh, Good, Typed, Model, KeepsCeremony
<1>2. Good(fresh)
  BY <1>1, GoodAgrees
<1> DEFINE z == answered(a)
<1>3. IsFiniteSet(fresh.asks \ {a})
  BY <1>1, FS_RemoveElement DEF Typed
<1>4. /\ Typed(z) /\ KeepsCeremony(fresh, z) /\ z.intent = fresh.intent
      /\ z.flights = fresh.flights /\ z.timers = fresh.timers
  BY <1>1, <1>3 DEF answered, Typed, Model, KeepsCeremony
<1> HIDE DEF z
<1>5. Good(z)
  BY <1>2, <1>4, GoodAgrees
<1>6. QED
  BY <1>1, <1>2, <1>5 DEF z

\* One update of a good model.
LEMMA UpdateInv ==
    ASSUME Inv, NEW x, Good(x), update(x)
    PROVE  Good(m') /\ now' \in Nat /\ dispatched' \subseteq Intents
<1>1. Good(settle(x, now))
  BY SettleGood DEF Inv
<1>2. QED
  BY <1>1 DEF update, Inv

\* A call standing is typed.
LEMMA AskTypes ==
    ASSUME Inv, NEW a \in m.asks
    PROVE  a \in Ask /\ a.attempt \in Nat /\ a.intentId \in OrNone(Intents)
           /\ a.read \in RowState \cup {"unread"}
<1>1. a \in Ask
  BY DEF Inv, Good, Typed, Model
<1>2. QED
  BY <1>1 DEF Ask

\* A row that can be read reads as a status update.
LEMMA ReadRowType ==
    ASSUME NEW st \in RowState \ {"none", "gone"}
    PROVE  LET r == readRow(st)
           IN  StatusUpdate(r) /\ r.kind = "data"
BY DEF readRow, StatusUpdate, RowState, Moved, IntentStatus

-----------------------------------------------------------------------------
\* The initial states satisfy the invariant.
LEMMA InitInv == Init => Inv
<1>1. SUFFICES ASSUME Init PROVE Inv
  OBVIOUS
<1>2. PICK c \in Contexts : m = settle(init(c), 0)
  BY <1>1 DEF Init
<1>3. Good(m)
  BY <1>2, InitGood, SettleGood, SystemConstants
<1>4. rows \in [Intents -> [st : RowState, deadline : Times]]
  BY <1>1 DEF Init, NoRow, RowState, Times
<1>5. QED
  BY <1>1, <1>3, <1>4 DEF Init, Inv

-----------------------------------------------------------------------------
(* Every action keeps the invariant. *)

\* Every message of the host keeps the invariant.
LEMMA HostInv ==
    ASSUME Inv, HostMessage
    PROVE  Inv'
<1> USE FreshGood
<1>0. Good(m) /\ Good(fresh) /\ now \in Nat
  BY DEF Inv
<1>1. CASE ContextChanged
  <2>1. PICK c \in Contexts : update(contextChanged(fresh, c))
    BY <1>1 DEF ContextChanged
  <2>2. Good(contextChanged(fresh, c))
    BY <1>0, SystemConstants, ContextChangedGood
  <2>3. QED
    BY <1>1, <2>1, <2>2, UpdateInv DEF ContextChanged, Inv
<1>2. CASE QuoteRequested
  <2>1. PICK amount \in Amounts : update(quoteRequested(fresh, amount))
    BY <1>2 DEF QuoteRequested
  <2>2. Good(quoteRequested(fresh, amount))
    BY <1>0, QuoteRequestedGood DEF AmountField
  <2>3. QED
    BY <1>2, <2>1, <2>2, UpdateInv DEF QuoteRequested, Inv
<1>3. CASE AmountCleared
  <2>1. PICK amount \in {"", "0"} : update(quoteRequested(fresh, amount))
    BY <1>3 DEF AmountCleared
  <2>2. Good(quoteRequested(fresh, amount))
    BY <1>0, QuoteRequestedGood DEF AmountField
  <2>3. m.intent.intentId \in OrNone(Intents)
    BY <1>0, FieldTypes
  <2>4. released' \subseteq OrNone(Intents)
    BY <1>3, <2>3 DEF AmountCleared, Inv
  <2>5. QED
    BY <1>3, <2>1, <2>2, <2>4, UpdateInv DEF AmountCleared, Inv
<1>4. CASE AllocateRequested
  BY <1>0, <1>4, AllocateRequestedGood, UpdateInv DEF AllocateRequested, Inv
<1>5. CASE RefreshRequested
  BY <1>0, <1>5, RefreshRequestedGood, UpdateInv DEF RefreshRequested, Inv
<1>6. CASE SignRequested
  BY <1>0, <1>6, BeginSignGood, UpdateInv DEF SignRequested, Inv
<1>7. CASE PullSignRequested
  BY <1>0, <1>7, BeginPullSignGood, UpdateInv DEF PullSignRequested, Inv
<1>8. CASE CancelSignRequested
  BY <1>0, <1>8, CancelSignRequestedGood, UpdateInv DEF CancelSignRequested, Inv
<1>9. CASE ResetRequested
  <2>1. m.intent.intentId \in OrNone(Intents)
    BY <1>0, FieldTypes
  <2>2. released' \subseteq OrNone(Intents)
    BY <1>9, <2>1 DEF ResetRequested, Inv, OrNone
  <2>3. QED
    BY <1>0, <1>9, <2>2, ResetRequestedGood, UpdateInv DEF ResetRequested, Inv
<1>10. CASE ResumeRequested
  <2> DEFINE record(i, owner) ==
                 LET st == rows[i].st
                 IN  [intentId |-> i, owner |-> owner, depositDeadline |-> Never,
                      marker |-> st = "not_executed",
                      status |-> IF st \in {"none", "quoted", "gone"} THEN "executing"
                                 ELSE readRow(st).status]
  <2>1. PICK i \in dispatched, owner \in Wallets : update(resumeRequested(fresh, record(i, owner)))
    BY <1>10 DEF ResumeRequested
  <2>2. Stored(record(i, owner))
    <3>1. i \in Intents /\ rows[i].st \in RowState
      BY DEF Inv
    <3>2. record(i, owner).status \in IntentStatus
      <4>1. CASE rows[i].st \in {"none", "quoted", "gone"}
        BY <4>1 DEF IntentStatus
      <4>2. CASE rows[i].st \notin {"none", "quoted", "gone"}
        BY <3>1, <4>2, ReadRowType DEF StatusUpdate
      <4>3. QED
        BY <4>1, <4>2
    <3>3. QED
      BY <3>1, <3>2 DEF Stored, Never, Times
  <2> HIDE DEF record
  <2>3. Good(resumeRequested(fresh, record(i, owner)))
    BY <1>0, <2>2, ResumeRequestedGood
  <2>4. QED
    BY <1>10, <2>1, <2>3, UpdateInv DEF ResumeRequested, Inv
<1>11. CASE VisibilityChanged
  <2>1. (~m.hidden) \in BOOLEAN
    OBVIOUS
  <2>2. Good(visibilityChanged(fresh, ~m.hidden, now))
    BY <1>0, <2>1, VisibilityChangedGood
  <2>3. QED
    BY <1>11, <2>2, UpdateInv DEF VisibilityChanged, Inv
<1>12. CASE StreamStatus
  <2>1. PICK i \in Intents, st \in RowState :
            /\ readRow(st).status \in POLL_INFLIGHT_STATES
            /\ update(streamStatus(fresh, i, readRow(st)))
    BY <1>12 DEF StreamStatus
  <2>2. st \notin {"none", "gone"}
    BY <2>1 DEF readRow, POLL_INFLIGHT_STATES
  <2>3. Good(streamStatus(fresh, i, readRow(st)))
    BY <1>0, <2>2, ReadRowType, StreamStatusGood
  <2>4. QED
    BY <1>12, <2>1, <2>3, UpdateInv DEF StreamStatus, Inv
<1>13. QED
  BY <1>1, <1>2, <1>3, <1>4, <1>5, <1>6, <1>7, <1>8, <1>9, <1>10, <1>11, <1>12
  DEF HostMessage

\* So does every timer.
LEMMA TimerInv ==
    ASSUME Inv, NEW t \in TimerName, TimerFired(t)
    PROVE  Inv'
<1> DEFINE again == CASE t = "poll" -> now + STATUS_POLL [] t = "expiry" -> AtOnce
                      [] OTHER -> Never
           x == onTimer(setTimer(fresh, t, again), t, now)
<1>1. Good(fresh) /\ armed(fresh, t)
  BY FreshGood DEF Inv, TimerFired, armed
<1>2. again \in Times /\ (t \in {"signPrompt", "execute"} => again = Never)
  <2>1. CASE t = "poll"
    BY <2>1, DecisionConstants DEF Inv, Times
  <2>2. CASE t = "expiry"
    BY <2>2 DEF AtOnce, Times
  <2>3. CASE t \notin {"poll", "expiry"}
    BY <2>3 DEF Never, Times
  <2>4. QED
    BY <2>1, <2>2, <2>3
<1>3. update(x) /\ UNCHANGED <<rows, released>>
  BY DEF TimerFired
<1>4. Good(x)
  <2> HIDE DEF again
  <2>1. QED BY <1>1, <1>2, OnTimerGood
<1> HIDE DEF x
<1>5. QED
  BY <1>3, <1>4, UpdateInv DEF Inv

\* The quote served under an id the Worker can issue, or under none.
LEMMA ServeType ==
    ASSUME Inv, NEW shape \in Shapes, NEW i \in OrNone(Intents)
    PROVE  serve(shape, i) \in Quote
<1>1. shape \in Shape /\ now \in Nat
  BY SystemConstants DEF Inv
<1>2. shape.ttl \in Nat /\ shape.slack \in Nat
  BY <1>1 DEF Shape
<1>3. now + shape.ttl \in Times /\ now + shape.ttl + shape.slack \in Times
  BY <1>1, <1>2 DEF Times
<1>4. QED
  BY <1>1, <1>3 DEF serve, Quote, Shape

\* So does every answer to a quote.
LEMMA QuoteInv ==
    ASSUME Inv, QuoteReplied
    PROVE  Inv'
<1>1. PICK a \in m.asks : QuoteThrew(a) \/ QuoteServed(a)
  BY DEF QuoteReplied
<1>2. Good(answered(a)) /\ now \in Nat
  BY FreshGood DEF Inv
<1>3. CASE QuoteThrew(a)
  <2> DEFINE reply == [threw |-> TRUE, quote |-> NoQuote]
  <2>1. reply.quote \in Quote
    BY NoQuoteType
  <2>2. update(onQuote(answered(a), a.id, reply, now)) /\ UNCHANGED <<rows, released>>
    BY <1>3 DEF QuoteThrew
  <2> HIDE DEF reply
  <2>3. Good(onQuote(answered(a), a.id, reply, now))
    BY <1>2, <2>1, OnQuoteGood
  <2>4. QED
    BY <2>2, <2>3, UpdateInv DEF Inv
<1>4. CASE QuoteServed(a)
  <2> DEFINE unused(shape) == IF shape.preview THEN {None} ELSE Intents \ idsInUse
             id(shape) == CHOOSE j \in unused(shape) : TRUE
             q(shape) == serve(shape, id(shape))
             row(shape) == [st |-> IF q(shape).address # None THEN "awaiting" ELSE "quoted",
                            deadline |-> q(shape).deadline]
             reply(shape) == [threw |-> FALSE, success |-> shape.success, quote |-> q(shape),
                              genuine |-> shape.genuine, matches |-> shape.matches,
                              attested |-> shape.attested]
  <2>1. PICK shape \in Shapes :
            /\ unused(shape) # {}
            /\ update(onQuote(answered(a), a.id, reply(shape), now))
            /\ rows' = IF id(shape) # None /\ m'.intent.intentId = id(shape)
                       THEN [rows EXCEPT ![id(shape)] = row(shape)] ELSE rows
            /\ UNCHANGED released
    BY <1>4, Zenon DEF QuoteServed
  <2>2. id(shape) \in OrNone(Intents)
    BY <2>1 DEF OrNone
  <2> HIDE DEF unused, id
  <2>3. q(shape) \in Quote
    BY <2>2, ServeType
  <2>4. reply(shape).quote \in Quote
    BY <2>3
  <2>5. row(shape) \in [st : RowState, deadline : Times]
    BY <2>3 DEF Quote, RowState
  <2> HIDE DEF q, reply, row
  <2>6. rows' \in [Intents -> [st : RowState, deadline : Times]]
    BY <2>1, <2>2, <2>5 DEF Inv, OrNone
  <2>7. Good(onQuote(answered(a), a.id, reply(shape), now))
    BY <1>2, <2>4, OnQuoteGood
  <2>8. QED
    BY <2>1, <2>6, <2>7, UpdateInv DEF Inv
<1>5. QED
  BY <1>1, <1>3, <1>4

\* So does every answer of the session, of the wallet and of an approval.
LEMMA WalletReplyInv ==
    ASSUME Inv, SessionReplied \/ SignReplied \/ ApprovalReplied
    PROVE  Inv'
<1>1. CASE SessionReplied
  <2>1. PICK a \in m.asks, result \in {"ok"} \cup ({"refused"} \cap Faults) :
            update(onSession(answered(a), a.id, result))
    BY <1>1 DEF SessionReplied
  <2>2. Good(onSession(answered(a), a.id, result))
    BY FreshGood, OnSessionGood DEF Inv
  <2>3. QED
    BY <1>1, <2>1, <2>2, UpdateInv DEF SessionReplied, Inv
<1>2. CASE SignReplied
  <2>1. PICK a \in m.asks, result \in {"ok"} \cup ({"rejected", "error"} \cap Faults) :
            \/ update(onSigned(answered(a), a.id, "intent", result, a.intentId))
            \/ update(onSigned(answered(a), a.id, "pull", result, a.intentId))
    BY <1>2 DEF SignReplied
  <2>2. a.intentId \in OrNone(Intents) /\ Good(answered(a))
    BY AskTypes, FreshGood DEF Inv
  <2>3. /\ Good(onSigned(answered(a), a.id, "intent", result, a.intentId))
        /\ Good(onSigned(answered(a), a.id, "pull", result, a.intentId))
    BY <2>2, OnSignedGood
  <2>4. QED
    BY <1>2, <2>1, <2>3, UpdateInv DEF SignReplied, Inv
<1>3. CASE ApprovalReplied
  <2>1. PICK a \in m.asks,
             result \in {"approved"} \cup ({"declined", "rejected", "error"} \cap Faults) :
            update(onApproval(answered(a), a.id, result))
    BY <1>3 DEF ApprovalReplied
  <2>2. Good(onApproval(answered(a), a.id, result))
    BY FreshGood, OnApprovalGood DEF Inv
  <2>3. QED
    BY <1>3, <2>1, <2>2, UpdateInv DEF ApprovalReplied, Inv
<1>4. QED
  BY <1>1, <1>2, <1>3

\* So does every answer to an execute.
LEMMA ExecuteInv ==
    ASSUME Inv, ExecuteReplied
    PROVE  Inv'
<1>1. PICK a \in m.asks :
          \E r \in executeAnswers(a.read) \cup {x \in {[kind |-> "threw"]} : "execute" \in Faults} :
              update(onExecuted(answered(a), a.id, r, now))
  BY DEF ExecuteReplied
<1>2. PICK r \in executeAnswers(a.read) \cup {x \in {[kind |-> "threw"]} : "execute" \in Faults} :
          update(onExecuted(answered(a), a.id, r, now))
  BY <1>1
<1>3. ExecuteReply(r)
  <2>1. CASE r = [kind |-> "threw"]
    BY <2>1 DEF ExecuteReply
  <2>2. CASE r \in executeAnswers(a.read)
    <3>1. ASSUME NEW s \in IntentStatus \ {"idle", "quoting"}, NEW b \in BOOLEAN,
                 NEW c \in BOOLEAN, NEW d \in BOOLEAN, NEW e \in BOOLEAN
          PROVE  ExecuteReply(response(s, b, c, d, e))
      BY DEF response, ExecuteReply
    <3>2. ASSUME NEW n \in Int PROVE ExecuteReply([kind |-> "notAccepted", retryAfter |-> n])
      BY DEF ExecuteReply
    <3>3. {"quoted", "executing", "failed", "bridging", "settling", "completed", "refunded"}
             \in SUBSET (IntentStatus \ {"idle", "quoting"})
      BY DEF IntentStatus
    <3>4. CASE a.read = "quoted"
      <4>1. \/ \E d \in RetryAfters : r = [kind |-> "notAccepted", retryAfter |-> now + d]
            \/ r = [kind |-> "notAccepted", retryAfter |-> Never]
            \/ r = response("quoted", FALSE, TRUE, FALSE, FALSE)
        BY <2>2, <3>4 DEF executeAnswers
      <4>2. Never \in Int /\ \A d \in RetryAfters : now + d \in Int
        BY SystemConstants DEF Inv, Never
      <4>3. QED
        BY <3>1, <3>2, <3>3, <4>1, <4>2
    <3>5. CASE a.read \in {"claimed", "executing"}
      <4>1. \/ r = response("executing", TRUE, FALSE, FALSE, FALSE)
            \/ r = response("failed", FALSE, TRUE, FALSE, FALSE)
            \/ r = response("executing", TRUE, FALSE, FALSE, TRUE)
        BY <2>2, <3>5 DEF executeAnswers
      <4>2. QED
        BY <3>1, <3>3, <4>1
    <3>6. CASE a.read \in {"bridging", "settling", "completed", "refunded"}
      <4>1. r = response(a.read, TRUE, FALSE, FALSE, FALSE)
        BY <2>2, <3>6 DEF executeAnswers
      <4>2. QED
        BY <3>1, <3>3, <3>6, <4>1
    <3>7. CASE a.read \in {"failed", "not_executed"}
      <4>1. r = response("failed", FALSE, FALSE, a.read = "not_executed", FALSE)
        BY <2>2, <3>7 DEF executeAnswers
      <4>2. QED
        BY <3>1, <3>3, <4>1
    <3>8. CASE a.read \notin {"quoted", "claimed", "executing", "bridging", "settling",
                              "completed", "refunded", "failed", "not_executed"}
      BY <2>2, <3>8 DEF executeAnswers
    <3>9. QED
      BY <3>4, <3>5, <3>6, <3>7, <3>8
  <2>3. QED
    BY <2>1, <2>2
<1>4. Good(onExecuted(answered(a), a.id, r, now))
  BY <1>3, FreshGood, OnExecutedGood DEF Inv
<1>5. QED
  BY <1>2, <1>4, UpdateInv DEF ExecuteReplied, Inv

\* So does every answer to a read.
LEMMA StatusInv ==
    ASSUME Inv, StatusReplied
    PROVE  Inv'
<1>1. PICK a \in m.asks : \E r \in statusAnswers(a.read) :
          update(onStatus(answered(a), a.id, a.attempt, r, now))
  BY DEF StatusReplied
<1>2. PICK r \in statusAnswers(a.read) : update(onStatus(answered(a), a.id, a.attempt, r, now))
  BY <1>1
<1>3. a.attempt \in Nat /\ a.read \in RowState \cup {"unread"}
  BY AskTypes
<1>4. r.kind = "data" => StatusUpdate(r)
  <2> DEFINE late == [readRow(a.read) EXCEPT !.status = "executing", !.unmapped = TRUE]
  <2>1. \/ r.kind # "data"
        \/ a.read \notin {"unread", "none", "gone"} /\ r = readRow(a.read)
        \/ a.read \in {"executing", "bridging", "settling"} /\ r = late
    BY DEF statusAnswers
  <2>2. a.read \notin {"unread", "none", "gone"} => StatusUpdate(readRow(a.read))
    BY <1>3, ReadRowType
  <2>3. a.read \in {"executing", "bridging", "settling"} => StatusUpdate(late)
    BY DEF readRow, StatusUpdate, IntentStatus
  <2>4. QED
    BY <2>1, <2>2, <2>3
<1>5. Good(onStatus(answered(a), a.id, a.attempt, r, now))
  BY <1>3, <1>4, FreshGood, OnStatusGood DEF Inv
<1>6. QED
  BY <1>2, <1>5, UpdateInv DEF StatusReplied, Inv

\* So does the Worker, on its own.
LEMMA WorkerInv ==
    ASSUME Inv, Worker
    PROVE  Inv'
<1>1. CASE WorkerAnswers
  <2> DEFINE row(a) == rows[a.intentId]
             finished(a) == /\ a.op = "status" /\ row(a).st = "quoted"
                            /\ now > row(a).deadline + QUOTED_EXPIRY_GRACE
             st(a) == IF finished(a) THEN "not_executed" ELSE row(a).st
             told(a) == [a EXCEPT !.read = st(a)]
             left(a) == (m.asks \ {a}) \cup {told(a)}
  <2>1. PICK a \in m.asks :
            /\ a.intentId \in Intents
            /\ m' = [m EXCEPT !.asks = left(a)]
            /\ rows' = [rows EXCEPT ![a.intentId].st = st(a)]
    BY <1>1 DEF WorkerAnswers
  <2>2. st(a) \in RowState
    BY <2>1 DEF Inv, RowState
  <2> HIDE DEF st
  <2>3. told(a) \in Ask
    BY <2>2, AskTypes DEF Ask
  <2> HIDE DEF told
  <2>4. left(a) \in SUBSET Ask /\ IsFiniteSet(left(a))
    <3>1. m.asks \in SUBSET Ask /\ IsFiniteSet(m.asks)
      BY DEF Inv, Good, Typed, Model
    <3>2. QED
      BY <2>3, <3>1, FS_RemoveElement, FS_AddElement
  <2> HIDE DEF left
  <2>5. /\ Typed(m') /\ KeepsCeremony(m, m') /\ m'.intent = m.intent
        /\ m'.flights = m.flights /\ m'.timers = m.timers
    BY <2>1, <2>4 DEF Inv, Good, Typed, Model, KeepsCeremony
  <2>6. Good(m')
    BY <2>5, GoodAgrees DEF Inv
  <2>7. rows' \in [Intents -> [st : RowState, deadline : Times]]
    BY <2>1, <2>2 DEF Inv
  <2>8. QED
    BY <1>1, <2>6, <2>7 DEF WorkerAnswers, Inv
<1>2. CASE WorkerClaims
  <2>1. rows' \in [Intents -> [st : RowState, deadline : Times]]
    BY <1>2 DEF WorkerClaims, Inv, RowState
  <2>2. QED
    BY <1>2, <2>1 DEF WorkerClaims, Inv
<1>3. CASE WorkerMoves
  <2>1. rows' \in [Intents -> [st : RowState, deadline : Times]]
    BY <1>3, SystemConstants DEF WorkerMoves, Inv
  <2>2. QED
    BY <1>3, <2>1 DEF WorkerMoves, Inv
<1>4. CASE WorkerSweeps
  <2>1. rows' \in [Intents -> [st : RowState, deadline : Times]]
    BY <1>4 DEF WorkerSweeps, Inv, RowState
  <2>2. QED
    BY <1>4, <2>1 DEF WorkerSweeps, Inv
<1>5. QED
  BY <1>1, <1>2, <1>3, <1>4 DEF Worker

\* The invariant is inductive.
LEMMA NextInv == Inv /\ [Next]_vars => Inv'
<1>1. SUFFICES ASSUME Inv, [Next]_vars PROVE Inv'
  OBVIOUS
<1>2. CASE HostMessage
  BY <1>1, <1>2, HostInv
<1>3. CASE Reply
  BY <1>1, <1>3, QuoteInv, WalletReplyInv, ExecuteInv, StatusInv DEF Reply
<1>4. CASE Worker
  BY <1>1, <1>4, WorkerInv
<1>5. CASE Tick
  BY <1>1, <1>5 DEF Tick, Inv
<1>6. CASE \E t \in TimerName : TimerFired(t)
  BY <1>1, <1>6, TimerInv
<1>7. CASE UNCHANGED vars
  BY <1>1, <1>7 DEF vars, Inv
<1>8. QED
  BY <1>1, <1>2, <1>3, <1>4, <1>5, <1>6, <1>7 DEF Next

\* The invariant holds throughout.
LEMMA Invariance == Spec => []Inv
BY InitInv, NextInv, PTL DEF Spec

-----------------------------------------------------------------------------
(* What it gives. *)

\* Every field of the model, the rows and the host's bookkeeping keep their
\* types through every message of machine.ts.
THEOREM TypeCorrect == Spec => []TypeOK
<1>1. Inv => TypeOK
  BY DEF Inv, TypeOK, Good, Typed
<1>2. QED
  BY <1>1, Invariance, PTL

\* No interleaving of prompts, taps, timers, edits and replies leaves a sign
\* flow, a held signature or a ceremony timer behind its ceremony.
THEOREM CeremonyTheorem == Spec => []CeremonyConsistent
<1>1. Inv => CeremonyConsistent
  BY DEF Inv, Good, CeremonySafe, CeremonyConsistent
<1>2. QED
  BY <1>1, Invariance, PTL

\* "Not sent yet" is only said of an executing order this client has no request
\* out for, and "may have moved" only of a failed one.
THEOREM VerdictsTheorem == Spec => []VerdictsConsistent
<1>1. Inv => VerdictsConsistent
  BY DEF Inv, Good, VerdictsSafe, VerdictsConsistent
<1>2. QED
  BY <1>1, Invariance, PTL

\* No quote is in the air while there is a ceremony, an order in flight or an
\* order that may have moved: none can land over it.
THEOREM FlightsTheorem == Spec => []NoFlightOverOrder
<1>1. Inv => NoFlightOverOrder
  BY DEF Inv, Good, FlightsSafe, NoFlightOverOrder, busy
<1>2. QED
  BY <1>1, Invariance, PTL

-----------------------------------------------------------------------------
(***************************************************************************)
(* "May have moved" is left by Reset only.  Of an order that may have      *)
(* moved the invariant says that it has failed, with no ceremony and no    *)
(* quote in the air; a poll is armed for an order in flight only, so there *)
(* is none either, and nothing that arrives finds the order it is about.   *)
(***************************************************************************)

\* A poll is armed for an order in flight.
PollFits(x) == x.poll.live => x.intent.status \in POLL_INFLIGHT_STATES

\* An order that may have moved, and nothing under way.
MovedRest(x) == Good(x) /\ x.intent.mayHaveMoved /\ ~x.poll.live

\* What is known of it.
LEMMA MovedFacts ==
    ASSUME NEW x, Good(x), x.intent.mayHaveMoved
    PROVE  /\ x.intent.status = "failed" /\ x.flights = {} /\ x.sign.stage = "none"
           /\ x.pendingIntentSig = None /\ ~awaitingResend(x) /\ ~x.intent.notSent
           /\ heldUntilReset(x.intent) /\ survivesClearedAmount(x.intent)
<1>1. x.intent.status = "failed" /\ x.flights = {}
  BY DEF Good, VerdictsSafe, FlightsSafe
<1>2. x.intent.status \notin QUOTE_BUSY_STATES
  BY <1>1 DEF QUOTE_BUSY_STATES
<1> QED BY <1>1, <1>2, AtRest DEF heldUntilReset, survivesClearedAmount

\* No status but a new quote follows a failure.
LEMMA FailedEnds ==
    ASSUME NEW x, NEW to \in IntentStatus \ {"idle", "quoting"}, NEW u,
           x.intent.status = "failed"
    PROVE  transition(x, to, u) = x
<1>1. ~canTransitionTo("failed", to)
  BY DEF canTransitionTo, INTENT_STATUS_TRANSITIONS
<1> QED BY <1>1 DEF transition

-----------------------------------------------------------------------------
(* The reactive rules. *)

\* What EXCEPT does to one field of what turns out to be a model.
LEMMA ExceptPoll ==
    ASSUME NEW c, NEW v, [c EXCEPT !.poll = v] \in Model
    PROVE  LET y == [c EXCEPT !.poll = v]
           IN  y.poll = v /\ y.intent = c.intent /\ DOMAIN c = DOMAIN y
<1> DEFINE y == [c EXCEPT !.poll = v]
<1>1. DOMAIN y = DOMAIN c /\ y \in Model
  OBVIOUS
<1>2. y = [k \in DOMAIN c |-> IF k = "poll" THEN v ELSE c[k]]
  OBVIOUS
<1> HIDE DEF y
<1>3. "poll" \in DOMAIN y /\ "intent" \in DOMAIN y
  BY <1>1 DEF Model
<1> QED BY <1>1, <1>2, <1>3 DEF y

\* The rule that arms the poll fits it to the order, whatever it is given.
LEMMA ArmPollFits ==
    ASSUME NEW x, NEW n, armPoll(x, n) \in Model
    PROVE  PollFits(armPoll(x, n))
<1> DEFINE y == armPoll(x, n)
           i == x.intent
           k == pollCeilingAttempts(i.status, i.depositDeadline, n, unexecutedFinishAt(i.quote))
           poll == [NoPoll EXCEPT !.live = TRUE, !.intentId = i.intentId, !.phase = i.status,
                                  !.resend = awaitingResend(x), !.gen = nextId(x), !.max = k]
           quiet == clearTimer(x, "poll")
           timed == setTimer(x, "poll", n + STATUS_POLL)
           next == [timed EXCEPT !.poll = poll]
           due == /\ ~(x.sign.stage = "execute" /\ ~awaitingResend(x))
                  /\ i.status \in POLL_INFLIGHT_STATES /\ i.intentId # None
<1>1. \/ y = x /\ due = x.poll.live
      \/ y = [quiet EXCEPT !.poll = NoPoll]
      \/ due /\ (y = next \/ y = pollTick(next, FALSE))
  BY DEF armPoll
<1>2. y \in Model /\ "intent" \in DOMAIN y
  BY DEF Model
<1>3. due => i.status \in POLL_INFLIGHT_STATES
  OBVIOUS
<1> HIDE DEF y, due, k, poll
<1>4. CASE y = x /\ due = x.poll.live
  BY <1>3, <1>4 DEF PollFits, y
<1>5. CASE y = [quiet EXCEPT !.poll = NoPoll]
  <2>1. y.poll = NoPoll
    <3> HIDE DEF quiet
    <3> QED BY <1>2, <1>5, ExceptPoll
  <2> QED BY <2>1 DEF PollFits, NoPoll, y
<1>6. CASE due /\ y = next
  <2>1. y.intent = timed.intent /\ DOMAIN timed = DOMAIN y
    <3> HIDE DEF timed
    <3> QED BY <1>2, <1>6, ExceptPoll
  <2>2. timed.intent = x.intent
    BY <1>2, <2>1 DEF setTimer
  <2> QED BY <1>3, <1>6, <2>1, <2>2 DEF PollFits, y
<1>7. CASE due /\ y = pollTick(next, FALSE)
  <2> DEFINE called(z) == perform(z, [NoAsk EXCEPT !.op = "status", !.id = z.poll.gen,
                                        !.intentId = z.poll.intentId,
                                        !.attempt = z.poll.polls + 1])
             poll2(z) == [z.poll EXCEPT !.polls = @ + 1]
             ticked(z) == [called(z) EXCEPT !.poll = [z.poll EXCEPT !.polls = @ + 1,
                                                                    !.spent = @]]
  <2>1. y = next \/ y = ticked(next)
    BY <1>7, Zenon DEF pollTick
  <2>2. CASE y = ticked(next)
    <3>1. y.intent = called(next).intent /\ DOMAIN called(next) = DOMAIN y
      <4> HIDE DEF called, next
      <4> QED BY <1>2, <2>2, ExceptPoll
    <3>2. called(next).intent = next.intent /\ DOMAIN next = DOMAIN y
      <4> HIDE DEF next
      <4> QED BY <1>2, <3>1 DEF perform
    <3>3. next.intent = timed.intent /\ DOMAIN timed = DOMAIN y
      <4> HIDE DEF timed
      <4> QED BY <1>2, <3>2
    <3>4. timed.intent = x.intent
      BY <1>2, <3>3 DEF setTimer
    <3> QED BY <1>3, <1>7, <3>1, <3>2, <3>3, <3>4 DEF PollFits, y
  <2> QED BY <1>6, <1>7, <2>1, <2>2
<1> QED BY <1>1, <1>4, <1>5, <1>6, <1>7

\* So do the rules together.
LEMMA SettleFits ==
    ASSUME NEW x, NEW n, settle(x, n) \in Model
    PROVE  PollFits(settle(x, n))
<1>1. PICK z : settle(x, n) = settlePass(z, n)
  BY Zenon DEF settle
<1>2. PICK c : settlePass(z, n) = armPoll(c, n)
  BY Zenon DEF settlePass
<1> QED BY <1>1, <1>2, ArmPollFits

\* Arming the poll leaves the order alone.
LEMMA ArmPollMoved ==
    ASSUME NEW x, Good(x), NEW n \in Nat
    PROVE  armPoll(x, n).intent = x.intent
<1> DEFINE y == armPoll(x, n)
           i == x.intent
           k == pollCeilingAttempts(i.status, i.depositDeadline, n, unexecutedFinishAt(i.quote))
           poll == [NoPoll EXCEPT !.live = TRUE, !.intentId = i.intentId, !.phase = i.status,
                                  !.resend = awaitingResend(x), !.gen = nextId(x), !.max = k]
           quiet == clearTimer(x, "poll")
           timed == setTimer(x, "poll", n + STATUS_POLL)
           next == [timed EXCEPT !.poll = poll]
           off == [quiet EXCEPT !.poll = NoPoll]
<1>1. y \in {x, off, next, pollTick(next, FALSE)}
  BY DEF armPoll
<1> HIDE DEF y
<1>2. off.intent = i /\ next.intent = i
  BY DEF clearTimer, setTimer, Good, Typed, Model
<1>3. pollTick(next, FALSE).intent = next.intent
  <2>1. timed \in Model
    BY DecisionConstants DEF setTimer, Good, Typed, Model, Times
  <2> HIDE DEF timed, poll
  <2> QED BY <2>1 DEF pollTick, perform, Model
<1> HIDE DEF off, next
<1> QED BY <1>1, <1>2, <1>3 DEF y

\* No rule touches an order that may have moved.
LEMMA PassMoved ==
    ASSUME NEW x, Good(x), NEW n \in Nat
    PROVE  LET y == settlePass(x, n)
           IN  Good(y) /\ (x.intent.mayHaveMoved => y.intent = x.intent)
<1> DEFINE a == watchWallet(x)
           b == upgradePreview(a)
           c == armExpiry(b, n)
<1>1. Good(a) /\ (x.intent.mayHaveMoved => a.intent = x.intent)
  <2> DEFINE key == [address |-> x.ctx.address, chainId |-> x.ctx.chainId,
                     quotedAddress |-> x.intent.quotedAddress,
                     quotedChainId |-> x.intent.quotedChainId]
             next == [x EXCEPT !.watched.wallet = key]
  <2>1. x.intent.mayHaveMoved => a = x \/ a = next
    BY Zenon DEF watchWallet
  <2>2. next.intent = x.intent
    BY DEF Good, Typed, Model
  <2> HIDE DEF next, a
  <2>3. Good(a)
    BY WatchWalletGood DEF a
  <2> QED BY <2>1, <2>2, <2>3
<1> HIDE DEF a
<1>2. Good(b) /\ (a.intent.mayHaveMoved => b.intent = a.intent)
  <2>1. ASSUME a.intent.mayHaveMoved PROVE b.intent = a.intent
    <3>1. a.intent.status # "quoted"
      BY <1>1, <2>1, MovedFacts
    <3> DEFINE key == [trade |-> tradeKey(a.ctx), amount |-> a.amount,
                       preview |-> a.intent.quote.preview, status |-> a.intent.status]
               next == [a EXCEPT !.watched.upgrade = key]
    <3>2. b = a \/ b = next
      BY <3>1, Zenon DEF upgradePreview, shouldUpgradePreviewQuote
    <3>3. next.intent = a.intent
      BY <1>1 DEF Good, Typed, Model
    <3> HIDE DEF next, b
    <3> QED BY <3>2, <3>3
  <2> QED BY <1>1, <2>1, UpgradePreviewGood
<1> HIDE DEF b
<1>3. Good(c) /\ (b.intent.mayHaveMoved => c.intent = b.intent)
  <2>1. ASSUME b.intent.mayHaveMoved PROVE c.intent = b.intent
    <3>1. b.intent.status # "quoted"
      BY <1>2, <2>1, MovedFacts
    <3> DEFINE next == [b EXCEPT !.watched.expiry = Never, !.timers["expiry"] = Never]
    <3>2. c = b \/ c = next
      BY <3>1 DEF armExpiry
    <3>3. next.intent = b.intent
      BY <1>2 DEF Good, Typed, Model
    <3> HIDE DEF next, c
    <3> QED BY <3>2, <3>3
  <2> QED BY <1>2, <2>1, ArmExpiryGood
<1> HIDE DEF c
<1>4. armPoll(c, n).intent = c.intent /\ Good(armPoll(c, n))
  BY <1>3, ArmPollMoved, ArmPollGood
<1> QED BY <1>1, <1>2, <1>3, <1>4 DEF settlePass, a, b, c

\* Neither do the rules together.
LEMMA SettleMoved ==
    ASSUME NEW x, Good(x), NEW n \in Nat
    PROVE  LET y == settle(x, n)
           IN  x.intent.mayHaveMoved => y.intent = x.intent
<1> DEFINE p1 == settlePass(x, n)
           p2 == settlePass(p1, n)
           p3 == settlePass(p2, n)
           p4 == settlePass(p3, n)
<1>1. Good(p1) /\ (x.intent.mayHaveMoved => p1.intent = x.intent)
  BY PassMoved
<1> HIDE DEF p1
<1>2. Good(p2) /\ (p1.intent.mayHaveMoved => p2.intent = p1.intent)
  BY <1>1, PassMoved
<1> HIDE DEF p2
<1>3. Good(p3) /\ (p2.intent.mayHaveMoved => p3.intent = p2.intent)
  BY <1>2, PassMoved
<1> HIDE DEF p3
<1>4. p3.intent.mayHaveMoved => p4.intent = p3.intent
  BY <1>3, PassMoved
<1> HIDE DEF p4
<1>5. settle(x, n) = p1 \/ settle(x, n) = p4
  BY DEF settle, p1, p2, p3, p4
<1> QED BY <1>1, <1>2, <1>3, <1>4, <1>5

-----------------------------------------------------------------------------
(* The messages.  None but Reset changes an order that may have moved. *)

\* Starting a quote is refused.
LEMMA StartQuoteHeld ==
    ASSUME NEW x \in Model, heldUntilReset(x.intent), NEW opts
    PROVE  startQuote(x, opts).intent = x.intent
<1>1. startQuote(x, opts) = endAllocation(x, opts.ref, FALSE)
  BY DEF startQuote
<1>2. endAllocation(x, opts.ref, FALSE).intent = x.intent
  BY DEF endAllocation, Model
<1> QED BY <1>1, <1>2

\* The form and the wallet.
LEMMA ContextMoved ==
    ASSUME NEW x, MovedRest(x), NEW c \in Context
    PROVE  contextChanged(x, c).intent = x.intent
<1>1. x.flights = {}
  BY MovedFacts DEF MovedRest
<1>2. contextChanged(x, c) = [x EXCEPT !.ctx = c]
  BY <1>1, Zenon DEF contextChanged
<1> QED BY <1>2 DEF MovedRest, Good, Typed, Model

\* An edited or emptied amount.
LEMMA QuoteRequestedMoved ==
    ASSUME NEW x, MovedRest(x), NEW amount \in AmountField
    PROVE  quoteRequested(x, amount).intent = x.intent
<1> DEFINE c == clearTimer(x, "debounce")
           quiet == clearTimer(c, "refresh")
           over == supersedeFlights(quiet)
           kept == IF amount = x.amount THEN quiet ELSE over
           next == [kept EXCEPT !.amount = amount, !.refresh = NoRefresh]
           timed == setTimer(next, "debounce", AtOnce)
<1>1. quoteRequested(x, amount) = timed \/ quoteRequested(x, amount) = next
  <2>1. survivesClearedAmount(x.intent)
    BY MovedFacts DEF MovedRest
  <2> QED BY <2>1 DEF quoteRequested
<1>2. Typed(quiet) /\ quiet.intent = x.intent
  <2>1. Typed(x) /\ "debounce" \in TimerName /\ "refresh" \in TimerName
    BY DEF MovedRest, Good, TimerName
  <2>2. Typed(c) /\ c.intent = x.intent
    BY <2>1, ClearTimerFrame
  <2> HIDE DEF c
  <2> QED BY <2>1, <2>2, ClearTimerFrame
<1> HIDE DEF quiet
<1>3. over.intent = quiet.intent /\ over \in Model /\ quiet \in Model
  BY <1>2, SupersedeFrame DEF Typed
<1> HIDE DEF over
<1>4. kept \in Model /\ kept.intent = x.intent
  BY <1>2, <1>3
<1> HIDE DEF kept
<1>5. next.intent = x.intent
  BY <1>4 DEF Model
<1>6. timed.intent = next.intent
  <2>1. next \in Model
    BY <1>4, FieldTypes DEF Model, NoRefresh, AmountField
  <2> HIDE DEF next
  <2> QED BY <2>1 DEF setTimer, Model
<1> HIDE DEF timed, next
<1> QED BY <1>1, <1>5, <1>6

\* An allocation, a refresh, a Confirm, the second tap, a Cancel and a Resume.
LEMMA RequestsMoved ==
    ASSUME NEW x, MovedRest(x), NEW n, NEW stored
    PROVE  /\ allocateRequested(x).intent = x.intent
           /\ refreshRequested(x).intent = x.intent
           /\ beginSign(x, n).intent = x.intent
           /\ beginPullSign(x, n).intent = x.intent
           /\ cancelSignRequested(x).intent = x.intent
           /\ resumeRequested(x, stored).intent = x.intent
<1>1. /\ x.intent.status = "failed" /\ x.pendingIntentSig = None /\ heldUntilReset(x.intent)
  BY MovedFacts DEF MovedRest
<1>2. allocateRequested(x).intent = x.intent
  <2>1. allocationRefused(x)
    BY <1>1 DEF allocationRefused, ALLOCATABLE_STATES
  <2>2. allocateRequested(x) = [x EXCEPT !.event = "refused"]
    BY <2>1, Zenon DEF allocateRequested
  <2> QED BY <2>2 DEF MovedRest, Good, Typed, Model
<1>3. refreshRequested(x).intent = x.intent
  <2>1. startQuote(x, quoteOpts(x.amount)).intent = x.intent
    BY <1>1, StartQuoteHeld DEF MovedRest, Good, Typed
  <2> QED BY <2>1, Zenon DEF refreshRequested
<1>4. beginSign(x, n) = x
  BY <1>1, Zenon DEF beginSign, canSignQuote
<1>5. beginPullSign(x, n) = x
  BY <1>1, Zenon DEF beginPullSign
<1>6. cancelSignRequested(x) = x
  BY <1>1, Zenon DEF cancelSignRequested
<1>7. resumeRequested(x, stored) = x
  BY <1>1, Zenon DEF resumeRequested, canAdoptResumedIntent
<1> QED BY <1>2, <1>3, <1>4, <1>5, <1>6, <1>7

\* A tab hidden or shown again.
LEMMA VisibilityMoved ==
    ASSUME NEW x, MovedRest(x), NEW hidden \in BOOLEAN, NEW n
    PROVE  visibilityChanged(x, hidden, n).intent = x.intent
<1> DEFINE seen == [x EXCEPT !.hidden = hidden]
<1>1. x.intent.status = "failed" /\ ~awaitingResend(x) /\ ~x.poll.live
  BY MovedFacts DEF MovedRest
<1>2. /\ seen.intent = x.intent /\ seen.sign = x.sign /\ seen.poll = x.poll
  BY DEF MovedRest, Good, Typed, Model
<1>3. ~shouldRefreshOnReturn(x.intent.status, x.ctx.paused, x.intent.quote.address # None)
  BY <1>1 DEF shouldRefreshOnReturn
<1>4. ~awaitingResend(seen) /\ ~seen.poll.live
  BY <1>1, <1>2 DEF awaitingResend
<1>5. pollTick(seen, FALSE) = seen
  BY <1>4 DEF pollTick
<1>6. visibilityChanged(x, hidden, n) = IF hidden THEN seen ELSE pollTick(seen, FALSE)
  BY <1>3, <1>4, Zenon DEF visibilityChanged
<1> QED BY <1>2, <1>5, <1>6

\* A late frame of the stream.
LEMMA StreamMoved ==
    ASSUME NEW x, MovedRest(x), NEW i, NEW u, u.status \in POLL_INFLIGHT_STATES
    PROVE  streamStatus(x, i, u).intent = x.intent
<1>1. x.intent.status = "failed" /\ ~x.intent.notSent
  BY MovedFacts DEF MovedRest
<1>2. /\ u.status \in IntentStatus \ {"idle", "quoting"} /\ u.status # "failed"
      /\ "failed" \notin POLL_INFLIGHT_STATES
  BY DEF POLL_INFLIGHT_STATES, IntentStatus
<1>3. transition(x, u.status, mapStatusUpdate(x.intent, u)) = x
  BY <1>1, <1>2, FailedEnds
<1>4. applyStatusUpdate(x, u) = x
  BY <1>1, <1>2, <1>3, Zenon DEF applyStatusUpdate
<1> QED BY <1>4 DEF streamStatus

\* A timer.
LEMMA TimerMoved ==
    ASSUME NEW x, MovedRest(x), NEW t \in TimerName, NEW n
    PROVE  onTimer(x, t, n).intent = x.intent
<1> DEFINE next == [x EXCEPT !.refresh = NoRefresh]
           opts == [quoteOpts(x.refresh.amount) EXCEPT !.silent = x.ctx.paused]
<1>1. /\ x.intent.status = "failed" /\ ~awaitingResend(x) /\ ~x.poll.live
      /\ x.sign.stage = "none" /\ heldUntilReset(x.intent)
  BY MovedFacts DEF MovedRest
<1>2. next.intent = x.intent /\ next \in Model
  BY DEF MovedRest, Good, Typed, Model, NoRefresh, AmountField
<1>3. startQuote(next, opts).intent = x.intent
  <2> HIDE DEF next, opts
  <2> QED BY <1>1, <1>2, StartQuoteHeld
<1>4. refreshRequested(x).intent = x.intent
  BY RequestsMoved
<1>5. tickExpiry(x, n) = x
  <2>1. transition(x, "expired", x.intent) = x
    BY <1>1, FailedEnds DEF IntentStatus
  <2> QED BY <2>1 DEF tickExpiry
<1>6. signFlowFailed(x, "timeout") = x
  BY <1>1, Zenon DEF signFlowFailed
<1>7. resendExecute(x, n) = x
  BY <1>1, Zenon DEF resendExecute
<1>8. CASE t = "debounce"
  BY <1>4, <1>8 DEF onTimer
<1>9. CASE t = "refresh"
  <2>1. onTimer(x, t, n) \in {x, next, startQuote(next, opts)}
    BY <1>9 DEF onTimer
  <2> HIDE DEF next, opts
  <2> QED BY <1>2, <1>3, <2>1
<1>10. CASE t = "expiry"
  BY <1>5, <1>10 DEF onTimer
<1>11. CASE t = "poll"
  BY <1>1, <1>11 DEF onTimer
<1>12. CASE t = "signPrompt"
  BY <1>6, <1>12 DEF onTimer
<1>13. CASE t = "execute"
  BY <1>7, <1>13 DEF onTimer
<1> QED BY <1>8, <1>9, <1>10, <1>11, <1>12, <1>13 DEF TimerName

\* An answer: nothing that was asked is still waited for.
LEMMA RepliesMoved ==
    ASSUME NEW x, MovedRest(x), NEW id, NEW r, NEW n, NEW signed
    PROVE  /\ onQuote(x, id, r, n) = x
           /\ onSession(x, id, r) = x
           /\ onSigned(x, id, "intent", r, signed) = x
           /\ onSigned(x, id, "pull", r, signed) = x
           /\ onApproval(x, id, r) = x
           /\ onExecuted(x, id, r, n) = x
           /\ \A attempt : onStatus(x, id, attempt, r, n) = x
<1>1. x.flights = {} /\ x.sign.stage = "none" /\ ~x.poll.live
  BY MovedFacts DEF MovedRest
<1>2. onQuote(x, id, r, n) = x
  <2>1. {f \in x.flights : f.id = id /\ f.stage = "api"} = {}
    BY <1>1
  <2> QED BY <2>1, Zenon DEF onQuote
<1>3. onSession(x, id, r) = x
  <2>1. {f \in x.flights : f.id = id /\ f.stage = "session"} = {}
    BY <1>1
  <2> QED BY <2>1, Zenon DEF onSession
<1>4. /\ onSigned(x, id, "intent", r, signed) = x
      /\ onSigned(x, id, "pull", r, signed) = x
  BY <1>1, Zenon DEF onSigned
<1>5. onApproval(x, id, r) = x
  BY <1>1, Zenon DEF onApproval
<1>6. onExecuted(x, id, r, n) = x
  BY <1>1, Zenon DEF onExecuted
<1>7. \A attempt : onStatus(x, id, attempt, r, n) = x
  <2> TAKE attempt
  <2> QED BY <1>1, Zenon DEF onStatus
<1> QED BY <1>2, <1>3, <1>4, <1>5, <1>6, <1>7

-----------------------------------------------------------------------------
(* The steps. *)

\* An update by a handler that leaves the order alone leaves it alone.
LEMMA UpdateMoved ==
    ASSUME m.intent.mayHaveMoved, now \in Nat, NEW x, Good(x), x.intent = m.intent, update(x)
    PROVE  m'.intent = m.intent
<1>1. m' = settle(x, now)
  BY DEF update
<1> QED BY <1>1, SettleMoved

\* What an order that may have moved is before a message, and before an answer.
LEMMA FreshMoved ==
    ASSUME Good(m), NEW a
    PROVE  /\ fresh.intent = m.intent /\ fresh.poll = m.poll
           /\ answered(a).intent = m.intent /\ answered(a).poll = m.poll
BY DEF Good, Typed, Model, fresh, answered

\* A message of the host other than Reset.
LEMMA HostMoved ==
    ASSUME Inv, PollFits(m), m.intent.mayHaveMoved, HostMessage
    PROVE  ResetRequested \/ m'.intent = m.intent
<1>1. /\ Good(fresh) /\ MovedRest(fresh) /\ fresh.intent = m.intent /\ now \in Nat
  <2>1. ~m.poll.live
    BY MovedFacts DEF Inv, PollFits, POLL_INFLIGHT_STATES
  <2> QED BY <2>1, FreshGood, FreshMoved DEF Inv, MovedRest
<1>2. CASE ContextChanged
  <2>1. PICK c \in Contexts : update(contextChanged(fresh, c))
    BY <1>2 DEF ContextChanged
  <2>2. c \in Context
    BY SystemConstants
  <2>3. /\ contextChanged(fresh, c).intent = m.intent
        /\ Good(contextChanged(fresh, c))
    BY <1>1, <2>2, ContextMoved, ContextChangedGood
  <2> QED BY <1>1, <2>1, <2>3, UpdateMoved
<1>3. CASE QuoteRequested \/ AmountCleared
  <2>1. PICK amount \in AmountField : update(quoteRequested(fresh, amount))
    BY <1>3 DEF QuoteRequested, AmountCleared, AmountField
  <2>2. /\ quoteRequested(fresh, amount).intent = m.intent
        /\ Good(quoteRequested(fresh, amount))
    BY <1>1, QuoteRequestedMoved, QuoteRequestedGood
  <2> QED BY <1>1, <2>1, <2>2, UpdateMoved
<1>4. CASE AllocateRequested
  <2>1. /\ update(allocateRequested(fresh)) /\ Good(allocateRequested(fresh))
        /\ allocateRequested(fresh).intent = m.intent
    BY <1>1, <1>4, RequestsMoved, AllocateRequestedGood DEF AllocateRequested
  <2> QED BY <1>1, <2>1, UpdateMoved
<1>5. CASE RefreshRequested
  <2>1. /\ update(refreshRequested(fresh)) /\ Good(refreshRequested(fresh))
        /\ refreshRequested(fresh).intent = m.intent
    BY <1>1, <1>5, RequestsMoved, RefreshRequestedGood DEF RefreshRequested
  <2> QED BY <1>1, <2>1, UpdateMoved
<1>6. CASE SignRequested
  <2>1. /\ update(beginSign(fresh, now)) /\ Good(beginSign(fresh, now))
        /\ beginSign(fresh, now).intent = m.intent
    BY <1>1, <1>6, RequestsMoved, BeginSignGood DEF SignRequested
  <2> QED BY <1>1, <2>1, UpdateMoved
<1>7. CASE PullSignRequested
  <2>1. /\ update(beginPullSign(fresh, now)) /\ Good(beginPullSign(fresh, now))
        /\ beginPullSign(fresh, now).intent = m.intent
    BY <1>1, <1>7, RequestsMoved, BeginPullSignGood DEF PullSignRequested
  <2> QED BY <1>1, <2>1, UpdateMoved
<1>8. CASE CancelSignRequested
  <2>1. /\ update(cancelSignRequested(fresh)) /\ Good(cancelSignRequested(fresh))
        /\ cancelSignRequested(fresh).intent = m.intent
    BY <1>1, <1>8, RequestsMoved, CancelSignRequestedGood DEF CancelSignRequested
  <2> QED BY <1>1, <2>1, UpdateMoved
<1>9. CASE ResumeRequested
  <2>1. PICK stored : update(resumeRequested(fresh, stored))
    BY <1>9 DEF ResumeRequested
  <2>2. resumeRequested(fresh, stored) = fresh
    <3>1. fresh.intent.status = "failed"
      BY <1>1, MovedFacts DEF MovedRest
    <3> QED BY <3>1, Zenon DEF resumeRequested, canAdoptResumedIntent
  <2> QED BY <1>1, <2>1, <2>2, UpdateMoved
<1>10. CASE VisibilityChanged
  <2> DEFINE hidden == ~m.hidden
             x == visibilityChanged(fresh, hidden, now)
  <2>1. update(x)
    BY <1>10 DEF VisibilityChanged
  <2>2. hidden \in BOOLEAN
    OBVIOUS
  <2> HIDE DEF hidden
  <2>3. Good(x) /\ x.intent = m.intent
    BY <1>1, <2>2, VisibilityMoved, VisibilityChangedGood
  <2> HIDE DEF x
  <2> QED BY <1>1, <2>1, <2>3, UpdateMoved
<1>11. CASE StreamStatus
  <2>1. PICK i \in Intents, st \in RowState :
            /\ readRow(st).status \in POLL_INFLIGHT_STATES
            /\ update(streamStatus(fresh, i, readRow(st)))
    BY <1>11 DEF StreamStatus
  <2>2. st \notin {"none", "gone"}
    BY <2>1 DEF readRow, POLL_INFLIGHT_STATES
  <2>3. /\ Good(streamStatus(fresh, i, readRow(st)))
        /\ streamStatus(fresh, i, readRow(st)).intent = m.intent
    BY <1>1, <2>1, <2>2, ReadRowType, StreamStatusGood, StreamMoved
  <2> QED BY <1>1, <2>1, <2>3, UpdateMoved
<1> QED BY <1>2, <1>3, <1>4, <1>5, <1>6, <1>7, <1>8, <1>9, <1>10, <1>11 DEF HostMessage

\* A timer.
LEMMA FiredMoved ==
    ASSUME Inv, PollFits(m), m.intent.mayHaveMoved, NEW t \in TimerName, TimerFired(t)
    PROVE  m'.intent = m.intent
<1> DEFINE again == CASE t = "poll" -> now + STATUS_POLL [] t = "expiry" -> AtOnce
                      [] OTHER -> Never
           z == setTimer(fresh, t, again)
           x == onTimer(z, t, now)
<1>1. update(x)
  BY DEF TimerFired
<1>2. Good(fresh) /\ ~m.poll.live /\ now \in Nat
  BY FreshGood, MovedFacts DEF Inv, PollFits, POLL_INFLIGHT_STATES
<1>3. armed(fresh, t) /\ ~armed(fresh, "signPrompt") /\ ~armed(fresh, "execute")
  <2>1. fresh.intent.status \notin QUOTE_BUSY_STATES
    BY MovedFacts, FreshMoved DEF Inv, QUOTE_BUSY_STATES
  <2>2. ~armed(fresh, "signPrompt") /\ ~armed(fresh, "execute")
    BY <1>2, <2>1, AtRest
  <2> QED BY <2>2, FreshGood DEF Inv, TimerFired, armed
<1>4. again \in Times
  BY DecisionConstants DEF Inv, AtOnce, Never, Times
<1> HIDE DEF again
<1>5. /\ Good(z) /\ z.intent = m.intent /\ z.poll = m.poll
  <2>1. t \in TimerName \ {"signPrompt", "execute"}
    BY <1>3
  <2>2. Good(z)
    BY <1>2, <1>4, <2>1, SetTimerGood
  <2>3. z.intent = fresh.intent /\ z.poll = fresh.poll
    BY <1>2, <1>4, SetTimerFrame DEF Good, KeepsForm
  <2> QED BY <2>2, <2>3, FreshMoved DEF Inv
<1>6. Good(x)
  BY <1>2, <1>3, <1>4, OnTimerGood
<1> HIDE DEF z
<1>7. MovedRest(z)
  BY <1>2, <1>5 DEF MovedRest
<1>8. x.intent = m.intent
  BY <1>5, <1>7, TimerMoved
<1> HIDE DEF x
<1> QED BY <1>1, <1>2, <1>6, <1>8, UpdateMoved

\* An answer.
LEMMA ReplyMoved ==
    ASSUME Inv, PollFits(m), m.intent.mayHaveMoved, Reply
    PROVE  m'.intent = m.intent
<1>1. ~m.poll.live /\ now \in Nat
  BY MovedFacts DEF Inv, PollFits, POLL_INFLIGHT_STATES
<1>2. \A a : Good(answered(a)) /\ MovedRest(answered(a)) /\ answered(a).intent = m.intent
  BY <1>1, FreshGood, FreshMoved DEF Inv, MovedRest
<1>3. PICK a : update(answered(a))
  <2>1. CASE QuoteReplied
    <3>1. PICK a : QuoteThrew(a) \/ QuoteServed(a)
      BY <2>1 DEF QuoteReplied
    <3>2. PICK r : update(onQuote(answered(a), a.id, r, now))
      BY <3>1, Zenon DEF QuoteThrew, QuoteServed
    <3>3. onQuote(answered(a), a.id, r, now) = answered(a)
      BY <1>2, RepliesMoved
    <3> QED BY <3>2, <3>3
  <2>2. CASE SessionReplied
    <3>1. PICK a, r : update(onSession(answered(a), a.id, r))
      BY <2>2 DEF SessionReplied
    <3>2. onSession(answered(a), a.id, r) = answered(a)
      BY <1>2, RepliesMoved
    <3> QED BY <3>1, <3>2
  <2>3. CASE SignReplied
    <3>1. PICK a, r : \/ update(onSigned(answered(a), a.id, "intent", r, a.intentId))
                      \/ update(onSigned(answered(a), a.id, "pull", r, a.intentId))
      BY <2>3 DEF SignReplied
    <3>2. /\ onSigned(answered(a), a.id, "intent", r, a.intentId) = answered(a)
          /\ onSigned(answered(a), a.id, "pull", r, a.intentId) = answered(a)
      BY <1>2, RepliesMoved
    <3> QED BY <3>1, <3>2
  <2>4. CASE ApprovalReplied
    <3>1. PICK a, r : update(onApproval(answered(a), a.id, r))
      BY <2>4 DEF ApprovalReplied
    <3>2. onApproval(answered(a), a.id, r) = answered(a)
      BY <1>2, RepliesMoved
    <3> QED BY <3>1, <3>2
  <2>5. CASE ExecuteReplied
    <3>1. PICK a, r : update(onExecuted(answered(a), a.id, r, now))
      BY <2>5, Zenon DEF ExecuteReplied
    <3>2. onExecuted(answered(a), a.id, r, now) = answered(a)
      BY <1>2, RepliesMoved
    <3> QED BY <3>1, <3>2
  <2>6. CASE StatusReplied
    <3>1. PICK a, r : update(onStatus(answered(a), a.id, a.attempt, r, now))
      BY <2>6, Zenon DEF StatusReplied
    <3>2. onStatus(answered(a), a.id, a.attempt, r, now) = answered(a)
      BY <1>2, RepliesMoved
    <3> QED BY <3>1, <3>2
  <2> QED BY <2>1, <2>2, <2>3, <2>4, <2>5, <2>6 DEF Reply
<1> QED BY <1>1, <1>2, <1>3, UpdateMoved

-----------------------------------------------------------------------------
(* The theorem. *)

\* Every update ends with the rules.
LEMMA Updates ==
    ASSUME Next
    PROVE  (\E x : m' = settle(x, now)) \/ m' = m \/ WorkerAnswers
<1>1. HostMessage => \E x : update(x)
  BY Zenon DEF HostMessage, ContextChanged, QuoteRequested, AmountCleared, AllocateRequested,
     RefreshRequested, SignRequested, PullSignRequested, CancelSignRequested, ResetRequested,
     ResumeRequested, VisibilityChanged, StreamStatus
<1>2. Reply => \E x : update(x)
  BY Zenon DEF Reply, QuoteReplied, QuoteThrew, QuoteServed, SessionReplied, SignReplied,
     ApprovalReplied, ExecuteReplied, StatusReplied
<1>3. (\E t \in TimerName : TimerFired(t)) => \E x : update(x)
  BY Zenon DEF TimerFired
<1>4. (\E x : update(x)) => \E x : m' = settle(x, now)
  BY Zenon DEF update
<1>5. Worker \/ Tick => m' = m \/ WorkerAnswers
  BY Zenon DEF Worker, WorkerClaims, WorkerMoves, WorkerSweeps, Tick
<1> QED BY <1>1, <1>2, <1>3, <1>4, <1>5 DEF Next

\* The Worker's own step is on its rows and the calls to it.
LEMMA WorkerMoved ==
    ASSUME Inv, WorkerAnswers
    PROVE  m'.intent = m.intent /\ m'.poll = m.poll
<1>1. PICK asks : m' = [m EXCEPT !.asks = asks]
  BY Zenon DEF WorkerAnswers
<1> QED BY <1>1 DEF Inv, Good, Typed, Model

\* The poll of the machine fits its order.
PollFitted == PollFits(m)

\* It always does.
LEMMA FitsInvariance == Spec => [](Inv /\ PollFitted)
<1>1. Init => PollFitted
  BY InitInv, SettleFits DEF Init, Inv, Good, Typed, PollFitted
<1>2. Inv /\ PollFitted /\ [Next]_vars => PollFitted'
  <2>1. SUFFICES ASSUME Inv, PollFits(m), [Next]_vars PROVE PollFits(m')
    BY DEF PollFitted
  <2>2. Inv'
    BY <2>1, NextInv
  <2>3. CASE Next
    <3>1. CASE \E x : m' = settle(x, now)
      BY <2>2, <3>1, SettleFits DEF Inv, Good, Typed
    <3>2. CASE m' = m
      BY <2>1, <3>2
    <3>3. CASE WorkerAnswers
      BY <2>1, <3>3, WorkerMoved DEF PollFits
    <3> QED BY <2>3, <3>1, <3>2, <3>3, Updates
  <2>4. CASE UNCHANGED vars
    BY <2>1, <2>4 DEF vars
  <2> QED BY <2>1, <2>3, <2>4
<1> QED BY <1>1, <1>2, InitInv, NextInv, PTL DEF Spec

\* No edit, tap, timer, late answer, stream frame or rule takes away or
\* replaces an order that may have moved: only Reset does.
THEOREM MayHaveMovedTheorem == Spec => MayHaveMovedHolds
<1> DEFINE step == m.intent.mayHaveMoved /\ m'.intent # m.intent => ResetRequested
<1>1. Inv /\ PollFitted /\ [Next]_vars => [step]_vars
  <2>1. SUFFICES ASSUME Inv, PollFits(m), Next, m.intent.mayHaveMoved
                 PROVE  ResetRequested \/ m'.intent = m.intent
    BY DEF PollFitted
  <2>2. CASE HostMessage
    BY <2>1, <2>2, HostMoved
  <2>3. CASE Reply
    BY <2>1, <2>3, ReplyMoved
  <2>4. CASE Worker \/ Tick
    <3>1. m' = m \/ WorkerAnswers
      BY <2>4 DEF Worker, WorkerClaims, WorkerMoves, WorkerSweeps, Tick
    <3> QED BY <2>1, <3>1, WorkerMoved
  <2>5. CASE \E t \in TimerName : TimerFired(t)
    BY <2>1, <2>5, FiredMoved
  <2> QED BY <2>1, <2>2, <2>3, <2>4, <2>5 DEF Next
<1> QED BY <1>1, FitsInvariance, PTL DEF Spec, MayHaveMovedHolds
=============================================================================
