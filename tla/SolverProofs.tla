---------------------------- MODULE SolverProofs ----------------------------
(***************************************************************************)
(* The solver pays an order at most once, keeps on disk every acceptance   *)
(* the venue may hold, follows every fill it paid and can pay all it has   *)
(* accepted, for every set of orders, fills and auctions, every deadline,  *)
(* inventory and bound.                                                    *)
(*                                                                         *)
(* None of these is inductive.  SolverInv says what the code relies    *)
(* on: a fill that left a mark outside the gateway (a POST, a transaction, *)
(* a payment, an entry `accepted` or `filled`) is the only one of its      *)
(* order to do so (OneSolid), because while the order can still be claimed *)
(* one fill of it is in play at all, in the file or at a caller            *)
(* (OneInPlay); its entry is on disk and in memory (Persisted), the two    *)
(* differing only as a failed write leaves them (FileFits); and a task or  *)
(* the feed's own call is at work on it (Followed).                        *)
(*                                                                         *)
(* A step is one of a few kinds, each shown once to preserve SolverInv: of *)
(* the gateway with the file as it was (GatewayStep), of a caller that may *)
(* write its order's entry (FileMove), of the chains (WorldStep), of the   *)
(* feed before and when it binds an award (FeedQuiet, FeedBinds), the      *)
(* crash and the restart.  One lemma per action shows of which kind it is. *)
(*                                                                         *)
(* That the inventory covers what was accepted takes a second invariant    *)
(* over the first, Funds: the balance covers every fill that can still be  *)
(* paid and that this process or the disk holds as accepted (Pledges), so  *)
(* that a fill that lands was counted (LandsPledged) and a restart adds    *)
(* none; what the holder of the acceptance slot reserved is still all the  *)
(* others are owed when it signs (HolderAt, Reserves).                     *)
(***************************************************************************)
EXTENDS EscrowSolver, SumProofs

Pc == {"off", "prepare", "allow", "accept", "join", "slot", "balance", "sign", "onSigned", "post",
       "answered", "drop", "fill", "send", "wait", "follow", "expired", "claim"}
Answer == {"accepted", "refused", "mismatch", "not_accepted", "already_filled", "in_doubt",
           "auth_expired", "threw", "confirmed"}
Call == [pc : Pc, f : FillIds \cup {None}, own : BOOLEAN, resume : BOOLEAN,
         phase : Phase \cup {None}, res : Answer \cup {None}]
Entry == {NoEntry} \cup [phase : Phase, f : FillIds]
\* A file holds each order's fill under that order.
FileOK(file) ==
    /\ file \in [Orders -> Entry]
    /\ \A o \in Orders : file[o].f # None => OrderOf[file[o].f] = o

\* Every field of the state the theorems depend on keeps its type.
TypeOK ==
    /\ time \in Int
    /\ paid \subseteq FillIds /\ fillTx \subseteq FillIds /\ venueHolds \subseteq FillIds
    /\ lock \in [Orders -> {"Open", "Claimed", "Refunded"}]
    /\ accepted \in [FillIds -> {"no", "restored", "signed"}]
    /\ acceptedOrders \in [Orders -> FillIds \cup {None}]
    /\ accepting \in [Orders -> FillIds \cup {None}]
    /\ landed \subseteq paid
    /\ call \in [Callers -> Call]
    /\ up \in BOOLEAN /\ bidding \in BOOLEAN /\ unsent \subseteq Orders
    /\ FileOK(fills) /\ FileOK(disk)

-----------------------------------------------------------------------------
\* Fills the venue, a node or the chain may know of.
held == venueHolds \cup fillTx \cup paid
\* The file names the fill as accepted, or filled; while it matters, on disk and in memory.
good(file, f) == file[OrderOf[f]].f = f /\ file[OrderOf[f]].phase \in {"accepted", "filled"}
OnFile(f) == ~claimEnds(OrderOf[f]) => good(disk, f) /\ (up => good(fills, f))

\* The order of the fill a caller works on.
orderOf(c) == OrderOf[call[c].f]
works(c) == call[c].pc \notin {"off", "prepare"}
answered(c, res) == call[c].pc = "answered" /\ call[c].res \in res

\* Before its acceptance was posted; while its fill is owed; while it may still send it.
Accepts(c) == \/ call[c].pc \in {"allow", "accept", "join", "slot", "balance", "sign", "onSigned", "post", "drop"}
              \/ answered(c, {"accepted", "refused"})
Owes(c) == \/ call[c].pc \in {"post", "fill", "send", "wait", "follow", "expired"}
           \/ answered(c, Answer \ {"refused"})
           \/ call[c].phase \in {"accepted", "filled"}
Unrecorded(c) == \/ call[c].pc \in {"allow", "accept", "join", "slot", "balance", "sign", "onSigned", "drop"}
                 \/ answered(c, {"refused"})
Unsent(c) == Accepts(c) \/ call[c].pc \in {"fill", "send"}
Posted(c) == \/ call[c].pc \in {"fill", "send", "wait"}
             \/ answered(c, Answer \ {"refused", "already_filled", "mismatch"})

\* A fill that left a mark outside the gateway's memory; one in play.
solid(f) == f \in held \/ good(disk, f) \/ good(fills, f)
inPlay(f) ==
    \/ solid(f) \/ fills[OrderOf[f]].f = f \/ disk[OrderOf[f]].f = f
    \/ \E c \in Callers : works(c) /\ call[c].f = f

\* What holds of any caller; of the feed; of an order's settle task.
CallOK(c) ==
    /\ call[c].pc = "off" => call[c] = NoCall
    /\ call[c].pc # "off" => up /\ call[c].f \in FillIds
    /\ call[c].own => /\ call[c].pc \in {"slot", "balance", "sign", "onSigned", "post"}
                      /\ accepting[orderOf(c)] = call[c].f
    /\ call[c].pc \in {"slot", "balance"} => call[c].own /\ acceptedOrders[orderOf(c)] \in {None, call[c].f}
    /\ call[c].pc = "sign" => call[c].own
    /\ call[c].pc \in {"sign", "onSigned", "post", "send", "wait"} \/ call[c].resume => accepted[call[c].f] # "no"
    /\ Owes(c) => OnFile(call[c].f)
    /\ answered(c, {"confirmed", "already_filled"}) => call[c].f \in paid

FeedOK ==
    LET k == call["feed"]
        o == orderOf("feed")
    IN /\ k.pc # "off" => bidding
       /\ k.pc \notin {"allow", "drop", "follow", "expired", "claim"}
       /\ k.pc = "prepare" => k.phase = None /\ (fills[o].f \in {None, k.f} \/ claimEnds(o))
       /\ works("feed") => \/ claimEnds(o)
                           \/ /\ fills[o].f = k.f
                              /\ k.phase = None => call[o].pc = "off"
                              /\ k.phase = None /\ Unrecorded("feed") => fills[o].phase = "accepting"
                              /\ Unsent("feed") /\ call[o].pc = "off" => k.f \notin fillTx \cup paid
       /\ k.pc = "fill" \/ answered("feed", {"accepted"}) => accepted[k.f] # "no"

TaskOK(o) ==
    LET k == call[o]
    IN /\ k.pc # "prepare"
       /\ k.pc # "off" => OrderOf[k.f] = o /\ (claimEnds(o) \/ fills[o].f = k.f)
       /\ Accepts(o) => o \in unsent /\ k.phase \in {"accepting", "accepted"}
       /\ k.pc = "drop" => k.phase = "accepting"
       /\ k.phase = "accepting" /\ Accepts(o) /\ ~answered(o, {"accepted"}) => k.f \notin held \/ claimEnds(o)
       /\ k.phase = "accepting" /\ Unrecorded(o) => fills[o].phase = "accepting" \/ claimEnds(o)

\* One caller at a time holds an order's place in `accepting`.
Owners == \A c, d \in Callers : call[c].own /\ call[d].own /\ orderOf(c) = orderOf(d) => c = d
\* An accepted fill is the one its order was accepted with.
Registered == \A f \in FillIds : accepted[f] # "no" => acceptedOrders[OrderOf[f]] = f
\* How the file on disk may lag behind the one in memory.
FileFits(o) == \/ claimEnds(o)
               \/ fills[o].phase = "accepting" /\ disk[o].f \in {None, fills[o].f}
               \/ /\ fills[o].phase \in {"accepted", "filled"}
                  /\ disk[o].phase \in {"accepted", "filled"} /\ disk[o].f = fills[o].f
               \/ fills[o] = NoEntry /\ disk[o].phase \in {None, "accepting"}
Files == IF up THEN \A o \in Orders : FileFits(o) ELSE fills = NoFile
\* A fill known outside is in the file.
Persisted == \A f \in held : OnFile(f)
\* An order has one such fill, and neither accepts nor checks another.
OneSolid == \A f, g \in FillIds : OrderOf[f] = OrderOf[g] /\ solid(f) =>
                /\ solid(g) => f = g
                /\ acceptedOrders[OrderOf[g]] = g => f = g
                /\ \A c \in Callers : call[c].pc = "balance" /\ call[c].f = g => f = g
\* Until its claim window closes one fill of an order is in play.
OneInPlay == \A f, g \in FillIds :
                OrderOf[f] = OrderOf[g] /\ claimWindowOpen(OrderOf[g]) /\ inPlay(f) /\ inPlay(g) => f = g
\* Someone is at work on a fill known outside.
Followed == \A f \in held : up =>
                \/ claimEnds(OrderOf[f]) \/ call[OrderOf[f]].pc # "off"
                \/ (call["feed"].f = f /\ Posted("feed"))
\* The feed is read once every resumed fill was sent.
Running == bidding => up /\ unsent = {}

\* The inductive invariant.
SolverInv ==
    /\ TypeOK
    /\ \A c \in Callers : CallOK(c)
    /\ FeedOK
    /\ \A o \in Orders : TaskOK(o)
    /\ Owners /\ Registered /\ Files /\ Persisted /\ OneSolid /\ OneInPlay /\ Followed /\ Running
-----------------------------------------------------------------------------
\* The assumptions, as the proofs use them.
LEMMA Constants ==
    /\ OrderOf \in [FillIds -> Orders] /\ "feed" \notin Orders /\ None \notin FillIds
    /\ None \notin Orders /\ None \notin Phase /\ None \notin {"accepted", "filled"}
    /\ Callers = Orders \cup {"feed"}
  BY GatewayAssumption, SolverAssumption DEF Phase, Callers

\* What the invariant says of a caller at work.
LEMMA Working ==
    ASSUME SolverInv, NEW c \in Callers, call[c].pc # "off"
    PROVE  /\ call[c] \in Call /\ call[c].f \in FillIds /\ orderOf(c) \in Orders /\ up
           /\ CallOK(c)
           /\ c = "feed" => FeedOK /\ bidding /\ unsent = {}
           /\ c # "feed" => c \in Orders /\ TaskOK(c) /\ orderOf(c) = c
<1>1. call[c] \in Call /\ CallOK(c)
  BY DEF SolverInv, TypeOK
<1>2. call[c].f \in FillIds /\ orderOf(c) \in Orders /\ up
  BY <1>1, Constants DEF CallOK, orderOf
<1>3. c # "feed" => c \in Orders /\ TaskOK(c) /\ orderOf(c) = c
  BY Constants DEF SolverInv, TaskOK, orderOf
<1>4. c = "feed" => FeedOK /\ bidding /\ unsent = {}
  BY DEF SolverInv, FeedOK, Running
<1> QED BY <1>1, <1>2, <1>3, <1>4

\* A step of the gateway about the fill of its caller: the file stays.
LEMMA GatewayStep ==
    ASSUME SolverInv, TypeOK', NEW c \in Callers, works(c), works(c)',
           NEW f, f = call[c].f, NEW o, o = OrderOf[f],
           call'[c].f = f,
           \A d \in Callers \ {c} : call'[d] = call[d],
           UNCHANGED <<time, lock, paid, fills, disk, up, bidding, unsent>>,
           venueHolds' \in {venueHolds, venueHolds \cup {f}}, fillTx' \in {fillTx, fillTx \cup {f}},
           held' # held => Owes(c) /\ accepted[f] # "no" /\ Posted(c)',
           \/ UNCHANGED <<accepted, acceptedOrders>>
           \/ /\ call[c].own /\ acceptedOrders[o] \in {None, f}
              /\ call[c].pc = "balance" \/ accepted[f] # "no"
              /\ accepted' = [accepted EXCEPT ![f] = "signed"]
              /\ acceptedOrders' = [acceptedOrders EXCEPT ![o] = f],
           \/ accepting' = accepting /\ (call'[c].own => call[c].own)
           \/ ~call'[c].own /\ accepting' = released(c)
           \/ accepting[o] = None /\ accepting' = [accepting EXCEPT ![o] = f],
           call'[c].pc = "balance" => call[c].pc = "balance" \/ claimWindowOpen(o),
           CallOK(c)', c = "feed" => FeedOK', c # "feed" => TaskOK(c)',
           c = "feed" /\ Posted(c) => Posted(c)' \/ call[o].pc # "off" \/ claimEnds(o)
    PROVE  SolverInv'
<1>0. /\ f \in FillIds /\ o \in Orders /\ up /\ CallOK(c) /\ orderOf(c) = o /\ orderOf(c)' = o
      /\ c = "feed" => unsent = {}
      /\ c # "feed" => c = o
      /\ call[c].pc # "off"
  BY Working DEF works, orderOf
<1>a. \A q : claimEnds(q)' = claimEnds(q) /\ claimWindowOpen(q)' = claimWindowOpen(q)
  BY DEF claimEnds, claimWindowOpen
<1>b. \A g : OnFile(g)' <=> OnFile(g)
  BY <1>a DEF OnFile, good
<1>c. \A g : g \in held' => g \in held \/ (g = f /\ Owes(c) /\ accepted[f] # "no" /\ Posted(c)')
  BY DEF held
<1>d. \A g \in FillIds : accepted[g] # "no" => accepted'[g] # "no"
  BY DEF SolverInv, TypeOK
<1>1. ASSUME NEW d \in Callers PROVE CallOK(d)'
  <2> SUFFICES ASSUME d # c PROVE CallOK(d)'
    OBVIOUS
  <2>1. call'[d] = call[d] /\ CallOK(d) /\ orderOf(d)' = orderOf(d) /\ answered(d, {"confirmed", "already_filled"})' = answered(d, {"confirmed", "already_filled"})
    BY DEF SolverInv, orderOf, answered
  <2>2. Owes(d)' <=> Owes(d)
    BY <2>1 DEF Owes, answered
  <2>3. call[d].own => accepting'[orderOf(d)] = call[d].f
    <3>1. call[d].own => d # c /\ accepting[orderOf(d)] = call[d].f /\ orderOf(d) \in Orders /\ call[d].f # None
      BY <2>1, Working, Constants DEF CallOK
    <3>2. call[d].own /\ call[c].own => orderOf(d) # o
      BY <1>0 DEF SolverInv, Owners
    <3> QED BY <1>0, <3>1, <3>2 DEF released, SolverInv, TypeOK, orderOf
  <2>4. call[d].pc \in {"slot", "balance"} => acceptedOrders'[orderOf(d)] \in {None, call[d].f}
    <3>1. call[d].pc \in {"slot", "balance"} => call[d].own /\ acceptedOrders[orderOf(d)] \in {None, call[d].f}
      BY <2>1 DEF CallOK
    <3>2. call[d].own /\ call[c].own => orderOf(d) # o
      BY <1>0 DEF SolverInv, Owners
    <3>3. call[d].pc \in {"slot", "balance"} => orderOf(d) \in Orders
      BY Working
    <3>4. \A q \in Orders \ {o} : acceptedOrders'[q] = acceptedOrders[q]
      BY DEF SolverInv, TypeOK
    <3> QED BY <1>0, <3>1, <3>2, <3>3, <3>4
  <2>5. call[d].pc # "off" \/ call[d].resume => call[d].f \in FillIds
    BY <2>1 DEF CallOK, NoCall
  <2> QED BY <1>b, <1>d, <2>1, <2>2, <2>3, <2>4, <2>5 DEF CallOK
<1>2. FeedOK'
  <2> SUFFICES ASSUME c # "feed" PROVE FeedOK'
    OBVIOUS
  <2>1. FeedOK /\ call'["feed"] = call["feed"] /\ "feed" \in Callers
    BY Constants DEF SolverInv
  <2>2. orderOf("feed")' = orderOf("feed") /\ (works("feed")' <=> works("feed")) /\ (Unsent("feed")' <=> Unsent("feed"))
        /\ (answered("feed", {"accepted"})' <=> answered("feed", {"accepted"})) /\ (Unrecorded("feed")' <=> Unrecorded("feed"))
    BY <2>1 DEF orderOf, works, Unsent, Accepts, answered, Unrecorded
  <2>3. \A q \in Orders : call'[q].pc = "off" <=> call[q].pc = "off"
    BY <1>0, Constants DEF works
  <2>4. call["feed"].pc # "off" => call["feed"].f \in FillIds /\ orderOf("feed") \in Orders
    BY <2>1, Working
  <2>5. call[orderOf("feed")].pc = "off" => (call["feed"].f \in fillTx' => call["feed"].f \in fillTx)
    BY <1>0 DEF orderOf
  <2>6. answered("feed", {"accepted"}) \/ works("feed") \/ call["feed"].pc \in {"prepare", "fill"} => call["feed"].pc # "off"
    BY DEF answered, works
  <2> QED BY <1>a, <1>d, <2>1, <2>2, <2>3, <2>4, <2>5, <2>6 DEF FeedOK
<1>3. ASSUME NEW q \in Orders PROVE TaskOK(q)'
  <2> SUFFICES ASSUME q # c PROVE TaskOK(q)'
    BY Constants
  <2>1. TaskOK(q) /\ call'[q] = call[q] /\ q \in Callers
    BY Constants DEF SolverInv
  <2>2. /\ (Accepts(q)' <=> Accepts(q)) /\ (answered(q, {"accepted"})' <=> answered(q, {"accepted"}))
        /\ (Unrecorded(q)' <=> Unrecorded(q))
    BY <2>1 DEF Accepts, answered, Unrecorded
  <2>3. Accepts(q) => call[q].pc # "off" /\ OrderOf[call[q].f] = q
    BY <2>1 DEF Accepts, answered, TaskOK
  <2>4. Accepts(q) => q # o
    BY <1>0, <2>1 DEF TaskOK
  <2>5. Accepts(q) => (call[q].f \in held' => call[q].f \in held)
    BY <1>c, <2>3, <2>4
  <2> QED BY <1>a, <2>1, <2>2, <2>5 DEF TaskOK
<1>4. Owners'
  <2>1. \A d \in Callers \ {c} : (call'[d].own <=> call[d].own) /\ orderOf(d)' = orderOf(d)
    BY DEF orderOf
  <2>2. call'[c].own /\ ~call[c].own => accepting[o] = None
    BY <1>0 DEF released
  <2>3. \A d \in Callers : call[d].own => accepting[orderOf(d)] \in FillIds
    BY Working DEF SolverInv, CallOK
  <2>4. call'[c].own => \A d \in Callers \ {c} : call[d].own => orderOf(d) # o
    BY <1>0, <2>2, <2>3, Constants DEF SolverInv, Owners
  <2> QED BY <1>0, <2>1, <2>4 DEF SolverInv, Owners
<1>5. Registered'
  BY <1>0, Constants DEF SolverInv, TypeOK, Registered
<1>6. Files' /\ Running'
  BY <1>a DEF SolverInv, Files, FileFits, Running
<1>7. Persisted'
  BY <1>b, <1>c, <1>0 DEF SolverInv, Persisted, CallOK
<1>8. OneSolid'
  <2>1. \A g : solid(g)' => solid(g) \/ (g = f /\ accepted[f] # "no")
    BY <1>c DEF solid, good
  <2>2. accepted[f] # "no" => acceptedOrders[o] = f
    BY <1>0 DEF SolverInv, Registered
  <2>3. ASSUME NEW g \in FillIds, NEW h \in FillIds, OrderOf[g] = OrderOf[h], solid(g)
        PROVE  /\ acceptedOrders'[OrderOf[h]] = h => g = h
               /\ \A d \in Callers : call'[d].pc = "balance" /\ call'[d].f = h => g = h
    <3>1. acceptedOrders[OrderOf[h]] = h => g = h
      BY <2>3 DEF SolverInv, OneSolid
    <3>2. \A d \in Callers : call[d].pc = "balance" /\ call[d].f = h => g = h
      BY <2>3 DEF SolverInv, OneSolid
    <3>3. OrderOf[h] = o /\ acceptedOrders' # acceptedOrders => g = f
      BY <2>2, <2>3, <1>0 DEF SolverInv, OneSolid
    <3>4. OrderOf[h] = o /\ claimWindowOpen(o) => g = f
      BY <2>3, <1>0 DEF SolverInv, OneInPlay, inPlay
    <3> QED BY <1>0, <3>1, <3>2, <3>3, <3>4, Constants DEF SolverInv, TypeOK
  <2>4. ASSUME NEW h \in FillIds, OrderOf[h] = o, accepted[f] # "no"
        PROVE  /\ solid(h) => h = f
               /\ acceptedOrders'[o] = h => f = h
               /\ \A d \in Callers : call'[d].pc = "balance" /\ call'[d].f = h => f = h
    <3>1. acceptedOrders[o] = f /\ acceptedOrders'[o] = f
      BY <2>2, <2>4, <1>0 DEF SolverInv, TypeOK
    <3>2. \A d \in Callers : call[d].pc = "balance" /\ call[d].f = h => f = h
      BY <3>1, <2>4, <1>0, Constants DEF SolverInv, CallOK, orderOf
    <3> QED BY <2>4, <3>1, <3>2, <1>0 DEF SolverInv, OneSolid
  <2> QED BY <2>1, <2>3, <2>4, <1>0 DEF SolverInv, OneSolid
<1>9. OneInPlay'
  <2>1. \A g \in FillIds : inPlay(g)' => inPlay(g)
    <3>1. inPlay(f)
      BY DEF inPlay
    <3>2. \A g : solid(g)' => solid(g) \/ g = f
      BY <1>c DEF solid, good
    <3>3. \A d \in Callers : works(d)' => works(d) /\ call'[d].f = call[d].f
      BY DEF works
    <3> QED BY <3>1, <3>2, <3>3 DEF inPlay
  <2> QED BY <1>a, <2>1 DEF SolverInv, OneInPlay
<1>10. Followed'
  <2>1. \A q \in Orders : call[q].pc # "off" => call'[q].pc # "off"
    BY Constants DEF works
  <2>2. ASSUME NEW g \in held, NEW h, h = OrderOf[g], ~claimEnds(h)
        PROVE  call'[h].pc # "off" \/ (call'["feed"].f = g /\ Posted("feed")')
    <3>1. g \in FillIds /\ h \in Orders
      BY <2>2, Constants DEF held, SolverInv, TypeOK
    <3>2. call[h].pc # "off" \/ (call["feed"].f = g /\ Posted("feed"))
      BY <1>0, <2>2 DEF SolverInv, Followed
    <3>3. CASE c = "feed"
      BY <2>1, <2>2, <3>1, <3>2, <3>3
    <3>4. CASE c # "feed"
      <4>1. call'["feed"] = call["feed"]
        BY <3>4, Constants
      <4> QED BY <2>1, <3>1, <3>2, <4>1 DEF Posted, answered
    <3> QED BY <3>3, <3>4
  <2>3. f \in held' /\ held' # held => call'[o].pc # "off" \/ (call'["feed"].f = f /\ Posted("feed")')
    BY <1>0 DEF works
  <2> QED BY <1>a, <1>c, <2>2, <2>3, <1>0 DEF Followed
<1> QED BY <1>1, <1>2, <1>3, <1>4, <1>5, <1>6, <1>7, <1>8, <1>9, <1>10 DEF SolverInv

\* A step of the chains, or one that only lets the feed start.
LEMMA WorldStep ==
    ASSUME SolverInv, TypeOK',
           UNCHANGED <<venueHolds, accepted, acceptedOrders, accepting, call, up, unsent, fills, disk>>,
           bidding' = bidding \/ (up /\ unsent = {} /\ bidding'),
           paid \subseteq paid', paid' \cup fillTx' \subseteq paid \cup fillTx,
           \A q \in Orders : claimEnds(q) => claimEnds(q)',
           \A q \in Orders : claimWindowOpen(q)' => claimWindowOpen(q)
    PROVE  SolverInv'
<1>a. held' \subseteq held
  BY DEF held
<1>b. \A g \in FillIds : OnFile(g) => OnFile(g)'
  BY Constants DEF OnFile, good
<1>c. \A g : solid(g)' => solid(g)
  BY <1>a DEF solid, good
<1>d. \A c \in Callers : call[c].pc # "off" => call[c].f \in FillIds /\ orderOf(c) \in Orders
  BY Working
<1>1. ASSUME NEW c \in Callers PROVE CallOK(c)'
  <2>1. CallOK(c) /\ orderOf(c)' = orderOf(c)
        /\ answered(c, {"confirmed", "already_filled"})' = answered(c, {"confirmed", "already_filled"})
    BY DEF SolverInv, orderOf, answered
  <2>2. Owes(c)' <=> Owes(c)
    BY DEF Owes, answered
  <2>3. Owes(c) => call[c].pc # "off"
    BY <2>1, Constants DEF Owes, answered, CallOK, NoCall
  <2> QED BY <1>b, <1>d, <2>1, <2>2, <2>3 DEF CallOK
<1>2. FeedOK'
  <2>1. FeedOK /\ orderOf("feed")' = orderOf("feed") /\ (works("feed")' <=> works("feed")) /\ (Unsent("feed")' <=> Unsent("feed"))
        /\ (answered("feed", {"accepted"})' <=> answered("feed", {"accepted"})) /\ (Unrecorded("feed")' <=> Unrecorded("feed"))
    BY DEF SolverInv, orderOf, works, Unsent, Accepts, answered, Unrecorded
  <2>2. works("feed") \/ call["feed"].pc = "prepare" => orderOf("feed") \in Orders
    BY <1>d, Constants DEF works
  <2> QED BY <2>1, <2>2 DEF FeedOK
<1>3. ASSUME NEW q \in Orders PROVE TaskOK(q)'
  <2>1. TaskOK(q) /\ (Accepts(q)' <=> Accepts(q)) /\ (answered(q, {"accepted"})' <=> answered(q, {"accepted"}))
        /\ (Unrecorded(q)' <=> Unrecorded(q))
    BY DEF SolverInv, Accepts, answered, Unrecorded
  <2> QED BY <1>a, <2>1 DEF TaskOK
<1>4. Owners' /\ Registered' /\ Running' /\ Files'
  BY DEF SolverInv, Owners, orderOf, Registered, Running, Files, FileFits
<1>5. Persisted'
  BY <1>a, <1>b DEF SolverInv, TypeOK, Persisted, held
<1>6. OneSolid'
  BY <1>c DEF SolverInv, OneSolid
<1>7. OneInPlay'
  <2>1. \A g : inPlay(g)' => inPlay(g)
    BY <1>c DEF inPlay, works
  <2> QED BY <2>1, Constants DEF SolverInv, OneInPlay
<1>8. Followed'
  <2>1. Posted("feed")' <=> Posted("feed")
    BY DEF Posted, answered
  <2>2. \A g \in held : g \in FillIds
    BY DEF held, SolverInv, TypeOK
  <2> QED BY <1>a, <2>1, <2>2, Constants DEF SolverInv, Followed
<1> QED BY <1>1, <1>2, <1>3, <1>4, <1>5, <1>6, <1>7, <1>8 DEF SolverInv

\* The file is rewritten for one order, or a write of it fails.
Writes(o, e) == \/ UNCHANGED <<fills, disk>>
                \/ fills' = put(o, e) /\ disk' = put(o, e)
                \/ UNCHANGED fills /\ disk' \in {disk, put(o, e)}

\* A step about the fill f of the order o by the caller c, in which the callers in D
\* move and e may be written as the order's entry.
FileMoves(c, f, o, D, e) ==
    /\ c \in D /\ D \subseteq {"feed", o} /\ D \subseteq Callers
    /\ \A d \in Callers \ D : call'[d] = call[d]
    /\ \A d \in D : /\ call[d].pc = "off" \/ call[d].f = f
                    /\ call'[d].pc # "off" => works(d)' /\ call'[d].f = f
                    /\ call'[d].own => call[d].own
                    /\ call'[d].pc # "balance"
                    /\ CallOK(d)'
    /\ UNCHANGED <<time, lock, paid, fillTx, venueHolds, accepted, acceptedOrders, up, bidding>>
    /\ unsent' \subseteq unsent /\ unsent \subseteq unsent' \cup {o}
    /\ accepting' = accepting \/ (~call'[c].own /\ accepting' = released(c))
    /\ Writes(o, e)
    /\ \/ UNCHANGED <<fills, disk>>
       \/ e = NoEntry /\ (~claimEnds(o) => f \notin held /\ fills[o].phase = "accepting"
                                              /\ \A d \in Callers : call'[d].pc # "off" => orderOf(d)' # o)
       \/ e \in [phase : {"accepted", "filled"}, f : {f}] /\ (f \in paid \/ accepted[f] # "no")
    /\ "feed" \in D => FeedOK'
    /\ o \in D => TaskOK(o)'
    /\ call[o].pc # "off" /\ call'[o].pc = "off" => claimEnds(o) \/ f \notin held
    /\ call[o].pc = "off" /\ call'[o].pc # "off" => "feed" \in D
    /\ "feed" \in D /\ Posted("feed") => Posted("feed")' \/ call'[o].pc # "off" \/ claimEnds(o)

\* Such a step preserves the invariant.
LEMMA FileMove ==
    ASSUME SolverInv, TypeOK', NEW c \in Callers, works(c),
           NEW f, f = call[c].f, NEW o, o = OrderOf[f], NEW D, NEW e, FileMoves(c, f, o, D, e)
    PROVE  SolverInv'
<1> USE DEF FileMoves
<1>0. /\ f \in FillIds /\ o \in Orders /\ o \in Callers /\ up /\ CallOK(c) /\ orderOf(c) = o
      /\ call[c].pc # "off" /\ f # None /\ (c = "feed" => unsent = {})
  BY Working, Constants DEF works, orderOf
<1>a. /\ \A q : claimEnds(q)' = claimEnds(q) /\ claimWindowOpen(q)' = claimWindowOpen(q)
      /\ held' = held
  BY DEF claimEnds, claimWindowOpen, held
<1>f. ~claimEnds(o) => fills[o].f = f
  <2>1. c = "feed" => FeedOK
    BY <1>0, Working
  <2>2. c # "feed" => c = o /\ TaskOK(o)
    BY <1>0, Working
  <2>3. CASE c = "feed"
    BY <1>0, <2>1, <2>3 DEF FeedOK, orderOf
  <2>4. CASE c # "feed"
    BY <1>0, <2>2, <2>4 DEF TaskOK
  <2> QED BY <2>3, <2>4
<1>g. \A g \in FillIds : OrderOf[g] = o /\ ~claimEnds(o) /\ OnFile(g) => g = f
  BY <1>0, <1>f DEF OnFile, good
<1>w. /\ \A q \in Orders \ {o} : fills'[q] = fills[q] /\ disk'[q] \in {disk[q], fills[q]}
      /\ fills'[o] \in {fills[o], e} /\ disk'[o] \in {disk[o], e}
      /\ \/ UNCHANGED <<fills, disk>>
         \/ fills'[o] = e /\ disk'[o] = e
         \/ fills'[o] = fills[o]
  BY <1>0 DEF Writes, put, SolverInv, TypeOK, FileOK
<1>d. \A d \in Callers \ D : /\ call'[d] = call[d] /\ orderOf(d)' = orderOf(d) /\ (works(d)' <=> works(d))
                            /\ (Owes(d)' <=> Owes(d)) /\ (Accepts(d)' <=> Accepts(d))
                            /\ (Posted(d)' <=> Posted(d)) /\ (Unsent(d)' <=> Unsent(d))
                            /\ (Unrecorded(d)' <=> Unrecorded(d)) /\ \A r : answered(d, r)' <=> answered(d, r)
  BY DEF orderOf, works, Owes, Accepts, Posted, Unsent, Unrecorded, answered
<1>h. \/ UNCHANGED <<fills, disk>>
      \/ e = NoEntry
      \/ e.f = f /\ e.phase \in {"accepted", "filled"} /\ (f \in paid \/ accepted[f] # "no")
  OBVIOUS
<1>k. ASSUME NEW d \in Callers, call'[d].pc # "off", orderOf(d)' = o, ~claimEnds(o)
      PROVE  \/ UNCHANGED <<fills, disk>>
             \/ e.f = f /\ e.phase \in {"accepted", "filled"}
  BY <1>k
<1>1. ASSUME NEW d \in Callers PROVE CallOK(d)'
  <2> SUFFICES ASSUME d \notin D PROVE CallOK(d)'
    OBVIOUS
  <2>1. CallOK(d) /\ call'[d] = call[d]
    BY <1>d DEF SolverInv
  <2>2. call[d].own => accepting'[orderOf(d)] = call[d].f
    <3>1. call[d].own => /\ accepting[orderOf(d)] = call[d].f /\ orderOf(d) \in Orders /\ d # c
      BY <2>1, Working, Constants DEF CallOK
    <3>2. call[d].own /\ call[c].own => orderOf(d) # o
      BY <1>0, <3>1 DEF SolverInv, Owners
    <3> QED BY <1>0, <3>1, <3>2 DEF released, SolverInv, TypeOK, orderOf
  <2>3. call[d].pc # "off" => OrderOf[call[d].f] \in Orders /\ orderOf(d) = OrderOf[call[d].f] /\ call[d].f \in FillIds
    BY Working DEF orderOf
  <2>4. Owes(d) => call[d].pc # "off"
    BY <2>1, Constants DEF Owes, answered, CallOK, NoCall
  <2>5. Owes(d) => OnFile(call[d].f)'
    <3> SUFFICES ASSUME Owes(d), ~claimEnds(OrderOf[call[d].f])
                 PROVE  good(disk, call[d].f)' /\ good(fills, call[d].f)'
      BY <1>a DEF OnFile
    <3>1. good(disk, call[d].f) /\ good(fills, call[d].f)
      BY <1>0, <2>1 DEF CallOK, OnFile
    <3>2. CASE orderOf(d) # o
      BY <1>d, <1>w, <2>1, <2>3, <2>4, <3>1, <3>2 DEF good
    <3>3. CASE orderOf(d) = o
      <4>1. call[d].f = f /\ orderOf(d)' = o /\ call'[d].pc # "off"
        BY <1>d, <1>f, <2>1, <2>3, <2>4, <3>1, <3>3 DEF good
      <4>2. (e.f = f /\ e.phase \in {"accepted", "filled"}) \/ UNCHANGED <<fills, disk>>
        BY <1>k, <2>3, <3>3, <4>1
      <4> QED BY <1>h, <1>w, <2>1, <2>3, <2>4, <3>1, <3>3, <4>1, <4>2 DEF good
    <3> QED BY <3>2, <3>3
  <2> QED BY <1>d, <2>1, <2>2, <2>5 DEF CallOK
<1>2. FeedOK'
  <2> SUFFICES ASSUME "feed" \notin D PROVE FeedOK'
    OBVIOUS
  <2>1. FeedOK /\ call'["feed"] = call["feed"] /\ "feed" \in Callers /\ orderOf("feed")' = orderOf("feed")
    BY <1>d, Constants DEF SolverInv
  <2>2. call["feed"].pc # "off" => call["feed"].f \in FillIds /\ orderOf("feed") \in Orders
    BY Working, Constants
  <2>3. \A q \in Orders : call[q].pc = "off" /\ q # o => call'[q].pc = "off"
    BY <1>d, Constants
  <2>4. orderOf("feed") # o => fills'[orderOf("feed")] = fills[orderOf("feed")] \/ call["feed"].pc = "off"
    BY <1>w, <2>2
  <2>5. call[o].pc = "off" => call'[o].pc = "off"
    OBVIOUS
  <2>6. CASE orderOf("feed") = o /\ call["feed"].pc # "off" /\ ~claimEnds(o)
    <3>1. call["feed"].f = f /\ fills[o].f = f
      BY <1>f, <1>0, <2>1, <2>6 DEF FeedOK, works
    <3>2. e.f = f \/ UNCHANGED <<fills, disk>>
      BY <1>k, <2>1, <2>6
    <3>3. fills'[o].f = f
      BY <1>h, <1>w, <3>1, <3>2
    <3>4. c = o /\ call[o].pc # "off"
      BY <1>0
    <3>5. f \notin held => f \notin fillTx \cup paid
      BY DEF held
    <3> QED BY <1>a, <1>d, <2>1, <2>6, <3>1, <3>3, <3>4, <3>5 DEF FeedOK
  <2>7. CASE orderOf("feed") # o \/ claimEnds(o) \/ call["feed"].pc = "off"
    <3>1. works("feed") \/ call["feed"].pc = "prepare" => call["feed"].pc # "off"
      BY DEF works
    <3>2. /\ (works("feed")' <=> works("feed")) /\ (Unsent("feed")' <=> Unsent("feed"))
          /\ (answered("feed", {"accepted"})' <=> answered("feed", {"accepted"}))
          /\ (Unrecorded("feed")' <=> Unrecorded("feed"))
      BY <1>d, <2>1
    <3>3. CASE call["feed"].pc = "off"
      BY <2>1, <3>1, <3>2, <3>3 DEF FeedOK, Unsent, Accepts, answered
    <3>4. CASE claimEnds(orderOf("feed")) /\ call["feed"].pc # "off"
      BY <1>a, <2>1, <3>2, <3>4 DEF FeedOK
    <3>5. CASE orderOf("feed") # o /\ call["feed"].pc # "off"
      <4>1. call'[orderOf("feed")] = call[orderOf("feed")] /\ fills'[orderOf("feed")] = fills[orderOf("feed")]
        BY <1>d, <1>w, <2>2, <3>5, Constants
      <4> QED BY <1>a, <2>1, <3>2, <4>1 DEF FeedOK
    <3>6. CASE orderOf("feed") = o /\ claimEnds(o)
      BY <1>a, <2>1, <3>2, <3>6 DEF FeedOK
    <3> QED BY <2>7, <3>3, <3>5, <3>6
  <2> QED BY <2>6, <2>7
<1>3. ASSUME NEW q \in Orders PROVE TaskOK(q)'
  <2> SUFFICES ASSUME q \notin D PROVE TaskOK(q)'
    BY Constants
  <2>1. TaskOK(q) /\ call'[q] = call[q] /\ q \in Callers
    BY <1>d, Constants DEF SolverInv
  <2>2. /\ (Accepts(q)' <=> Accepts(q)) /\ (answered(q, {"accepted"})' <=> answered(q, {"accepted"}))
        /\ (Unrecorded(q)' <=> Unrecorded(q)) /\ (Unrecorded(q) => Accepts(q))
    BY <1>d, <2>1 DEF Unrecorded, Accepts, answered
  <2>3. q = o => c = "feed" /\ D = {"feed"}
    BY <1>0, Working
  <2>4. q # o => fills'[q] = fills[q]
    BY <1>w
  <2>5. q = o /\ call[q].pc # "off" /\ ~claimEnds(o) => fills'[q].f = call[q].f
    <3>1. q = o /\ call[q].pc # "off" /\ ~claimEnds(o) => fills[q].f = call[q].f /\ call[q].f = f /\ orderOf(q) = o
      BY <1>f, <2>1 DEF TaskOK, orderOf
    <3>2. q = o /\ call[q].pc # "off" /\ ~claimEnds(o) => orderOf(q)' = o
      BY <1>d, <2>1, <3>1
    <3> QED BY <1>k, <1>w, <2>1, <3>1, <3>2
  <2>6. Accepts(q) /\ q \in unsent => q \in unsent'
    BY <2>3, <1>0
  <2>7. Accepts(q) => q # o
    BY <2>1, <2>3, <1>0 DEF TaskOK
  <2> QED BY <1>a, <2>1, <2>2, <2>4, <2>5, <2>6, <2>7 DEF TaskOK
<1>4. Owners'
  <2>1. ASSUME NEW d \in Callers, call'[d].own PROVE call[d].own /\ orderOf(d)' = orderOf(d)
    <3>1. CASE d \in D
      <4>1. call'[d].pc # "off" /\ call[d].own
        BY <1>1, <2>1, <3>1 DEF CallOK
      <4>2. call'[d].f = f /\ call[d].f = f
        BY <2>1, <3>1, <4>1 DEF SolverInv, CallOK
      <4> QED BY <4>1, <4>2 DEF orderOf
    <3> QED BY <1>d, <2>1, <3>1
  <2> QED BY <2>1 DEF SolverInv, Owners
<1>5. Registered' /\ Running'
  BY DEF SolverInv, Registered, Running
<1>6. Files'
  <2>1. FileFits(o)'
    <3> SUFFICES ASSUME ~claimEnds(o) PROVE FileFits(o)'
      BY <1>a DEF FileFits
    <3>1. fills[o].f = f /\ FileFits(o) /\ fills[o] \in Entry
      BY <1>0, <1>f DEF SolverInv, TypeOK, FileOK, Files
    <3>2. CASE UNCHANGED <<fills, disk>>
      BY <1>a, <3>1, <3>2 DEF FileFits
    <3>3. CASE e = NoEntry /\ fills[o].phase = "accepting"
      <4>1. NoEntry.phase = None /\ NoEntry.f = None
        BY DEF NoEntry
      <4> QED BY <1>w, <3>1, <3>3, <4>1, Constants DEF FileFits
    <3>4. CASE e.f = f /\ e.phase \in {"accepted", "filled"}
      <4>1. disk[o].f \in {None, f} \/ fills[o] = NoEntry
        BY <3>1 DEF FileFits
      <4> QED BY <1>0, <1>w, <3>1, <3>4, <4>1 DEF FileFits, NoEntry
    <3> QED BY <3>2, <3>3, <3>4, <1>h
  <2>2. ASSUME NEW q \in Orders, q # o PROVE FileFits(q)'
    <3>1. FileFits(q) /\ fills[q] \in Entry
      BY <1>0 DEF SolverInv, TypeOK, FileOK, Files
    <3>2. fills'[q] = fills[q] /\ disk'[q] \in {disk[q], fills[q]}
      BY <1>w, <2>2
    <3>3. NoEntry.phase = None /\ NoEntry.f = None
      BY DEF NoEntry
    <3> QED BY <1>a, <3>1, <3>2, <3>3 DEF FileFits
  <2> QED BY <1>0, <2>1, <2>2 DEF Files
<1>7. Persisted'
  <2> SUFFICES ASSUME NEW g \in held, ~claimEnds(OrderOf[g]), NEW q, q = OrderOf[g]
               PROVE  good(disk, g)' /\ good(fills, g)'
    BY <1>0, <1>a DEF Persisted, OnFile
  <2>1. g \in FillIds /\ q \in Orders /\ OnFile(g) /\ good(disk, g) /\ good(fills, g)
    BY <1>0, Constants DEF SolverInv, TypeOK, Persisted, OnFile, held
  <2>2. CASE q = o
    <3>1. g = f
      BY <1>g, <2>1, <2>2
    <3>2. UNCHANGED <<fills, disk>> \/ (e.f = f /\ e.phase \in {"accepted", "filled"})
      BY <2>2, <3>1
    <3> QED BY <1>w, <2>1, <2>2, <3>1, <3>2 DEF good
  <2>3. CASE q # o
    BY <1>w, <2>1, <2>3 DEF good
  <2> QED BY <2>2, <2>3
<1>s. ASSUME NEW g \in FillIds, solid(g)' PROVE solid(g) \/ (g = f /\ accepted[f] # "no")
  <2>1. g \in held' => solid(g)
    BY <1>a DEF solid
  <2>2. f \in paid => solid(f)
    BY DEF solid, held
  <2>3. OrderOf[g] \in Orders /\ g # None
    BY Constants
  <2>4. good(disk, g)' \/ good(fills, g)' => solid(g) \/ (g = f /\ (f \in paid \/ accepted[f] # "no"))
    BY <1>h, <1>w, <2>3 DEF good, solid, NoEntry
  <2> QED BY <1>s, <2>1, <2>2, <2>4 DEF solid
<1>8. OneSolid'
  <2>1. accepted[f] # "no" => acceptedOrders[o] = f
    BY <1>0 DEF SolverInv, Registered
  <2>2. \A d \in Callers : call'[d].pc = "balance" => call[d].pc = "balance" /\ call'[d].f = call[d].f
    BY <1>d
  <2>3. \A d \in Callers : accepted[f] # "no" /\ call[d].pc = "balance" /\ OrderOf[call[d].f] = o => call[d].f = f
    BY <2>1, <1>0, Constants DEF SolverInv, CallOK, orderOf
  <2> QED BY <1>0, <1>s, <2>1, <2>2, <2>3 DEF SolverInv, OneSolid
<1>9. OneInPlay'
  <2>1. inPlay(f)
    BY DEF inPlay
  <2>2. ASSUME NEW g \in FillIds, inPlay(g)' PROVE inPlay(g)
    <3>1. OrderOf[g] \in Orders /\ g # None
      BY Constants
    <3>2. solid(g)' => inPlay(g)
      BY <1>s, <2>1 DEF inPlay
    <3>3. fills'[OrderOf[g]].f = g \/ disk'[OrderOf[g]].f = g => inPlay(g)
      BY <1>h, <1>w, <2>1, <3>1 DEF inPlay, NoEntry
    <3>4. ASSUME NEW d \in Callers, works(d)', call'[d].f = g PROVE inPlay(g)
      <4>1. CASE d \in D
        BY <2>1, <3>4, <4>1 DEF works
      <4> QED BY <1>d, <3>4, <4>1 DEF inPlay
    <3> QED BY <2>2, <3>2, <3>3, <3>4 DEF inPlay
  <2> QED BY <1>a, <2>2 DEF SolverInv, OneInPlay
<1>10. Followed'
  <2> SUFFICES ASSUME NEW g \in held, NEW h, h = OrderOf[g], ~claimEnds(h)
               PROVE  call'[h].pc # "off" \/ (call'["feed"].f = g /\ Posted("feed")')
    BY <1>a DEF Followed
  <2>1. g \in FillIds /\ h \in Orders /\ h \in Callers /\ h # "feed" /\ OnFile(g) /\ "feed" \in Callers
    BY Constants DEF SolverInv, TypeOK, Persisted, held
  <2>2. call[h].pc # "off" \/ (call["feed"].f = g /\ Posted("feed"))
    BY <1>0 DEF SolverInv, Followed
  <2>3. Posted("feed") => call["feed"].pc # "off"
    BY DEF Posted, answered
  <2>4. CASE h # o
    BY <1>d, <2>1, <2>2, <2>3, <2>4
  <2>5. CASE h = o
    <3>1. g = f
      BY <1>g, <2>1, <2>5
    <3>2. "feed" \notin D /\ Posted("feed") => Posted("feed")' /\ call'["feed"] = call["feed"]
      BY <1>d, <2>1
    <3>3. "feed" \in D /\ Posted("feed")' => call'["feed"].f = f
      BY DEF Posted, answered
    <3> QED BY <2>2, <2>5, <3>1, <3>2, <3>3
  <2> QED BY <2>4, <2>5
<1> QED BY <1>1, <1>2, <1>3, <1>4, <1>5, <1>6, <1>7, <1>8, <1>9, <1>10 DEF SolverInv

-----------------------------------------------------------------------------
\* The caller c moves on, with an answer, holding its order's place or not.
Moved(c, pc, own, res) ==
    /\ call' \in [Callers -> Call] /\ \A d \in Callers \ {c} : call'[d] = call[d]
    /\ call'[c].pc = pc /\ (call'[c].own <=> own) /\ call'[c].res = res
    /\ call'[c].f = call[c].f /\ call'[c].phase = call[c].phase
    /\ (call'[c].resume <=> call[c].resume)

\* How the model's updates of `call` read.
LEMMA Moves ==
    ASSUME TypeOK, NEW c \in Callers, NEW pc \in Pc, NEW res \in Answer \cup {None}
    PROVE  /\ goto(c, pc) => Moved(c, pc, call[c].own, None)
           /\ call' = [call EXCEPT ![c].pc = pc, ![c].res = res] => Moved(c, pc, call[c].own, res)
           /\ call' = [call EXCEPT ![c].pc = pc, ![c].own = TRUE] => Moved(c, pc, TRUE, call[c].res)
           /\ call' = [call EXCEPT ![c].pc = pc, ![c].res = res, ![c].own = FALSE] => Moved(c, pc, FALSE, res)
<1>1. call \in [Callers -> Call] /\ call[c] \in Call
  BY DEF TypeOK
<1>2. ASSUME NEW own \in BOOLEAN, NEW r \in Answer \cup {None},
             call' = [call EXCEPT ![c] = [call[c] EXCEPT !.pc = pc, !.own = own, !.res = r]]
      PROVE  Moved(c, pc, own, r)
  <2> DEFINE n == [call[c] EXCEPT !.pc = pc, !.own = own, !.res = r]
  <2>1. n \in Call /\ n.pc = pc /\ n.own = own /\ n.res = r /\ n.f = call[c].f /\ n.phase = call[c].phase /\ n.resume = call[c].resume
    BY <1>1 DEF Call
  <2> HIDE DEF n
  <2> QED BY <1>1, <1>2, <2>1 DEF Moved, n
<1>3. call[c].own \in BOOLEAN /\ call[c].res \in Answer \cup {None}
  BY <1>1 DEF Call
<1>4. ASSUME call' = [call EXCEPT ![c].pc = pc, ![c].res = res] PROVE Moved(c, pc, call[c].own, res)
  <2>1. call' = [call EXCEPT ![c] = [call[c] EXCEPT !.pc = pc, !.own = call[c].own, !.res = res]]
    BY <1>1, <1>4 DEF Call
  <2> QED BY <1>2, <1>3, <2>1
<1>5. ASSUME call' = [call EXCEPT ![c].pc = pc, ![c].own = TRUE] PROVE Moved(c, pc, TRUE, call[c].res)
  <2>1. call' = [call EXCEPT ![c] = [call[c] EXCEPT !.pc = pc, !.own = TRUE, !.res = call[c].res]]
    BY <1>1, <1>5 DEF Call
  <2> QED BY <1>2, <1>3, <2>1
<1>6. ASSUME call' = [call EXCEPT ![c].pc = pc, ![c].res = res, ![c].own = FALSE] PROVE Moved(c, pc, FALSE, res)
  <2>1. call' = [call EXCEPT ![c] = [call[c] EXCEPT !.pc = pc, !.own = FALSE, !.res = res]]
    BY <1>1, <1>6 DEF Call
  <2> QED BY <1>2, <2>1
<1>7. goto(c, pc) => Moved(c, pc, call[c].own, None)
  <2>1. call' = [call EXCEPT ![c].pc = pc, ![c].res = None] => call' = [call EXCEPT ![c] = [call[c] EXCEPT !.pc = pc, !.own = call[c].own, !.res = None]]
    BY <1>1 DEF Call
  <2> QED BY <1>2, <1>3, <2>1 DEF goto
<1> QED BY <1>4, <1>5, <1>6, <1>7

\* What a step of the gateway leaves to show of the caller that moves.
LEMMA Moving ==
    ASSUME SolverInv, NEW c \in Callers, works(c), works(c)',
           NEW pc, NEW own, NEW res, Moved(c, pc, own, res),
           UNCHANGED <<time, lock, paid, fills, bidding, unsent>>,
           pc \notin {"allow", "drop", "follow", "expired", "claim"},
           Accepts(c)' => Accepts(c), Unsent(c)' => Unsent(c) /\ fillTx' = fillTx, Unrecorded(c)' => Unrecorded(c),
           Accepts(c)' => answered(c, {"accepted"})' \/ (~answered(c, {"accepted"}) /\ held' = held),
           pc = "fill" \/ answered(c, {"accepted"})' => accepted'[call[c].f] # "no"
    PROVE  (c = "feed" => FeedOK') /\ (c # "feed" => TaskOK(c)')
<1>0. /\ call[c].pc # "off" /\ orderOf(c)' = orderOf(c) /\ orderOf(c) \in Orders
      /\ \A q : claimEnds(q)' = claimEnds(q)
  BY Working DEF works, orderOf, Moved, claimEnds, claimWindowOpen
<1>1. ASSUME c = "feed" PROVE FeedOK'
  <2>1. FeedOK /\ bidding
    BY <1>0, <1>1, Working
  <2>2. call'[orderOf(c)] = call[orderOf(c)]
    BY <1>0, <1>1, Constants DEF Moved
  <2> QED BY <1>0, <1>1, <2>1, <2>2 DEF FeedOK, Moved, works
<1>2. ASSUME c # "feed" PROVE TaskOK(c)'
  <2>1. TaskOK(c)
    BY <1>0, <1>2, Working
  <2> QED BY <1>0, <1>2, <2>1 DEF TaskOK, Moved, works
<1> QED BY <1>1, <1>2

\* A move of the caller c, working on the fill f of the order o, inside the gateway.
GatewayMoves(c, f, o, pc, own, res) ==
    /\ Moved(c, pc, own, res) /\ pc \in Pc /\ own \in BOOLEAN
    /\ pc \notin {"off", "prepare", "allow", "drop", "follow", "expired", "claim"}
    /\ UNCHANGED <<time, lock, paid, fills, disk, up, bidding, unsent>>
    /\ venueHolds' \in {venueHolds, venueHolds \cup {f}} /\ fillTx' \in {fillTx, fillTx \cup {f}}
    /\ held' # held => Owes(c) /\ accepted[f] # "no" /\ Posted(c)'
    /\ \/ UNCHANGED <<accepted, acceptedOrders>>
       \/ /\ call[c].own /\ acceptedOrders[o] \in {None, f}
          /\ call[c].pc = "balance" \/ accepted[f] # "no"
          /\ accepted' = [accepted EXCEPT ![f] = "signed"]
          /\ acceptedOrders' = [acceptedOrders EXCEPT ![o] = f]
    /\ \/ accepting' = accepting /\ (own => call[c].own)
       \/ ~own /\ accepting' = released(c)
       \/ accepting[o] = None /\ accepting' = [accepting EXCEPT ![o] = f]
    /\ own => pc \in {"slot", "balance", "sign", "onSigned", "post"}
    /\ pc \in {"slot", "balance"} => own /\ acceptedOrders'[o] \in {None, f}
    /\ pc = "balance" => call[c].pc = "balance" \/ claimWindowOpen(o)
    /\ pc = "sign" => own
    /\ \/ pc \in {"sign", "onSigned", "post", "fill", "send", "wait"}
       \/ pc = "answered" /\ res = "accepted"
       => accepted'[f] # "no"
    /\ pc = "answered" /\ res \in {"confirmed", "already_filled"} => f \in paid
    /\ Owes(c)' => Owes(c)
    /\ Unrecorded(c)' => Unrecorded(c)
    /\ Accepts(c)' => /\ Accepts(c)
                      /\ answered(c, {"accepted"})' \/ (~answered(c, {"accepted"}) /\ held' = held)
    /\ Unsent(c)' => Unsent(c) /\ fillTx' = fillTx
    /\ Posted(c) => Posted(c)' \/ call[o].pc # "off" \/ claimEnds(o)

\* Such a move is a GatewayStep.
LEMMA GatewayMove ==
    ASSUME SolverInv, TypeOK', NEW c \in Callers, works(c),
           NEW f, f = call[c].f, NEW o, o = OrderOf[f],
           NEW pc, NEW own, NEW res, GatewayMoves(c, f, o, pc, own, res)
    PROVE  SolverInv'
<1>0. /\ CallOK(c) /\ call[c].pc # "off" /\ f \in FillIds /\ o \in Orders /\ TypeOK
      /\ orderOf(c) = o /\ call[c] \in Call /\ up
  BY Working DEF works, SolverInv, orderOf
<1>1. /\ call'[c].f = f /\ orderOf(c)' = o /\ works(c)' /\ \A d \in Callers \ {c} : call'[d] = call[d]
      /\ call'[c].pc = pc /\ (call'[c].own <=> own) /\ call'[c].res = res
      /\ (call'[c].resume <=> call[c].resume)
  BY DEF GatewayMoves, Moved, orderOf, works
<1>2. OnFile(f)' <=> OnFile(f)
  BY DEF GatewayMoves, OnFile, good, claimEnds, claimWindowOpen
<1>3. CallOK(c)'
  <2>1. answered(c, {"confirmed", "already_filled"})' => f \in paid'
    BY <1>1 DEF answered, GatewayMoves
  <2>2. call'[c].own => accepting'[o] = f
    BY <1>0, <1>1 DEF CallOK, GatewayMoves, TypeOK
  <2>3. call'[c].resume => accepted'[f] # "no"
    BY <1>0, <1>1 DEF CallOK, GatewayMoves, TypeOK
  <2>4. Owes(c)' => OnFile(f)'
    BY <1>0, <1>2 DEF CallOK, GatewayMoves
  <2> QED BY <1>0, <1>1, <2>1, <2>2, <2>3, <2>4 DEF CallOK, GatewayMoves
<1>4. (c = "feed" => FeedOK') /\ (c # "feed" => TaskOK(c)')
  <2>1. answered(c, {"accepted"})' => pc = "answered" /\ res = "accepted"
    BY <1>1 DEF answered
  <2> QED BY <1>1, <2>1, Moving DEF GatewayMoves
<1>5. \/ accepting' = accepting /\ (call'[c].own => call[c].own)
      \/ ~call'[c].own /\ accepting' = released(c)
      \/ accepting[o] = None /\ accepting' = [accepting EXCEPT ![o] = f]
  BY <1>1 DEF GatewayMoves
<1> QED BY <1>0, <1>1, <1>3, <1>4, <1>5, GatewayStep DEF GatewayMoves

\* accept: join, refuse, take up what is signed, queue or re-sign.
LEMMA AcceptStep ==
    ASSUME SolverInv, NEW c \in Callers, Accept(c), UNCHANGED <<up, crashes, process, disk>>,
           NEW f, f = call[c].f, NEW o, o = OrderOf[f]
    PROVE  SolverInv'
<1>0. /\ call[c].pc = "accept" /\ CallOK(c) /\ works(c) /\ f \in FillIds /\ o \in Orders /\ TypeOK
      /\ orderOf(c) = o /\ ~call[c].own /\ call[c].own = FALSE /\ call[c] \in Call
  BY Working DEF Accept, at, works, SolverInv, orderOf, CallOK, Call
<1>1. \/ /\ UNCHANGED accepting
         /\ \/ Moved(c, "join", FALSE, None)
            \/ Moved(c, "answered", FALSE, "refused")
            \/ Moved(c, "onSigned", FALSE, None) /\ accepted[f] = "signed"
      \/ /\ accepting[o] = None /\ acceptedOrders[o] \in {None, f}
         /\ accepting' = [accepting EXCEPT ![o] = f]
         /\ \/ /\ accepted[f] # "no"
               /\ Moved(c, "sign", TRUE, call[c].res)
            \/ Moved(c, "slot", TRUE, call[c].res)
  BY <1>0, Moves DEF Accept, answer, requireOneFillPerOrder, Pc, Answer, CallOK
<1>2. TypeOK'
  BY <1>0, <1>1 DEF TypeOK, Moved, Accept, chain, process
<1>3. /\ UNCHANGED <<time, lock, paid, fills, disk, up, bidding, unsent, venueHolds, fillTx, accepted, acceptedOrders>>
      /\ held' = held
  BY DEF Accept, chain, process, held
<1>4. /\ (Accepts(c)' => Accepts(c) /\ ~answered(c, {"accepted"})) /\ (Unsent(c)' => Unsent(c))
      /\ (Owes(c)' => Owes(c)) /\ (Unrecorded(c)' => Unrecorded(c)) /\ ~Posted(c)
  BY <1>0, <1>1 DEF Unsent, Unrecorded, Accepts, answered, Moved, Owes, Posted
<1>5. \/ GatewayMoves(c, f, o, "join", FALSE, None) \/ GatewayMoves(c, f, o, "answered", FALSE, "refused")
      \/ GatewayMoves(c, f, o, "onSigned", FALSE, None) \/ GatewayMoves(c, f, o, "sign", TRUE, call[c].res)
      \/ GatewayMoves(c, f, o, "slot", TRUE, call[c].res)
  BY <1>0, <1>1, <1>3, <1>4 DEF GatewayMoves, Pc
<1> QED BY <1>0, <1>2, <1>5, GatewayMove

\* The joined acceptance ended; accept again.
LEMMA JoinedStep ==
    ASSUME SolverInv, NEW c \in Callers, Joined(c), UNCHANGED <<up, crashes, process, disk>>,
           NEW f, f = call[c].f, NEW o, o = OrderOf[f]
    PROVE  SolverInv'
<1>p. call[c].pc = "join"
  BY DEF Joined, at
<1>0. /\ call[c].pc = "join" /\ CallOK(c) /\ works(c) /\ f \in FillIds /\ o \in Orders /\ TypeOK
      /\ orderOf(c) = o /\ ~call[c].own /\ call[c].own = FALSE /\ call[c] \in Call
  BY <1>p, Working DEF works, SolverInv, orderOf, CallOK, Call
<1>1. Moved(c, "accept", FALSE, None)
  BY <1>0, Moves DEF Joined, Pc, Answer
<1>2. TypeOK'
  BY <1>0, <1>1 DEF TypeOK, Moved, Joined, chain, process, gateway
<1>3. /\ UNCHANGED <<time, lock, paid, fills, disk, up, bidding, unsent, venueHolds, fillTx, accepted, acceptedOrders, accepting>>
      /\ held' = held
  BY <1>0, <1>1 DEF Joined, chain, process, held, gateway
<1>4. /\ (Accepts(c)' => Accepts(c) /\ ~answered(c, {"accepted"})) /\ (Unsent(c)' => Unsent(c))
      /\ (Owes(c)' => Owes(c)) /\ (Unrecorded(c)' => Unrecorded(c)) /\ (Posted(c) => Posted(c)' \/ call[o].pc # "off" \/ claimEnds(o))
  BY <1>0, <1>1 DEF Unsent, Unrecorded, Accepts, answered, Moved, Owes, Posted, Answer
<1>5. GatewayMoves(c, f, o, "accept", FALSE, None)
  BY <1>0, <1>1, <1>3, <1>4 DEF GatewayMoves, Pc
<1> QED BY <1>0, <1>2, <1>5, GatewayMove

\* The windows, `filled` and the amounts owed to others.
LEMMA CheckAcceptStep ==
    ASSUME SolverInv, NEW c \in Callers, CheckAccept(c), UNCHANGED <<up, crashes, process, disk>>,
           NEW f, f = call[c].f, NEW o, o = OrderOf[f]
    PROVE  SolverInv'
<1>p. call[c].pc = "slot"
  BY DEF CheckAccept, at
<1>0. /\ call[c].pc = "slot" /\ CallOK(c) /\ works(c) /\ f \in FillIds /\ o \in Orders /\ TypeOK
      /\ orderOf(c) = o /\ call[c].own /\ call[c].own = TRUE /\ call[c] \in Call /\ acceptedOrders[o] \in {None, f}
      /\ (checkFillWindow(f) => claimWindowOpen(o))
  BY <1>p, Working, GatewayAssumption DEF works, SolverInv, orderOf, CallOK, Call, TypeOK, checkFillWindow, FillBudget, claimWindowOpen, ClaimInclusion
<1>1. \/ Moved(c, "answered", FALSE, "refused") /\ accepting' = released(c)
      \/ Moved(c, "balance", TRUE, None) /\ accepting' = accepting /\ claimWindowOpen(o)
  BY <1>0, Moves DEF CheckAccept, Pc, Answer, refuseAccept
<1>2. TypeOK'
  BY <1>0, <1>1 DEF TypeOK, Moved, CheckAccept, chain, process, released
<1>3. /\ UNCHANGED <<time, lock, paid, fills, disk, up, bidding, unsent, venueHolds, fillTx, accepted, acceptedOrders>>
      /\ held' = held
  BY <1>0, <1>1 DEF CheckAccept, chain, process, held
<1>4. /\ (Accepts(c)' => Accepts(c) /\ ~answered(c, {"accepted"})) /\ (Unsent(c)' => Unsent(c))
      /\ (Owes(c)' => Owes(c)) /\ (Unrecorded(c)' => Unrecorded(c)) /\ (Posted(c) => Posted(c)' \/ call[o].pc # "off" \/ claimEnds(o))
  BY <1>0, <1>1 DEF Unsent, Unrecorded, Accepts, answered, Moved, Owes, Posted, Answer
<1>5. \/ GatewayMoves(c, f, o, "answered", FALSE, "refused")
      \/ GatewayMoves(c, f, o, "balance", TRUE, None)
  BY <1>0, <1>1, <1>3, <1>4 DEF GatewayMoves, Pc
<1> QED BY <1>0, <1>2, <1>5, GatewayMove

\* The balance, then the signature: no other fill of the order is solid.
LEMMA SignAcceptanceStep ==
    ASSUME SolverInv, NEW c \in Callers, SignAcceptance(c), UNCHANGED <<up, crashes, process, disk>>,
           NEW f, f = call[c].f, NEW o, o = OrderOf[f]
    PROVE  SolverInv'
<1>p. call[c].pc = "balance"
  BY DEF SignAcceptance, at
<1>0. /\ call[c].pc = "balance" /\ CallOK(c) /\ works(c) /\ f \in FillIds /\ o \in Orders /\ TypeOK
      /\ orderOf(c) = o /\ call[c].own /\ call[c].own = TRUE /\ call[c] \in Call /\ acceptedOrders[o] \in {None, f}
  BY <1>p, Working DEF works, SolverInv, orderOf, CallOK, Call
<1>1. \/ /\ Moved(c, "answered", FALSE, "refused") /\ accepting' = released(c) /\ UNCHANGED <<accepted, acceptedOrders>>
      \/ /\ Moved(c, "onSigned", TRUE, None) /\ accepting' = accepting
         /\ accepted' = [accepted EXCEPT ![f] = "signed"]
         /\ acceptedOrders' = [acceptedOrders EXCEPT ![o] = f] /\ accepted'[f] # "no"
  BY <1>0, Moves DEF SignAcceptance, Pc, Answer, refuseAccept, recordSigned, TypeOK
<1>2. TypeOK'
  BY <1>0, <1>1 DEF TypeOK, Moved, SignAcceptance, chain, process, released, refuseAccept, recordSigned
<1>3. /\ UNCHANGED <<time, lock, paid, fills, disk, up, bidding, unsent, venueHolds, fillTx>>
      /\ held' = held
  BY <1>0, <1>1 DEF SignAcceptance, chain, process, held
<1>4. /\ (Accepts(c)' => Accepts(c) /\ ~answered(c, {"accepted"})) /\ (Unsent(c)' => Unsent(c))
      /\ (Owes(c)' => Owes(c)) /\ (Unrecorded(c)' => Unrecorded(c)) /\ (Posted(c) => Posted(c)' \/ call[o].pc # "off" \/ claimEnds(o))
  BY <1>0, <1>1 DEF Unsent, Unrecorded, Accepts, answered, Moved, Owes, Posted, Answer
<1>5. \/ GatewayMoves(c, f, o, "answered", FALSE, "refused")
      \/ GatewayMoves(c, f, o, "onSigned", TRUE, None)
  BY <1>0, <1>1, <1>3, <1>4 DEF GatewayMoves, Pc
<1> QED BY <1>0, <1>2, <1>5, GatewayMove

\* A restored acceptance is signed again.
LEMMA ResignAcceptanceStep ==
    ASSUME SolverInv, NEW c \in Callers, ResignAcceptance(c), UNCHANGED <<up, crashes, process, disk>>,
           NEW f, f = call[c].f, NEW o, o = OrderOf[f]
    PROVE  SolverInv'
<1>p. call[c].pc = "sign"
  BY DEF ResignAcceptance, at
<1>0. /\ call[c].pc = "sign" /\ CallOK(c) /\ works(c) /\ f \in FillIds /\ o \in Orders /\ TypeOK
      /\ orderOf(c) = o /\ call[c].own /\ call[c].own = TRUE /\ call[c] \in Call /\ accepted[f] # "no" /\ acceptedOrders[o] = f
  BY <1>p, Working DEF works, SolverInv, orderOf, CallOK, Call, Registered
<1>1. /\ Moved(c, "onSigned", TRUE, None) /\ accepting' = accepting
      /\ accepted' = [accepted EXCEPT ![f] = "signed"]
      /\ acceptedOrders' = [acceptedOrders EXCEPT ![o] = f] /\ accepted'[f] # "no"
  BY <1>0, Moves DEF ResignAcceptance, Pc, Answer, recordSigned, TypeOK
<1>2. TypeOK'
  BY <1>0, <1>1 DEF TypeOK, Moved, ResignAcceptance, chain, process, recordSigned
<1>3. /\ UNCHANGED <<time, lock, paid, fills, disk, up, bidding, unsent, venueHolds, fillTx>>
      /\ held' = held
  BY <1>0, <1>1 DEF ResignAcceptance, chain, process, held
<1>4. /\ (Accepts(c)' => Accepts(c) /\ ~answered(c, {"accepted"})) /\ (Unsent(c)' => Unsent(c))
      /\ (Owes(c)' => Owes(c)) /\ (Unrecorded(c)' => Unrecorded(c)) /\ (Posted(c) => Posted(c)' \/ call[o].pc # "off" \/ claimEnds(o))
  BY <1>0, <1>1 DEF Unsent, Unrecorded, Accepts, answered, Moved, Owes, Posted, Answer
<1>5. GatewayMoves(c, f, o, "onSigned", TRUE, None)
  BY <1>0, <1>1, <1>3, <1>4 DEF GatewayMoves, Pc
<1> QED BY <1>0, <1>2, <1>5, GatewayMove

\* The POST: the acceptance is on file before the venue may hold it.
LEMMA PostAcceptanceStep ==
    ASSUME SolverInv, NEW c \in Callers, PostAcceptance(c), UNCHANGED <<up, crashes, process, disk>>,
           NEW f, f = call[c].f, NEW o, o = OrderOf[f]
    PROVE  SolverInv'
<1>p. call[c].pc = "post"
  BY DEF PostAcceptance, at
<1>0. /\ call[c].pc = "post" /\ CallOK(c) /\ works(c) /\ f \in FillIds /\ o \in Orders /\ TypeOK
      /\ orderOf(c) = o /\ accepted[f] # "no" /\ call[c] \in Call
  BY <1>p, Working DEF works, SolverInv, orderOf, CallOK, Call
<1>1. Moved(c, "answered", FALSE, "accepted") /\ accepting' = released(c)
  BY <1>0, Moves DEF PostAcceptance, Pc, Answer
<1>2. TypeOK'
  BY <1>0, <1>1 DEF TypeOK, Moved, PostAcceptance, chain, process, released
<1>3. /\ UNCHANGED <<time, lock, paid, fills, disk, up, bidding, unsent, fillTx, accepted, acceptedOrders>>
      /\ venueHolds' \in {venueHolds, venueHolds \cup {f}}
  BY <1>0, <1>1 DEF PostAcceptance, chain, process, held
<1>4. /\ (Accepts(c)' => Accepts(c) /\ ~answered(c, {"accepted"})) /\ (Unsent(c)' => Unsent(c))
      /\ (Owes(c)' => Owes(c)) /\ (Unrecorded(c)' => Unrecorded(c)) /\ (Posted(c) => Posted(c)' \/ call[o].pc # "off" \/ claimEnds(o))
      /\ answered(c, {"accepted"})' /\ Posted(c)' /\ Owes(c)
  BY <1>0, <1>1 DEF Unsent, Unrecorded, Accepts, answered, Moved, Owes, Posted, Answer
<1>5. GatewayMoves(c, f, o, "answered", FALSE, "accepted")
  BY <1>0, <1>1, <1>3, <1>4 DEF GatewayMoves, Pc
<1> QED BY <1>0, <1>2, <1>5, GatewayMove

\* fill: what it answers at once.
LEMMA FillStep ==
    ASSUME SolverInv, NEW c \in Callers, Fill(c), UNCHANGED <<up, crashes, process, disk>>,
           NEW f, f = call[c].f, NEW o, o = OrderOf[f]
    PROVE  SolverInv'
<1>p. call[c].pc = "fill"
  BY DEF Fill, at
<1>0. /\ call[c].pc = "fill" /\ CallOK(c) /\ works(c) /\ f \in FillIds /\ o \in Orders /\ TypeOK
      /\ orderOf(c) = o /\ ~call[c].own /\ call[c].own = FALSE /\ call[c] \in Call /\ landed \subseteq paid
      /\ c = "feed" => acceptedOrders[o] = f /\ (f \in paid => call[o].pc # "off" \/ claimEnds(o))
      /\ c # "feed" => call[o].pc # "off"
  BY <1>p, Working DEF works, SolverInv, orderOf, CallOK, Call, FeedOK, Unsent, Registered, TypeOK
<1>1. /\ accepting' = accepting
      /\ \/ Moved(c, "answered", FALSE, "mismatch") /\ acceptedOrders[o] \notin {None, f}
         \/ Moved(c, "answered", FALSE, "not_accepted")
         \/ Moved(c, "answered", FALSE, "already_filled") /\ f \in paid
         \/ Moved(c, "answered", FALSE, "in_doubt")
         \/ Moved(c, "send", FALSE, None) /\ accepted[f] # "no"
  BY <1>0, Moves DEF Fill, Pc, Answer, answer, requireOneFillPerOrder
<1>2. TypeOK'
  BY <1>0, <1>1 DEF TypeOK, Moved, Fill, chain, process
<1>3. /\ UNCHANGED <<time, lock, paid, fills, disk, up, bidding, unsent, venueHolds, fillTx, accepted, acceptedOrders>>
      /\ held' = held
  BY <1>0, <1>1 DEF Fill, chain, process, held
<1>4. /\ (Accepts(c)' => Accepts(c) /\ ~answered(c, {"accepted"})) /\ (Unsent(c)' => Unsent(c))
      /\ (Owes(c)' => Owes(c)) /\ (Unrecorded(c)' => Unrecorded(c)) /\ (Posted(c) => Posted(c)' \/ call[o].pc # "off" \/ claimEnds(o))
  BY <1>0, <1>1 DEF Unsent, Unrecorded, Accepts, answered, Moved, Owes, Posted, Answer
<1>5. \/ GatewayMoves(c, f, o, "answered", FALSE, "mismatch")
      \/ GatewayMoves(c, f, o, "answered", FALSE, "not_accepted")
      \/ GatewayMoves(c, f, o, "answered", FALSE, "already_filled")
      \/ GatewayMoves(c, f, o, "answered", FALSE, "in_doubt")
      \/ GatewayMoves(c, f, o, "send", FALSE, None)
  BY <1>0, <1>1, <1>3, <1>4 DEF GatewayMoves, Pc
<1> QED BY <1>0, <1>2, <1>5, GatewayMove

\* The fill's transaction leaves for an accepted fill only.
LEMMA SendFillStep ==
    ASSUME SolverInv, NEW c \in Callers, SendFill(c), UNCHANGED <<up, crashes, process, disk>>,
           NEW f, f = call[c].f, NEW o, o = OrderOf[f]
    PROVE  SolverInv'
<1>p. call[c].pc = "send"
  BY DEF SendFill, at
<1>0. /\ call[c].pc = "send" /\ CallOK(c) /\ works(c) /\ f \in FillIds /\ o \in Orders /\ TypeOK
      /\ orderOf(c) = o /\ ~call[c].own /\ call[c].own = FALSE /\ accepted[f] # "no" /\ call[c] \in Call /\ landed \subseteq paid
      /\ c = "feed" => acceptedOrders[o] = f /\ (f \in paid => call[o].pc # "off" \/ claimEnds(o))
      /\ c # "feed" => call[o].pc # "off"
  BY <1>p, Working DEF works, SolverInv, orderOf, CallOK, Call, FeedOK, Unsent, Registered, TypeOK
<1>1. /\ accepting' = accepting /\ fillTx' \in {fillTx, fillTx \cup {f}}
      /\ \/ Moved(c, "answered", FALSE, "threw") /\ fillTx' = fillTx
         \/ Moved(c, "answered", FALSE, "already_filled") /\ f \in paid /\ fillTx' = fillTx
         \/ Moved(c, "answered", FALSE, "auth_expired") /\ fillTx' = fillTx
         \/ Moved(c, "answered", FALSE, "in_doubt")
         \/ Moved(c, "wait", FALSE, None)
  BY <1>0, Moves DEF SendFill, Pc, Answer, answer, endFill
<1>2. TypeOK'
  BY <1>0, <1>1 DEF TypeOK, Moved, SendFill, chain, process
<1>3. /\ UNCHANGED <<time, lock, paid, fills, disk, up, bidding, unsent, venueHolds, accepted, acceptedOrders>>
      /\ fillTx' = fillTx => held' = held
  BY <1>0, <1>1 DEF SendFill, chain, process, held
<1>4. /\ (Accepts(c)' => Accepts(c) /\ ~answered(c, {"accepted"})) /\ (Unsent(c)' => Unsent(c))
      /\ (Owes(c)' => Owes(c)) /\ (Unrecorded(c)' => Unrecorded(c)) /\ (Posted(c) => Posted(c)' \/ call[o].pc # "off" \/ claimEnds(o))
      /\ ~Unsent(c)' /\ ~Accepts(c)' /\ Owes(c) /\ (fillTx' # fillTx => Posted(c)')
      /\ ~Unsent(c)' /\ ~Accepts(c)' /\ Owes(c) /\ (fillTx' # fillTx => Posted(c)')
  BY <1>0, <1>1 DEF Unsent, Unrecorded, Accepts, answered, Moved, Owes, Posted, Answer
<1>5. \/ GatewayMoves(c, f, o, "answered", FALSE, "threw")
      \/ GatewayMoves(c, f, o, "answered", FALSE, "already_filled")
      \/ GatewayMoves(c, f, o, "answered", FALSE, "auth_expired")
      \/ GatewayMoves(c, f, o, "answered", FALSE, "in_doubt")
      \/ GatewayMoves(c, f, o, "wait", FALSE, None)
  BY <1>0, <1>1, <1>3, <1>4 DEF GatewayMoves, Pc
<1> QED BY <1>0, <1>2, <1>5, GatewayMove

\* The receipt, or none in time.
LEMMA AwaitReceiptStep ==
    ASSUME SolverInv, NEW c \in Callers, AwaitReceipt(c), UNCHANGED <<up, crashes, process, disk>>,
           NEW f, f = call[c].f, NEW o, o = OrderOf[f]
    PROVE  SolverInv'
<1>p. call[c].pc = "wait"
  BY DEF AwaitReceipt, at
<1>0. /\ call[c].pc = "wait" /\ CallOK(c) /\ works(c) /\ f \in FillIds /\ o \in Orders /\ TypeOK
      /\ orderOf(c) = o /\ ~call[c].own /\ call[c].own = FALSE /\ accepted[f] # "no" /\ call[c] \in Call
  BY <1>p, Working DEF works, SolverInv, orderOf, CallOK, Call
<1>1. /\ accepting' = accepting /\ landed' \subseteq landed \cup (paid \cap {f})
      /\ \/ Moved(c, "answered", FALSE, "threw")
         \/ Moved(c, "answered", FALSE, "confirmed") /\ f \in paid
         \/ Moved(c, "answered", FALSE, "in_doubt")
  BY <1>0, Moves DEF AwaitReceipt, Pc, Answer, answer, endFill
<1>2. TypeOK'
  BY <1>0, <1>1 DEF TypeOK, Moved, AwaitReceipt, chain, process
<1>3. /\ UNCHANGED <<time, lock, paid, fills, disk, up, bidding, unsent, venueHolds, fillTx, accepted, acceptedOrders>>
      /\ held' = held
  BY <1>0, <1>1 DEF AwaitReceipt, chain, process, held
<1>4. /\ (Accepts(c)' => Accepts(c) /\ ~answered(c, {"accepted"})) /\ (Unsent(c)' => Unsent(c))
      /\ (Owes(c)' => Owes(c)) /\ (Unrecorded(c)' => Unrecorded(c)) /\ (Posted(c) => Posted(c)' \/ call[o].pc # "off" \/ claimEnds(o))
  BY <1>0, <1>1 DEF Unsent, Unrecorded, Accepts, answered, Moved, Owes, Posted, Answer
<1>5. \/ GatewayMoves(c, f, o, "answered", FALSE, "threw")
      \/ GatewayMoves(c, f, o, "answered", FALSE, "confirmed")
      \/ GatewayMoves(c, f, o, "answered", FALSE, "in_doubt")
  BY <1>0, <1>1, <1>3, <1>4 DEF GatewayMoves, Pc
<1> QED BY <1>0, <1>2, <1>5, GatewayMove

\* The chains and the clock move.
LEMMA WorldMoves == ASSUME SolverInv, World PROVE SolverInv'
<1>1. UNCHANGED <<venueHolds, accepted, acceptedOrders, accepting, landed, call, up, unsent, bidding, fills, disk>>
  BY DEF World, FillLands, FillDies, ClaimLands, ClaimDies, Refund, Tick, memory, gateway, process
<1>2. /\ paid \subseteq paid' /\ paid' \cup fillTx' \subseteq paid \cup fillTx /\ time' \in Int
      /\ lock' \in [Orders -> {"Open", "Claimed", "Refunded"}]
      /\ \A q \in Orders : lock[q] # "Open" => lock'[q] # "Open"
      /\ time' \in {time, time + 1} /\ time \in Int
  BY DEF World, FillLands, FillDies, ClaimLands, ClaimDies, Refund, Tick, SolverInv, TypeOK
<1>3. TypeOK'
  BY <1>1, <1>2 DEF SolverInv, TypeOK
<1>4. \A q \in Orders : (claimWindowOpen(q)' => claimWindowOpen(q)) /\ (claimEnds(q) => claimEnds(q)')
  BY <1>2, GatewayAssumption DEF claimEnds, claimWindowOpen, ClaimInclusion
<1> QED BY <1>1, <1>2, <1>3, <1>4, WorldStep

\* A pass of the claim loop.
LEMMA ClaimMoves == ASSUME SolverInv, NEW o \in Orders, Claim(o) PROVE SolverInv'
<1>1. UNCHANGED <<time, lock, paid, fillTx, venueHolds, gateway, call, up, process, disk>>
  BY DEF Claim, ClaimPass
<1>2. TypeOK'
  BY <1>1 DEF SolverInv, TypeOK, gateway, process
<1> QED BY <1>1, <1>2, WorldStep DEF gateway, process, claimEnds, claimWindowOpen

\* startSolver goes on, or nothing happens.
LEMMA StartMoves == ASSUME SolverInv, ApprovalStands \/ StartBidding \/ UNCHANGED vars PROVE SolverInv'
<1>1. /\ UNCHANGED <<chain, gateway, call, up, unsent, fills, disk>>
      /\ bidding' = bidding \/ (up /\ unsent = {} /\ bidding')
  BY DEF ApprovalStands, StartBidding, vars, process
<1>2. TypeOK'
  BY <1>1 DEF SolverInv, TypeOK, chain, gateway, ApprovalStands, StartBidding, vars, process
<1> QED BY <1>1, <1>2, WorldStep DEF chain, gateway, claimEnds, claimWindowOpen

-----------------------------------------------------------------------------
\* A file that gains no other fill's entry keeps the fill's.
LEMMA Kept ==
    ASSUME SolverInv, NEW f \in FillIds, NEW o, o = OrderOf[f], NEW e, Writes(o, e),
           UNCHANGED <<time, lock, up>>,
           UNCHANGED <<fills, disk>> \/ e \in [phase : {"accepted", "filled"}, f : {f}]
    PROVE  OnFile(f) => OnFile(f)'
<1>1. /\ fills'[o] \in {fills[o], e} /\ disk'[o] \in {disk[o], e} /\ (UNCHANGED <<fills, disk>> \/ (e.f = f /\ e.phase \in {"accepted", "filled"}))
  BY Constants DEF Writes, put, SolverInv, TypeOK, FileOK
<1> QED BY <1>1 DEF OnFile, good, claimEnds, claimWindowOpen

\* A file in which one order's entry is rewritten is still a file.
LEMMA TypedFile ==
    ASSUME SolverInv, NEW o \in Orders, NEW e \in Entry, e.f # None => OrderOf[e.f] = o, Writes(o, e)
    PROVE  FileOK(fills') /\ FileOK(disk')
  BY DEF SolverInv, TypeOK, FileOK, Writes, put

\* An order's task goes on, whether or not it records its fill as landed.
LEMMA TaskGoes ==
    ASSUME SolverInv, NEW o \in Orders, works(o), ~call[o].own, NEW f, f = call[o].f,
           NEW pc \in {"accept", "follow", "allow", "drop", "claim", "fill", "expired"},
           Moved(o, pc, FALSE, None),
           UNCHANGED <<time, lock, paid, fillTx, venueHolds, gateway, up, bidding>>,
           unsent' \in {unsent, unsent \ {o}},
           NEW e, Writes(o, e),
           UNCHANGED <<fills, disk>> \/ (e \in [phase : {"filled"}, f : {f}] /\ f \in paid),
           Owes(o)' => Owes(o),
           Accepts(o)' => Accepts(o) /\ o \in unsent' /\ (call[o].phase = "accepting" => ~answered(o, {"accepted"})),
           pc = "drop" => call[o].phase = "accepting",
           Unrecorded(o)' /\ call[o].phase = "accepting" => Unrecorded(o) /\ UNCHANGED fills
    PROVE  SolverInv'
<1>0. /\ f \in FillIds /\ OrderOf[f] = o /\ CallOK(o) /\ TaskOK(o) /\ up /\ o \in Callers
      /\ call[o].pc # "off" /\ TypeOK
  BY Working, Constants DEF works, orderOf, SolverInv
<1>1. /\ \A d \in Callers \ {o} : call'[d] = call[d]
      /\ call'[o].pc = pc /\ ~call'[o].own /\ call'[o].f = f /\ works(o)' /\ orderOf(o)' = o
      /\ call'[o].phase = call[o].phase /\ (call'[o].resume <=> call[o].resume)
  BY <1>0 DEF Moved, works, orderOf
<1>2. OnFile(f) => OnFile(f)'
  BY <1>0, Kept
<1>3. CallOK(o)'
  <2>1. ~answered(o, {"confirmed", "already_filled"})' /\ ~answered(o, {"accepted"})'
    BY <1>1 DEF answered
  <2> QED BY <1>0, <1>1, <1>2, <2>1 DEF CallOK, gateway
<1>4. TaskOK(o)'
  <2>1. fills'[o].f = fills[o].f \/ fills'[o].f = f
    BY <1>0 DEF Writes, put, SolverInv, TypeOK, FileOK
  <2>2. answered(o, {"accepted"})' = FALSE
    BY <1>1 DEF answered
  <2> QED BY <1>0, <1>1, <2>1, <2>2 DEF TaskOK, held, claimEnds, claimWindowOpen
<1>t. TypeOK'
  <2>1. \/ UNCHANGED <<fills, disk>>
        \/ e \in Entry /\ e.f = f
    BY <1>0 DEF Entry, Phase
  <2>2. FileOK(fills') /\ FileOK(disk')
    BY <1>0, <2>1, TypedFile DEF TypeOK, FileOK
  <2> QED BY <1>0, <2>2 DEF TypeOK, Moved, gateway
<1>5. FileMoves(o, f, o, {o}, e)
  BY <1>0, <1>1, <1>3, <1>4, Constants DEF FileMoves, gateway
<1> QED BY <1>0, <1>t, <1>5, FileMove

\* An order's task ends: its lock no longer waits for a claim, or its fill left no mark.
LEMMA TaskStops ==
    ASSUME SolverInv, NEW o \in Orders, works(o), ~call[o].own, NEW f, f = call[o].f,
           call' = [call EXCEPT ![o] = NoCall],
           UNCHANGED <<time, lock, paid, fillTx, venueHolds, gateway, up, bidding>>,
           unsent' = unsent \ {o},
           Writes(o, NoEntry),
           claimEnds(o) \/ (f \notin held /\ fills[o].phase = "accepting" /\ o \in unsent)
    PROVE  SolverInv'
<1>0. /\ f \in FillIds /\ OrderOf[f] = o /\ up /\ o \in Callers /\ TypeOK
  BY Working, Constants DEF works, orderOf, SolverInv
<1>1. call'[o] = NoCall /\ \A d \in Callers \ {o} : call'[d] = call[d]
  BY <1>0 DEF TypeOK
<1>2. CallOK(o)'
  BY <1>0, <1>1, Constants DEF CallOK, NoCall, Owes, answered
<1>3. TaskOK(o)'
  BY <1>1, Constants DEF TaskOK, NoCall, Accepts, Unrecorded, answered
<1>4. ~claimEnds(o) => \A d \in Callers : call'[d].pc # "off" => orderOf(d)' # o
  <2>1. o \in unsent => call["feed"].pc = "off"
    BY Working, Constants DEF SolverInv, FeedOK, Running
  <2>2. \A d \in Orders \ {o} : call[d].pc # "off" => orderOf(d) = d
    BY Working, Constants
  <2>3. \A d \in Callers \ {o} : orderOf(d)' = orderOf(d)
    BY <1>1 DEF orderOf
  <2> QED BY <1>1, <2>1, <2>2, <2>3, Constants DEF NoCall
<1>t. TypeOK'
  <2>1. FileOK(fills') /\ FileOK(disk')
    BY TypedFile DEF Entry, NoEntry
  <2>2. NoCall \in Call
    BY DEF NoCall, Call, Pc
  <2> QED BY <1>0, <2>1, <2>2 DEF TypeOK, gateway
<1>5. FileMoves(o, f, o, {o}, NoEntry)
  BY <1>0, <1>1, <1>2, <1>3, <1>4, Constants DEF FileMoves, gateway, NoCall
<1> QED BY <1>0, <1>t, <1>5, FileMove

\* Every step of a settle task.
LEMMA TaskMoves == ASSUME SolverInv, NEW o \in Orders, Task(o) PROVE SolverInv'
<1> DEFINE f == call[o].f
<1>0. /\ call[o].pc \in {"allow", "answered", "drop", "follow", "expired", "claim"} /\ o \in Callers
      /\ UNCHANGED <<time, lock, paid, fillTx, venueHolds, gateway, up, bidding>>
  BY Constants DEF Task, AllowanceStands, AcceptAnswered, Drop, FollowSees, FollowStops, FollowFills,
                   FillAnswered, ClaimEnds, at, sameSolver, restOfChain
<1>1. /\ works(o) /\ f \in FillIds /\ OrderOf[f] = o /\ CallOK(o) /\ TaskOK(o) /\ TypeOK /\ ~call[o].own /\ call[o].own = FALSE
      /\ call[o] \in Call
  BY <1>0, Working, Constants DEF works, orderOf, SolverInv, CallOK, Call
<1>a. /\ \A pc \in Pc : goto(o, pc) => Moved(o, pc, FALSE, None)
      /\ recordBestEffort("filled", f) => Writes(o, [phase |-> "filled", f |-> f])
      /\ forget(o) => Writes(o, NoEntry)
      /\ \A e : UNCHANGED <<fills, disk>> => Writes(o, e)
  BY <1>0, <1>1, Moves DEF recordBestEffort, forget, entry, write, writeFails, Writes
<1>b. ASSUME NEW pc \in {"accept", "follow", "allow", "drop", "claim", "fill", "expired"}, goto(o, pc),
             unsent' \in {unsent, unsent \ {o}},
             \/ UNCHANGED <<fills, disk>>
             \/ f \in paid /\ recordBestEffort("filled", f),
             pc \in {"fill", "follow", "expired"} => Owes(o),
             pc \in {"accept", "allow", "drop"} =>
                 /\ Accepts(o) /\ unsent' = unsent
                 /\ call[o].phase = "accepting" => ~answered(o, {"accepted"}) /\ Unrecorded(o) /\ UNCHANGED fills,
             pc = "drop" => call[o].phase = "accepting"
      PROVE  SolverInv'
  <2>1. Moved(o, pc, FALSE, None)
    BY <1>a, <1>b DEF Pc
  <2>2. /\ (Owes(o)' => Owes(o)) /\ (Accepts(o)' => pc \in {"accept", "allow", "drop"})
        /\ (Unrecorded(o)' => pc \in {"accept", "allow", "drop"})
    BY <1>b, <2>1 DEF Owes, Accepts, Unrecorded, answered, Moved
  <2>3. Accepts(o)' => Accepts(o) /\ o \in unsent' /\ (call[o].phase = "accepting" => ~answered(o, {"accepted"}))
    BY <1>1, <1>b, <2>2 DEF TaskOK
  <2>4. CASE UNCHANGED <<fills, disk>>
    BY <1>0, <1>1, <1>a, <1>b, <2>1, <2>2, <2>3, <2>4, TaskGoes
  <2>5. CASE f \in paid /\ recordBestEffort("filled", f)
    BY <1>0, <1>1, <1>a, <1>b, <2>1, <2>2, <2>3, <2>5, TaskGoes
  <2> QED BY <1>b, <2>4, <2>5
<1>2. CASE AllowanceStands(o)
  <2>1. Accepts(o) /\ Unrecorded(o) /\ ~answered(o, {"accepted"}) /\ (call[o].phase # "accepting" => Owes(o))
    BY <1>1, <1>2 DEF AllowanceStands, at, Accepts, Unrecorded, answered, Owes, TaskOK
  <2>2. CASE call[o].phase = "accepting"
    BY <1>2, <1>b, <2>1, <2>2 DEF AllowanceStands
  <2>3. CASE call[o].phase # "accepting"
    BY <1>2, <1>b, <2>1, <2>3 DEF AllowanceStands
  <2> QED BY <2>2, <2>3
<1>3. CASE AcceptAnswered(o)
  <2>1. Accepts(o) /\ (answered(o, {"accepted"}) <=> call[o].res = "accepted") /\ (call[o].res = "accepted" => Owes(o))
        /\ (call[o].phase # "accepted" => call[o].phase = "accepting") /\ (call[o].res # "accepted" => Unrecorded(o))
    BY <1>1, <1>3 DEF AcceptAnswered, at, Accepts, Unrecorded, answered, Owes, TaskOK, Answer
  <2>2. CASE call[o].phase = "accepted"
    BY <1>3, <1>b, <2>1, <2>2 DEF AcceptAnswered
  <2>3. CASE call[o].phase # "accepted" /\ call[o].res = "accepted"
    BY <1>3, <1>b, <2>1, <2>3 DEF AcceptAnswered
  <2>4. CASE call[o].phase # "accepted" /\ call[o].res # "accepted"
    BY <1>3, <1>b, <2>1, <2>4 DEF AcceptAnswered
  <2> QED BY <2>2, <2>3, <2>4
<1>4. CASE Drop(o)
  <2>1. ((f \notin held /\ fills[o].phase = "accepting") \/ claimEnds(o)) /\ o \in unsent
    BY <1>1, <1>4 DEF Drop, at, TaskOK, Accepts, Unrecorded, answered
  <2>2. CASE forget(o) /\ taskEnds(o)
    BY <1>0, <1>1, <1>a, <2>1, <2>2, TaskStops DEF taskEnds
  <2>3. CASE f \in paid /\ recordBestEffort("filled", f) /\ toClaim(o)
    BY <1>b, <2>3 DEF toClaim
  <2>4. CASE UNCHANGED <<fills, disk>> /\ toClaim(o)
    BY <1>b, <2>4 DEF toClaim
  <2> QED BY <1>4, <2>2, <2>3, <2>4 DEF Drop
<1>5. CASE FollowSees(o)
  BY <1>5, <1>b DEF FollowSees, toClaim
<1>6. CASE FollowStops(o)
  BY <1>6, <1>b DEF FollowStops, toClaim
<1>7. CASE FollowFills(o)
  BY <1>7, <1>b DEF FollowFills, at, Owes
<1>8. CASE FillAnswered(o)
  <2>1. at(o, "answered") /\ call[o].res \notin {"accepted", "refused"}
    BY <1>8 DEF FillAnswered
  <2>2. call[o].res \in Answer => Owes(o)
    BY <2>1 DEF at, Owes, answered
  <2>3. call[o].res \in {"confirmed", "already_filled"} => f \in paid
    BY <1>1, <2>1 DEF at, CallOK, answered
  <2>4. CASE /\ call[o].res \in {"confirmed", "already_filled"}
             /\ recordBestEffort("filled", f) /\ toClaim(o)
    BY <1>b, <2>3, <2>4 DEF toClaim
  <2>5. CASE toClaim(o) /\ UNCHANGED <<fills, disk>>
    BY <1>b, <2>5 DEF toClaim
  <2>6. CASE call[o].res = "auth_expired" /\ goto(o, "expired") /\ unsent' = unsent \ {o} /\ UNCHANGED <<fills, disk>>
    BY <1>b, <2>2, <2>6 DEF Answer
  <2>7. CASE call[o].res \in {"in_doubt", "threw"} /\ goto(o, "follow") /\ unsent' \in {unsent, unsent \ {o}} /\ UNCHANGED <<fills, disk>>
    BY <1>b, <2>2, <2>7 DEF Answer
  <2> QED BY <1>8, <2>4, <2>5, <2>6, <2>7 DEF FillAnswered
<1>9. CASE ClaimEnds(o)
  BY <1>0, <1>1, <1>9, <1>a, TaskStops DEF ClaimEnds, taskEnds
<1> QED BY <1>2, <1>3, <1>4, <1>5, <1>6, <1>7, <1>8, <1>9 DEF Task

\* onSigned: the entry `accepted` reaches the file before the POST.
LEMMA OnSignedMoves ==
    ASSUME SolverInv, NEW c \in Callers, OnSigned(c), NEW f, f = call[c].f, NEW o, o = OrderOf[f]
    PROVE  SolverInv'
<1>p. call[c].pc = "onSigned"
  BY DEF OnSigned, at
<1> DEFINE e == [phase |-> "accepted", f |-> f]
<1>0. /\ works(c) /\ CallOK(c) /\ TypeOK /\ f \in FillIds /\ o \in Orders /\ o \in Callers /\ orderOf(c) = o /\ up
      /\ accepted[f] # "no" /\ call[c] \in Call /\ call[c].own \in BOOLEAN
      /\ (c = "feed" => FeedOK) /\ (c # "feed" => TaskOK(c) /\ c = o)
  BY <1>p, Working, Constants DEF works, SolverInv, orderOf, CallOK, Call
<1>1. /\ UNCHANGED <<time, lock, paid, fillTx, venueHolds, accepted, acceptedOrders, landed, up, bidding, unsent>>
      /\ Writes(o, e)
      /\ \/ /\ Moved(c, "post", call[c].own, None) /\ accepting' = accepting
            /\ \/ ~recordsAccepted(c) /\ UNCHANGED <<fills, disk>>
               \/ fills' = put(o, e) /\ disk' = put(o, e)
         \/ Moved(c, "answered", FALSE, "refused") /\ accepting' = released(c) /\ UNCHANGED fills
  BY <1>0, Moves DEF OnSigned, restOfChain, signedThrew, write, writeFails, Writes, entry, Pc, Answer
<1>2. /\ e \in [phase : {"accepted", "filled"}, f : {f}] /\ e \in Entry /\ e.f = f /\ e.phase = "accepted"
  BY <1>0 DEF Entry, Phase
<1> HIDE DEF e
<1>t. TypeOK'
  <2>1. FileOK(fills') /\ FileOK(disk')
    BY <1>0, <1>1, <1>2, TypedFile
  <2> QED BY <1>0, <1>1, <2>1 DEF TypeOK, Moved, released
<1>3. /\ \A d \in Callers \ {c} : call'[d] = call[d]
      /\ call'[c].f = f /\ orderOf(c)' = o /\ works(c)' /\ call'[c].pc \in {"post", "answered"}
      /\ (call'[c].own => call[c].own /\ call'[c].pc = "post" /\ accepting' = accepting)
      /\ call'[c].phase = call[c].phase /\ (call'[c].resume <=> call[c].resume)
      /\ Accepts(c) /\ Accepts(c)' /\ ~answered(c, {"accepted"}) /\ ~answered(c, {"accepted", "confirmed", "already_filled"})'
      /\ Unrecorded(c) /\ (Unrecorded(c)' => UNCHANGED fills)
  BY <1>p, <1>1 DEF Moved, orderOf, works, Accepts, Unrecorded, answered
<1>4. CallOK(c)'
  <2>1. Owes(c)' => OnFile(f)'
    <3>1. OnFile(f) => OnFile(f)'
      BY <1>0, <1>1, <1>2, Kept
    <3>2. call[c].phase \in {"accepted", "filled"} => OnFile(f)
      BY <1>0 DEF CallOK, Owes
    <3>3. call'[c].pc = "answered" => answered(c, {"refused"})'
      BY <1>1, <1>3 DEF Moved, answered
    <3>4. Owes(c)' => call'[c].pc = "post" \/ call[c].phase \in {"accepted", "filled"}
      BY <1>3, <3>3 DEF Owes, answered
    <3>5. fills' = put(o, e) /\ disk' = put(o, e) => OnFile(f)'
      BY <1>0, <1>2 DEF OnFile, good, put, TypeOK, FileOK
    <3>6. call'[c].pc = "post" /\ ~recordsAccepted(c) => call[c].phase \in {"accepted", "filled"}
      BY <1>0, <1>3 DEF recordsAccepted, TaskOK, Call, Phase
    <3> QED BY <1>1, <3>1, <3>2, <3>4, <3>5, <3>6 DEF Moved
  <2> QED BY <1>0, <1>1, <1>3, <2>1 DEF CallOK, answered
<1>5. fills'[o].f \in {fills[o].f, f}
  BY <1>0, <1>1, <1>2 DEF Writes, put, TypeOK, FileOK
<1>w. ~answered(c, {"accepted"})' /\ \A q : claimEnds(q)' = claimEnds(q)
  BY <1>1, <1>3 DEF answered, claimEnds, claimWindowOpen
<1>6. c = "feed" => FeedOK'
  <2> SUFFICES ASSUME c = "feed" PROVE FeedOK'
    OBVIOUS
  <2>1. /\ bidding' /\ accepted'[f] # "no" /\ call'[o] = call[o] /\ Unsent("feed")
        /\ claimEnds(o) \/ (fills[o].f = f /\ (call["feed"].phase = None => call[o].pc = "off")
                            /\ (call["feed"].phase = None => fills[o].phase = "accepting")
                            /\ (call[o].pc = "off" => f \notin fillTx \cup paid))
    BY <1>p, <1>0, <1>1, <1>3, Constants DEF FeedOK, Unsent
  <2> QED BY <1>0, <1>1, <1>3, <1>5, <1>w, <2>1 DEF FeedOK
<1>7. c # "feed" => TaskOK(c)'
  <2> SUFFICES ASSUME c # "feed" PROVE TaskOK(o)'
    BY <1>0
  <2>1. /\ o \in unsent' /\ call[o].phase \in {"accepting", "accepted"} /\ OrderOf[f] = o
        /\ claimEnds(o) \/ fills[o].f = f
        /\ call[o].phase = "accepting" => (f \notin held' /\ fills[o].phase = "accepting") \/ claimEnds(o)
    BY <1>p, <1>0, <1>1, <1>3 DEF TaskOK, held
  <2> QED BY <1>0, <1>3, <1>5, <1>w, <2>1 DEF TaskOK
<1>8. FileMoves(c, f, o, {c}, e)
  <2>1. ~Posted(c)
    BY <1>p DEF Posted, answered
  <2> QED BY <1>0, <1>1, <1>2, <1>3, <1>4, <1>6, <1>7, <2>1, Constants DEF FileMoves, works
<1> QED BY <1>0, <1>t, <1>8, FileMove

\* The feed goes on from the gateway's answer.
LEMMA FeedAnsweredMoves ==
    ASSUME SolverInv, FeedAnswered, NEW f, f = call["feed"].f, NEW o, o = OrderOf[f]
    PROVE  SolverInv'
<1>p. call["feed"].pc = "answered" /\ "feed" \in Callers
  BY Constants DEF FeedAnswered, at
<1> DEFINE e == [phase |-> "filled", f |-> f]
           k == call["feed"]
<1>0. /\ works("feed") /\ CallOK("feed") /\ TypeOK /\ f \in FillIds /\ o \in Orders /\ o \in Callers /\ o # "feed"
      /\ orderOf("feed") = o /\ up /\ k \in Call /\ ~k.own /\ k.own = FALSE /\ FeedOK /\ bidding /\ unsent = {} /\ f # None
  BY <1>p, Working, Constants DEF works, SolverInv, orderOf, CallOK, Call
<1>1. /\ UNCHANGED <<time, lock, paid, fillTx, venueHolds, gateway, up, bidding, unsent>>
      /\ (forget(o) => Writes(o, NoEntry)) /\ (recordBestEffort("filled", f) => Writes(o, e))
      /\ (UNCHANGED <<fills, disk>> => Writes(o, NoEntry) /\ Writes(o, e))
  BY DEF FeedAnswered, restOfChain, forget, recordBestEffort, write, writeFails, Writes, entry
<1>2. e \in [phase : {"accepted", "filled"}, f : {f}] /\ e \in Entry /\ e.f = f
  BY <1>0 DEF Entry, Phase
<1> HIDE DEF e
<1>w. \A q : claimEnds(q)' = claimEnds(q)
  BY <1>1 DEF claimEnds, claimWindowOpen
<1>3. FeedOK => /\ claimEnds(o) \/ fills[o].f = f
                /\ claimEnds(o) \/ (k.phase = None /\ Unrecorded("feed") => fills[o].phase = "accepting")
                /\ claimEnds(o) \/ (k.phase = None => call[o].pc = "off")
  BY <1>0 DEF FeedOK
<1>n. NoCall \in Call /\ NoCall.pc = "off" /\ ~NoCall.own /\ NoCall.f = None /\ NoCall.phase = None /\ ~NoCall.resume
  BY DEF NoCall, Call, Pc
<1>4. CASE k.res = "accepted" /\ goto("feed", "fill") /\ UNCHANGED <<fills, disk>>
  <2>1. Moved("feed", "fill", FALSE, None)
    BY <1>p, <1>0, <1>4, Moves DEF Pc
  <2>2. /\ \A d \in Callers \ {"feed"} : call'[d] = call[d]
        /\ call'["feed"].pc = "fill" /\ ~call'["feed"].own /\ call'["feed"].f = f /\ orderOf("feed")' = o
        /\ works("feed")' /\ call'["feed"].phase = k.phase /\ (call'["feed"].resume <=> k.resume)
        /\ ~answered("feed", {"accepted"})' /\ ~answered("feed", {"confirmed", "already_filled"})' /\ Posted("feed")'
        /\ answered("feed", {"accepted"}) /\ Owes("feed") /\ Unsent("feed") /\ ~Unrecorded("feed")'
    BY <1>p, <1>4, <2>1 DEF Moved, orderOf, works, answered, Posted, Owes, Answer, Unsent, Accepts, Unrecorded
  <2>3. TypeOK'
    BY <1>0, <1>1, <1>4, <2>1 DEF TypeOK, Moved, gateway
  <2>4. CallOK("feed")'
    BY <1>0, <1>1, <1>4, <2>2 DEF CallOK, gateway, OnFile, good, claimEnds, claimWindowOpen
  <2>5. FeedOK'
    BY <1>0, <1>1, <1>4, <1>w, <2>2 DEF FeedOK, gateway
  <2>6. FileMoves("feed", f, o, {"feed"}, NoEntry)
    BY <1>p, <1>0, <1>1, <1>4, <2>2, <2>4, <2>5 DEF FileMoves, gateway
  <2> QED BY <1>p, <1>0, <2>3, <2>6, FileMove
<1>5. CASE /\ k.res \in {"refused", "already_filled", "mismatch"} /\ call' = [call EXCEPT !["feed"] = NoCall]
           /\ UNCHANGED <<fills, disk>> \/ (k.res = "refused" /\ k.phase = None /\ forget(o))
  <2>1. call'["feed"] = NoCall /\ \A d \in Callers \ {"feed"} : call'[d] = call[d]
    BY <1>p, <1>0, <1>5 DEF TypeOK
  <2>2. FileOK(fills') /\ FileOK(disk')
    BY <1>0, <1>1, <1>5, TypedFile DEF Entry, NoEntry
  <2>3. TypeOK'
    BY <1>0, <1>1, <1>n, <1>5, <2>2 DEF TypeOK, gateway
  <2>4. CallOK("feed")'
    BY <2>1, Constants DEF CallOK, NoCall, Owes, answered
  <2>5. FeedOK'
    BY <2>1, Constants DEF FeedOK, NoCall, works, answered
  <2>6. ~Posted("feed")
    BY <1>p, <1>5 DEF Posted, answered, Answer
  <2>7. Writes(o, NoEntry)
    BY <1>1, <1>5
  <2>8. UNCHANGED <<fills, disk>> \/ claimEnds(o) \/ (f \notin held /\ fills[o].phase = "accepting" /\ \A d \in Callers : call'[d].pc # "off" => orderOf(d)' # o)
    <3> SUFFICES ASSUME k.phase = None, k.res = "refused", ~claimEnds(o)
                 PROVE  f \notin held /\ fills[o].phase = "accepting" /\ \A d \in Callers : call'[d].pc # "off" => orderOf(d)' # o
      BY <1>5
    <3>1. call[o].pc = "off"
      BY <1>0, <1>3
    <3>2. f \notin held
      BY <1>0, <2>6, <3>1 DEF SolverInv, Followed
    <3>3. \A d \in Orders : call[d].pc # "off" => orderOf(d) = d
      BY Working, Constants
    <3>4. \A d \in Orders : orderOf(d)' = orderOf(d) /\ call'[d] = call[d]
      BY <2>1, Constants DEF orderOf
    <3>5. fills[o].phase = "accepting"
      BY <1>p, <1>0, <1>3 DEF Unrecorded, answered
    <3> QED BY <1>n, <2>1, <3>1, <3>2, <3>3, <3>4, <3>5, Constants
  <2>9. FileMoves("feed", f, o, {"feed"}, NoEntry)
    BY <1>p, <1>0, <1>1, <1>n, <2>1, <2>4, <2>5, <2>6, <2>7, <2>8 DEF FileMoves, gateway
  <2> QED BY <1>p, <1>0, <2>3, <2>9, FileMove
<1>6. CASE /\ k.res \notin {"accepted", "refused"}
           /\ \/ startTask(call, o, "claim") /\ k.res = "confirmed" /\ recordBestEffort("filled", f)
              \/ startTask(call, o, "follow") /\ k.res \in Answer /\ UNCHANGED <<fills, disk>>
  <2> DEFINE D == {"feed"} \cup {d \in {o} : call[d].pc = "off"}
  <2>1. PICK pc \in {"claim", "follow"} :
            /\ startTask(call, o, pc)
            /\ pc = "claim" => k.res = "confirmed" /\ recordBestEffort("filled", f)
            /\ pc = "follow" => k.res \in Answer /\ UNCHANGED <<fills, disk>>
    BY <1>6
  <2> DEFINE n == [NoCall EXCEPT !.pc = pc, !.f = f]
  <2>2. n \in Call /\ n.pc = pc /\ ~n.own /\ n.f = f /\ n.phase = None /\ ~n.resume /\ n.res = None
    BY <1>0 DEF NoCall, Call, Pc
  <2>3. call' = [call EXCEPT !["feed"] = NoCall, ![o] = IF call[o].pc = "off" THEN n ELSE @]
    BY <1>0, <2>1 DEF startTask
  <2> HIDE DEF n
  <2>4. /\ call' \in [Callers -> Call] /\ call'["feed"] = NoCall
        /\ call'[o] = IF call[o].pc = "off" THEN n ELSE call[o]
        /\ \A d \in Callers \ {"feed", o} : call'[d] = call[d]
    BY <1>p, <1>0, <1>n, <2>2, <2>3 DEF TypeOK
  <2>5. Writes(o, e) /\ (UNCHANGED <<fills, disk>> \/ f \in paid)
    BY <1>p, <1>0, <1>1, <2>1 DEF CallOK, answered
  <2>6. FileOK(fills') /\ FileOK(disk')
    BY <1>0, <1>2, <2>5, TypedFile
  <2>7. TypeOK'
    BY <1>0, <1>1, <2>4, <2>6 DEF TypeOK, gateway
  <2>8. CallOK("feed")' /\ FeedOK'
    BY <2>4, Constants DEF CallOK, NoCall, Owes, answered, FeedOK, works
  <2>9. call[o].pc = "off" => CallOK(o)' /\ TaskOK(o)'
    <3> SUFFICES ASSUME call[o].pc = "off" PROVE CallOK(o)' /\ TaskOK(o)'
      OBVIOUS
    <3>1. call'[o] = n
      BY <2>4
    <3>2. OnFile(f)'
      <4>1. OnFile(f)
        BY <1>p, <1>0, <1>6 DEF CallOK, Owes, answered, Answer
      <4> QED BY <1>0, <1>1, <1>2, <2>5, <4>1, Kept
    <3>3. /\ ~answered(o, {"accepted"})' /\ ~answered(o, {"confirmed", "already_filled"})' /\ ~Accepts(o)'
          /\ ~Unrecorded(o)'
      BY <2>1, <2>2, <3>1 DEF answered, Accepts, Unrecorded
    <3>4. fills'[o].f \in {fills[o].f, f}
      BY <1>0, <1>2, <2>5 DEF Writes, put, TypeOK, FileOK
    <3> QED BY <1>0, <1>1, <1>3, <1>w, <2>1, <2>2, <3>1, <3>2, <3>3, <3>4, Constants DEF CallOK, TaskOK
  <2>10. FileMoves("feed", f, o, D, e)
    <3>1. /\ D \subseteq {"feed", o} /\ D \subseteq Callers /\ "feed" \in D
          /\ \A d \in D : d = "feed" \/ (d = o /\ call[o].pc = "off")
          /\ call[o].pc = "off" => o \in D
          /\ o \in D => call[o].pc = "off"
      BY <1>p, <1>0
    <3> HIDE DEF D
    <3>2. \A d \in Callers \ D : call'[d] = call[d]
      BY <2>4, <3>1
    <3>3. /\ call'[o].pc # "off"
          /\ call[o].pc = "off" => works(o)' /\ call'[o].f = f /\ ~call'[o].own /\ call'[o].pc # "balance"
      BY <2>1, <2>2, <2>4 DEF works
    <3> QED BY <1>p, <1>0, <1>1, <1>2, <1>n, <2>4, <2>5, <2>8, <2>9, <3>1, <3>2, <3>3 DEF FileMoves, gateway
  <2> QED BY <1>p, <1>0, <2>7, <2>10, FileMove
<1> QED BY <1>4, <1>5, <1>6 DEF FeedAnswered, Answer

-----------------------------------------------------------------------------
\* The feed takes up an award, or gives it up before it is bound to the order.
LEMMA FeedQuiet ==
    ASSUME SolverInv, TypeOK', call["feed"].pc \in {"off", "prepare"},
           call'["feed"].pc \in {"off", "prepare"}, ~call'["feed"].own,
           \A d \in Orders : call'[d] = call[d],
           UNCHANGED <<time, lock, paid, fillTx, venueHolds, gateway, up, bidding, unsent, fills, disk>>,
           CallOK("feed")', FeedOK'
    PROVE  SolverInv'
<1>1. /\ \A q : claimEnds(q)' = claimEnds(q) /\ claimWindowOpen(q)' = claimWindowOpen(q)
      /\ held' = held /\ (\A g : OnFile(g)' <=> OnFile(g)) /\ (\A g : solid(g)' <=> solid(g))
  BY DEF claimEnds, claimWindowOpen, held, OnFile, good, solid
<1>2. ASSUME NEW d \in Orders PROVE CallOK(d)' /\ TaskOK(d)'
  <2>1. CallOK(d) /\ TaskOK(d) /\ call'[d] = call[d]
    BY Constants DEF SolverInv
  <2>2. /\ (Owes(d)' <=> Owes(d)) /\ (Accepts(d)' <=> Accepts(d)) /\ (Unrecorded(d)' <=> Unrecorded(d))
        /\ (answered(d, {"accepted"})' <=> answered(d, {"accepted"})) /\ orderOf(d)' = orderOf(d)
        /\ (answered(d, {"confirmed", "already_filled"})' <=> answered(d, {"confirmed", "already_filled"}))
    BY <2>1 DEF Owes, Accepts, Unrecorded, answered, orderOf
  <2> QED BY <1>1, <2>1, <2>2 DEF CallOK, TaskOK, gateway
<1>3. Owners' /\ Registered' /\ Files' /\ Persisted' /\ Running'
  BY <1>1, Constants DEF SolverInv, Owners, Registered, Files, FileFits, Persisted, Running, orderOf, gateway
<1>4. OneSolid'
  BY <1>1, Constants DEF SolverInv, OneSolid, gateway
<1>5. OneInPlay'
  <2>1. \A g : inPlay(g)' => inPlay(g)
    BY <1>1, Constants DEF inPlay, works
  <2> QED BY <1>1, <2>1 DEF SolverInv, OneInPlay
<1>6. Followed'
  <2>1. ~Posted("feed")
    BY DEF Posted, answered
  <2>2. \A g \in held : OrderOf[g] \in Orders
    BY Constants DEF SolverInv, TypeOK, held
  <2> QED BY <1>1, <2>1, <2>2 DEF SolverInv, Followed
<1> QED BY <1>1, <1>2, <1>3, <1>4, <1>5, <1>6, Constants DEF SolverInv

\* An award arrives.
LEMMA AwardMoves == ASSUME SolverInv, NEW f \in FillIds, Award(f) PROVE SolverInv'
<1> DEFINE n == [NoCall EXCEPT !.pc = "prepare", !.f = f]
<1>0. /\ "feed" \in Callers /\ "feed" \notin Orders /\ TypeOK /\ call["feed"].pc = "off" /\ up /\ bidding
      /\ UNCHANGED <<time, lock, paid, fillTx, venueHolds, gateway, up, bidding, unsent, fills, disk>>
      /\ fills[OrderOf[f]].f \in {None, f}
  BY Constants DEF Award, idle, at, chain, SolverInv
<1>1. n \in Call /\ n.pc = "prepare" /\ ~n.own /\ n.f = f /\ n.phase = None /\ ~n.resume /\ n.res = None
  BY DEF NoCall, Call, Pc
<1>2. call' = [call EXCEPT !["feed"] = n]
  BY DEF Award
<1> HIDE DEF n
<1>3. call'["feed"] = n /\ \A d \in Orders : call'[d] = call[d]
  BY <1>0, <1>2, Constants DEF TypeOK
<1>4. TypeOK'
  BY <1>0, <1>1, <1>2 DEF TypeOK, gateway
<1>5. CallOK("feed")'
  BY <1>0, <1>1, <1>3, Constants DEF CallOK, Owes, answered
<1>6. FeedOK'
  BY <1>0, <1>1, <1>3, Constants DEF FeedOK, works, answered, orderOf
<1> QED BY <1>0, <1>1, <1>3, <1>4, <1>5, <1>6, FeedQuiet

\* The award is bound to its order: the file holds its fill already, or is to hold it.
LEMMA FeedBinds ==
    ASSUME SolverInv, TypeOK', NEW f \in FillIds, f = call["feed"].f, NEW o \in Orders, o = OrderOf[f],
           call["feed"].pc = "prepare", lock[o] = "Open",
           call'["feed"].pc \in {"off", "accept"}, ~call'["feed"].own,
           call'["feed"].pc = "accept" => call'["feed"].f = f,
           \A d \in Orders : call'[d] = call[d],
           UNCHANGED <<time, lock, paid, fillTx, venueHolds, gateway, up, bidding, unsent>>,
           NEW e, e = [phase |-> "accepting", f |-> f],
           \/ fills[o].phase # None /\ UNCHANGED <<fills, disk>>
           \/ fills[o].phase = None /\ Writes(o, e),
           CallOK("feed")', FeedOK'
    PROVE  SolverInv'
<1>0. /\ "feed" \in Callers /\ TypeOK /\ FeedOK /\ up /\ orderOf("feed") = o /\ f # None
      /\ fills[o] \in Entry /\ e.f = f /\ e.phase = "accepting"
  BY Working, Constants DEF SolverInv, orderOf, TypeOK, FileOK
<1>1. /\ \A q : claimEnds(q)' = claimEnds(q) /\ claimWindowOpen(q)' = claimWindowOpen(q)
      /\ held' = held /\ (claimWindowOpen(o) <=> ~claimEnds(o))
  BY DEF claimEnds, claimWindowOpen, held
<1>2. /\ \A q \in Orders \ {o} : fills'[q] = fills[q] /\ disk'[q] \in {disk[q], fills[q]}
      /\ \/ UNCHANGED <<fills, disk>>
         \/ fills'[o] = e /\ disk'[o] = e
         \/ fills'[o] = fills[o] /\ disk'[o] = e
  <2>1. fills \in [Orders -> Entry] /\ disk \in [Orders -> Entry]
    BY <1>0 DEF TypeOK, FileOK
  <2>2. fills[o].phase = None => Writes(o, e)
    OBVIOUS
  <2> QED BY <2>1, <2>2 DEF Writes, put
<1>3. fills[o].phase = None => fills[o] = NoEntry /\ fills[o].f = None
  BY <1>0, Constants DEF Entry, NoEntry
<1>4. ASSUME fills[o].phase = None, ~claimEnds(o)
      PROVE  /\ call[o].pc = "off" /\ disk[o].phase \in {None, "accepting"}
             /\ \A g \in FillIds : OrderOf[g] = o => ~OnFile(g) /\ ~solid(g)
  <2>1. call[o].pc = "off"
    BY <1>0, <1>3, <1>4, Working, Constants DEF TaskOK
  <2>2. disk[o].phase \in {None, "accepting"}
    BY <1>0, <1>3, <1>4, Constants DEF SolverInv, Files, FileFits, Phase
  <2>3. \A g \in FillIds : OrderOf[g] = o => ~OnFile(g)
    BY <1>0, <1>3, <1>4, Constants DEF OnFile, good
  <2>4. \A g \in FillIds : OrderOf[g] = o => ~solid(g)
    BY <1>3, <1>4, <2>2, <2>3, Constants DEF solid, good, SolverInv, Persisted
  <2> QED BY <2>1, <2>2, <2>3, <2>4
<1>5. ASSUME NEW g \in FillIds, OnFile(g) PROVE OnFile(g)'
  <2>1. CASE OrderOf[g] = o
    BY <1>1, <1>4, <1>5, <2>1 DEF OnFile, good
  <2>2. CASE OrderOf[g] # o
    BY <1>0, <1>1, <1>2, <1>5, <2>2, Constants DEF OnFile, good
  <2> QED BY <2>1, <2>2
<1>6. ASSUME NEW d \in Orders PROVE CallOK(d)' /\ TaskOK(d)'
  <2>1. CallOK(d) /\ TaskOK(d) /\ call'[d] = call[d]
    BY Constants DEF SolverInv
  <2>2. /\ (Owes(d)' <=> Owes(d)) /\ (Accepts(d)' <=> Accepts(d)) /\ (Unrecorded(d)' <=> Unrecorded(d))
        /\ (answered(d, {"accepted"})' <=> answered(d, {"accepted"})) /\ orderOf(d)' = orderOf(d)
        /\ (answered(d, {"confirmed", "already_filled"})' <=> answered(d, {"confirmed", "already_filled"}))
        /\ (Unrecorded(d) => call[d].pc # "off") /\ (Accepts(d) => call[d].pc # "off")
    BY <2>1 DEF Owes, Accepts, Unrecorded, answered, orderOf
  <2>3. Owes(d) => call[d].f \in FillIds
    BY <2>1, Constants DEF Owes, answered, CallOK, NoCall
  <2>4. claimEnds(d) \/ fills'[d] = fills[d] \/ call[d].pc = "off"
    BY <1>2, <1>4
  <2> QED BY <1>1, <1>5, <2>1, <2>2, <2>3, <2>4 DEF CallOK, TaskOK, gateway
<1>7. Owners' /\ Registered' /\ Running'
  BY Constants DEF SolverInv, Owners, Registered, Running, orderOf, gateway
<1>8. Files'
  <2>1. FileFits(o)'
    <3>1. FileFits(o)
      BY <1>0 DEF SolverInv, Files
    <3>2. fills[o].phase # None => UNCHANGED <<fills, disk>>
      OBVIOUS
    <3> QED BY <1>0, <1>1, <1>2, <1>3, <3>1, <3>2 DEF FileFits, NoEntry
  <2>2. ASSUME NEW q \in Orders, q # o PROVE FileFits(q)'
    <3>1. FileFits(q) /\ fills[q] \in Entry
      BY <1>0 DEF SolverInv, TypeOK, FileOK, Files
    <3>2. fills'[q] = fills[q] /\ disk'[q] \in {disk[q], fills[q]}
      BY <1>2, <2>2
    <3>3. NoEntry.phase = None /\ NoEntry.f = None
      BY DEF NoEntry
    <3> QED BY <1>1, <3>1, <3>2, <3>3 DEF FileFits
  <2> QED BY <1>0, <2>1, <2>2 DEF Files
<1>9. Persisted'
  BY <1>1, <1>5 DEF SolverInv, TypeOK, Persisted, held
<1>10. \A g \in FillIds : solid(g)' => solid(g)
  BY <1>0, <1>1, <1>2, Constants DEF solid, good
<1>11. OneSolid'
  BY <1>10, Constants DEF SolverInv, OneSolid, gateway
<1>12. OneInPlay'
  <2>1. ASSUME NEW g \in FillIds, OrderOf[g] # o, inPlay(g)' PROVE inPlay(g)
    <3>1. fills'[OrderOf[g]] = fills[OrderOf[g]] /\ disk'[OrderOf[g]] \in {disk[OrderOf[g]], fills[OrderOf[g]]}
      BY <1>2, <2>1, Constants
    <3>2. \A d \in Callers : works(d)' /\ call'[d].f = g => works(d) /\ call[d].f = g
      BY <2>1, Constants DEF works
    <3> QED BY <1>10, <2>1, <3>1, <3>2 DEF inPlay
  <2>2. ASSUME claimWindowOpen(o), fills[o].phase = None, NEW g \in FillIds, OrderOf[g] = o, inPlay(g)'
        PROVE  (fills'[o] = e => g = f) /\ (fills'[o] # e => disk'[o].f = g)
    <3>1. ~solid(g)'
      BY <1>1, <1>4, <1>10, <2>2
    <3>2. \A d \in Orders : works(d)' => call'[d].f # g
      <4>1. call[o].pc = "off"
        BY <1>1, <1>4, <2>2
      <4>2. \A d \in Orders : works(d) => OrderOf[call[d].f] = d
        BY Constants DEF works, SolverInv, TaskOK
      <4> QED BY <2>2, <4>1, <4>2 DEF works
    <3>3. works("feed")' => call'["feed"].f = f /\ fills'[o].f = f
      BY <1>0, <1>1, <2>2 DEF FeedOK, works, orderOf
    <3>4. fills'[o] # e => fills'[o].f = None
      BY <1>2, <1>3, <2>2
    <3>5. fills'[o] = e => disk'[o] = e
      BY <1>2, <1>3, <1>0, <2>2
    <3> QED BY <1>0, <2>2, <3>1, <3>2, <3>3, <3>4, <3>5, Constants DEF inPlay
  <2>3. ASSUME claimWindowOpen(o), fills[o].phase # None, NEW g \in FillIds, OrderOf[g] = o, inPlay(g)'
        PROVE  inPlay(g)
    <3>1. fills[o].f = f
      BY <1>0, <1>1, <2>3, Constants DEF FeedOK, Entry, NoEntry
    <3>2. inPlay(f)
      BY <3>1 DEF inPlay
    <3>3. \A d \in Callers : works(d)' /\ call'[d].f = g => (works(d) /\ call[d].f = g) \/ g = f
      BY Constants DEF works
    <3> QED BY <1>10, <2>3, <3>2, <3>3 DEF inPlay
  <2> QED BY <1>1, <2>1, <2>2, <2>3 DEF SolverInv, OneInPlay
<1>13. Followed'
  <2>1. ~Posted("feed")
    BY DEF Posted, answered
  <2>2. \A g \in held : OrderOf[g] \in Orders
    BY Constants DEF SolverInv, TypeOK, held
  <2> QED BY <1>1, <2>1, <2>2 DEF SolverInv, Followed
<1> QED BY <1>6, <1>7, <1>8, <1>9, <1>11, <1>12, <1>13, Constants DEF SolverInv

\* prepare ends: given up, or bound and recorded `accepting`.
LEMMA PreparedMoves == ASSUME SolverInv, Prepared PROVE SolverInv'
<1> SUFFICES ASSUME NEW f, f = call["feed"].f, NEW o, o = OrderOf[f], NEW e, e = entry("accepting", f)
             PROVE  SolverInv'
  OBVIOUS
<1>0. /\ "feed" \in Callers /\ TypeOK /\ CallOK("feed") /\ FeedOK /\ call["feed"].pc = "prepare" /\ call["feed"] \in Call
      /\ f \in FillIds /\ o \in Orders /\ up /\ bidding /\ orderOf("feed") = o
      /\ UNCHANGED <<time, lock, paid, fillTx, venueHolds, gateway, up, bidding, unsent>>
      /\ ~call["feed"].own /\ call["feed"].phase = None /\ (fills[o].f \in {None, f} \/ claimEnds(o))
  <2>1. "feed" \in Callers /\ call["feed"].pc = "prepare" /\ call["feed"].pc # "off"
    BY Constants DEF Prepared, at
  <2>2. CallOK("feed") /\ call["feed"] \in Call /\ f \in FillIds /\ o \in Orders /\ up /\ FeedOK /\ bidding /\ orderOf("feed") = o
    BY <2>1, Working, Constants DEF orderOf
  <2>3. ~call["feed"].own /\ call["feed"].phase = None /\ (fills[o].f \in {None, f} \/ claimEnds(o))
    BY <2>1, <2>2 DEF CallOK, FeedOK, Call
  <2> QED BY <2>1, <2>2, <2>3 DEF SolverInv, Prepared, restOfChain
<1>e. e \in Entry /\ e.f = f /\ e.phase = "accepting" /\ e = [phase |-> "accepting", f |-> f] /\ f # None
  BY <1>0, Constants DEF Entry, Phase, entry
<1>f. call[o].pc = "off" /\ ~claimEnds(o) => f \notin fillTx \cup paid
  <2>1. ~Posted("feed")
    BY <1>0 DEF Posted, answered
  <2> QED BY <1>0, <2>1 DEF SolverInv, Followed, held
<1>g. fills[o].phase = None /\ ~claimEnds(o) => call[o].pc = "off"
  <2>1. fills[o].phase = None => fills[o].f = None
    BY <1>0, Constants DEF TypeOK, FileOK, Entry, NoEntry
  <2> QED BY <1>0, <2>1, Working, Constants DEF SolverInv, TaskOK
<1>h. fills[o].phase # None /\ ~claimEnds(o) => /\ fills[o].f = f
                                                /\ fills[o].phase \in {"accepted", "filled"} => OnFile(f)
  <2>1. fills[o].phase # None => fills[o].f # None
    BY <1>0, Constants DEF TypeOK, FileOK, Entry, NoEntry
  <2>2. FileFits(o) /\ NoEntry.phase = None
    BY <1>0 DEF SolverInv, Files, NoEntry
  <2>3. fills[o].phase \in {"accepted", "filled"} /\ ~claimEnds(o)
          => disk[o].phase \in {"accepted", "filled"} /\ disk[o].f = fills[o].f
    BY <2>2, Constants DEF FileFits
  <2>4. fills[o].phase # None /\ ~claimEnds(o) => fills[o].f = f
    BY <1>0, <2>1
  <2>5. fills[o].phase # None /\ ~claimEnds(o) /\ fills[o].phase \in {"accepted", "filled"} => OnFile(f)
    BY <2>3, <2>4 DEF OnFile, good
  <2> QED BY <2>4, <2>5
<1>s. \A q : claimEnds(q)' = claimEnds(q)
  BY <1>0 DEF claimEnds, claimWindowOpen
<1>1. CASE call' = [call EXCEPT !["feed"] = NoCall] /\ UNCHANGED <<fills, disk>>
  <2>1. NoCall \in Call /\ NoCall.pc = "off" /\ ~NoCall.own /\ ~NoCall.resume /\ NoCall.phase = None
    BY DEF NoCall, Call, Pc
  <2>2. call'["feed"] = NoCall /\ \A d \in Orders : call'[d] = call[d]
    BY <1>0, <1>1, Constants DEF TypeOK
  <2>3. TypeOK'
    BY <1>0, <1>1, <2>1 DEF TypeOK, gateway
  <2>4. CallOK("feed")' /\ FeedOK'
    BY <2>1, <2>2, Constants DEF CallOK, FeedOK, Owes, works, answered
  <2> QED BY <1>0, <1>1, <2>1, <2>2, <2>3, <2>4, FeedQuiet
<1>2. CASE /\ lock[o] = "Open" /\ fills[o].phase = None /\ Writes(o, e)
           /\ call' = [call EXCEPT !["feed"] = NoCall]
  <2>1. NoCall \in Call /\ NoCall.pc = "off" /\ ~NoCall.own /\ ~NoCall.resume /\ NoCall.phase = None
    BY DEF NoCall, Call, Pc
  <2>2. call'["feed"] = NoCall /\ \A d \in Orders : call'[d] = call[d]
    BY <1>0, <1>2, Constants DEF TypeOK
  <2>3. FileOK(fills') /\ FileOK(disk')
    BY <1>0, <1>2, <1>e, TypedFile
  <2>4. TypeOK'
    BY <1>0, <1>2, <2>1, <2>3 DEF TypeOK, gateway
  <2>5. CallOK("feed")' /\ FeedOK'
    BY <2>1, <2>2, Constants DEF CallOK, FeedOK, Owes, works, answered
  <2> QED BY <1>0, <1>2, <1>e, <2>1, <2>2, <2>4, <2>5, FeedBinds
<1>3. CASE /\ lock[o] = "Open"
           /\ call' = [call EXCEPT !["feed"].pc = "accept", !["feed"].phase = fills[o].phase]
           /\ \/ fills[o].phase # None /\ UNCHANGED <<fills, disk>>
              \/ fills[o].phase = None /\ fills' = put(o, e) /\ disk' = put(o, e)
  <2> DEFINE n == [call["feed"] EXCEPT !.pc = "accept", !.phase = fills[o].phase]
  <2>1. /\ n \in Call /\ n.pc = "accept" /\ ~n.own /\ n.f = f /\ n.phase = fills[o].phase
        /\ n.resume = call["feed"].resume
    <3>1. fills[o].phase \in Phase \cup {None}
      BY <1>0 DEF TypeOK, FileOK, Entry, NoEntry
    <3> QED BY <1>0, <3>1 DEF Call, Pc
  <2>2. call' = [call EXCEPT !["feed"] = n]
    BY <1>0, <1>3 DEF TypeOK
  <2> HIDE DEF n
  <2>3. call'["feed"] = n /\ \A d \in Orders : call'[d] = call[d]
    BY <1>0, <2>2, Constants DEF TypeOK
  <2>4. FileOK(fills') /\ FileOK(disk')
    BY <1>0, <1>3, <1>e, TypedFile DEF TypeOK, Writes
  <2>5. TypeOK'
    BY <1>0, <2>1, <2>2, <2>4 DEF TypeOK, gateway
  <2>6. fills[o].phase = None => fills'[o] = e
    BY <1>0, <1>3 DEF put, TypeOK, FileOK
  <2>7. orderOf("feed")' = o
    BY <2>1, <2>3 DEF orderOf
  <2>8. fills[o].phase \in {"accepted", "filled"} => OnFile(f)'
    <3>1. fills[o].phase \in {"accepted", "filled"} => fills[o].phase # None /\ UNCHANGED <<fills, disk>>
      BY <1>3, Constants
    <3>2. ASSUME fills[o].phase \in {"accepted", "filled"}, ~claimEnds(o) PROVE OnFile(f)'
      <4>1. OnFile(f) /\ UNCHANGED <<fills, disk>>
        BY <1>h, <3>1, <3>2
      <4> QED BY <1>0, <1>s, <4>1 DEF OnFile, good
    <3> QED BY <1>s, <3>2 DEF OnFile
  <2>9. CallOK("feed")'
    <3>1. Owes("feed")' => fills[o].phase \in {"accepted", "filled"}
      BY <2>1, <2>3 DEF Owes, answered
    <3>2. call["feed"].resume => accepted'[f] # "no"
      BY <1>0 DEF CallOK, gateway
    <3> QED BY <1>0, <2>1, <2>3, <2>8, <3>1, <3>2 DEF CallOK, answered
  <2>10. FeedOK'
    <3>1. ~answered("feed", {"accepted"})' /\ ~answered("feed", {"refused"})'
      BY <2>1, <2>3 DEF answered
    <3>2. CASE claimEnds(o)
      BY <1>0, <1>s, <2>1, <2>3, <2>7, <3>1, <3>2 DEF FeedOK
    <3>3. CASE ~claimEnds(o)
      <4>1. fills'[o].f = f /\ (fills[o].phase = None => fills'[o].phase = "accepting")
        <5>1. CASE fills[o].phase = None
          BY <1>e, <2>6, <5>1
        <5>2. CASE fills[o].phase # None
          BY <1>3, <1>h, <3>3, <5>2
        <5> QED BY <5>1, <5>2
      <4>2. call'[o] = call[o]
        BY <1>0, <2>3
      <4> QED BY <1>0, <1>f, <1>g, <2>1, <2>3, <2>7, <3>1, <3>3, <4>1, <4>2 DEF FeedOK
    <3> QED BY <3>2, <3>3
  <2>11. \/ fills[o].phase # None /\ UNCHANGED <<fills, disk>>
         \/ fills[o].phase = None /\ Writes(o, e)
    BY <1>3 DEF Writes
  <2> QED BY <1>0, <1>3, <1>e, <2>1, <2>3, <2>5, <2>9, <2>10, <2>11, FeedBinds
<1> QED BY <1>0, <1>1, <1>2, <1>3 DEF Prepared, write, writeFails, Writes

-----------------------------------------------------------------------------
\* The empty entry, file and call.
LEMMA Nothing ==
    /\ NoEntry \in Entry /\ NoEntry.phase = None /\ NoEntry.f = None
    /\ NoFile \in [Orders -> Entry] /\ \A o \in Orders : NoFile[o] = NoEntry
    /\ NoCall \in Call /\ NoCall.pc = "off" /\ ~NoCall.own /\ ~NoCall.resume
    /\ NoCall.f = None /\ NoCall.phase = None /\ NoCall.res = None
  BY DEF NoEntry, Entry, NoFile, NoCall, Call, Pc

\* A crash leaves the disk and the chains.
LEMMA CrashMoves == ASSUME SolverInv, Crash PROVE SolverInv'
<1>0. /\ TypeOK /\ up' = FALSE /\ bidding' = FALSE /\ fills' = NoFile /\ UNCHANGED <<time, lock, paid, fillTx, venueHolds, disk>>
      /\ \A c \in Callers : call'[c] = NoCall
      /\ \A f \in FillIds : accepted'[f] = "no"
      /\ \A o \in Orders : acceptedOrders'[o] = None
  BY DEF Crash, chain, SolverInv
<1>1. TypeOK'
  <2>1. FileOK(fills')
    BY <1>0, Nothing DEF FileOK
  <2>2. call' \in [Callers -> Call] /\ accepting' \in [Orders -> FillIds \cup {None}] /\ landed' = {} /\ unsent' = {}
    BY Nothing DEF Crash
  <2>3. /\ accepted' \in [FillIds -> {"no", "restored", "signed"}]
        /\ acceptedOrders' \in [Orders -> FillIds \cup {None}]
    BY DEF Crash
  <2> QED BY <1>0, <2>1, <2>2, <2>3 DEF TypeOK
<1>2. \A c \in Callers : ~Owes(c)' /\ ~Accepts(c)' /\ ~works(c)' /\ ~Unrecorded(c)' /\ (\A r : ~answered(c, r)')
  BY <1>0, Nothing, Constants DEF Owes, Accepts, works, Unrecorded, answered
<1>3. /\ \A q : claimEnds(q)' = claimEnds(q) /\ claimWindowOpen(q)' = claimWindowOpen(q)
      /\ held' = held
  BY <1>0 DEF claimEnds, claimWindowOpen, held
<1>4. \A c \in Callers : CallOK(c)'
  BY <1>0, <1>2, Nothing, Constants DEF CallOK
<1>5. FeedOK' /\ \A o \in Orders : TaskOK(o)'
  BY <1>0, <1>2, Nothing, Constants DEF FeedOK, TaskOK
<1>6. Owners' /\ Registered' /\ Files' /\ Followed' /\ Running'
  BY <1>0, Nothing DEF Owners, Registered, Files, Followed, Running
<1>7. Persisted'
  BY <1>0, <1>3 DEF SolverInv, Persisted, OnFile, good
<1>8. \A f \in FillIds : solid(f)' => solid(f)
  BY <1>0, <1>3, Nothing, Constants DEF solid, good
<1>9. OneSolid'
  BY <1>0, <1>8, Nothing, Constants DEF SolverInv, OneSolid
<1>10. \A f \in FillIds : inPlay(f)' => inPlay(f)
  BY <1>0, <1>2, <1>8, Nothing, Constants DEF inPlay
<1>11. OneInPlay'
  BY <1>3, <1>10 DEF SolverInv, OneInPlay
<1> QED BY <1>1, <1>4, <1>5, <1>6, <1>7, <1>9, <1>11 DEF SolverInv

\* What a process that starts reads back of its orders.
LEMMA Restored ==
    ASSUME SolverInv, Restart
    PROVE  /\ \A f \in FillIds : accepted'[f] = IF good(disk, f) THEN "restored" ELSE "no"
           /\ \A o \in Orders : acceptedOrders'[o] = IF disk[o].phase \in {"accepted", "filled"} THEN disk[o].f ELSE None
           /\ accepted' \in [FillIds -> {"no", "restored", "signed"}]
           /\ acceptedOrders' \in [Orders -> FillIds \cup {None}]
<1> DEFINE fs == {disk[o].f : o \in {p \in Orders : disk[p].phase \in {"accepted", "filled"}}}
<1>1. /\ accepted' = [f \in FillIds |-> IF f \in fs THEN "restored" ELSE "no"]
      /\ acceptedOrders' = [o \in Orders |->
           IF \E f \in fs : OrderOf[f] = o THEN CHOOSE f \in fs : OrderOf[f] = o ELSE None]
  BY DEF Restart, restoreAcceptance
<1>2. ASSUME NEW o \in Orders, disk[o].phase \in {"accepted", "filled"}
      PROVE  disk[o].f \in FillIds /\ disk[o].f \in fs /\ OrderOf[disk[o].f] = o
  BY <1>2, Nothing, Constants DEF SolverInv, TypeOK, FileOK, Entry
<1>3. ASSUME NEW f \in fs PROVE f \in FillIds /\ good(disk, f) /\ f = disk[OrderOf[f]].f
  <2>1. PICK o \in Orders : disk[o].phase \in {"accepted", "filled"} /\ f = disk[o].f
    BY <1>3
  <2> QED BY <1>2, <2>1 DEF good
<1>4. \A f \in FillIds : f \in fs <=> good(disk, f)
  BY <1>2, <1>3, Constants DEF good
<1>5. ASSUME NEW o \in Orders
      PROVE  acceptedOrders'[o] = IF disk[o].phase \in {"accepted", "filled"} THEN disk[o].f ELSE None
  <2>1. CASE disk[o].phase \in {"accepted", "filled"}
    <3>1. disk[o].f \in fs /\ OrderOf[disk[o].f] = o
      BY <1>2, <2>1
    <3>2. \A f \in fs : OrderOf[f] = o => f = disk[o].f
      BY <1>3
    <3>3. (CHOOSE f \in fs : OrderOf[f] = o) = disk[o].f
      <4> HIDE DEF fs
      <4> QED BY <3>1, <3>2
    <3> QED BY <1>1, <2>1, <3>1, <3>3
  <2>2. CASE disk[o].phase \notin {"accepted", "filled"}
    <3>1. \A f \in fs : OrderOf[f] # o
      BY <1>3, <2>2 DEF good
    <3> QED BY <1>1, <2>2, <3>1
  <2> QED BY <2>1, <2>2
<1>6. \A o \in Orders : acceptedOrders'[o] \in FillIds \cup {None}
  BY <1>2, <1>5
<1> HIDE DEF fs
<1> QED BY <1>1, <1>4, <1>5, <1>6

\* A restart resumes every order the file holds.
LEMMA RestartMoves == ASSUME SolverInv, Restart PROVE SolverInv'
<1>0. /\ TypeOK /\ ~up /\ up' = TRUE /\ ~bidding /\ bidding' = bidding /\ fills' = disk /\ disk' = disk
      /\ UNCHANGED <<time, lock, paid, fillTx, venueHolds, accepting, landed>>
      /\ unsent' = {o \in Orders : disk[o].phase \in {"accepting", "accepted"}}
  BY DEF Restart, chain, SolverInv, Running
<1>1. ASSUME NEW o \in Orders, disk[o] # NoEntry
      PROVE  /\ disk[o].phase \in Phase /\ disk[o].f \in FillIds /\ OrderOf[disk[o].f] = o
  BY <1>0, <1>1, Constants DEF TypeOK, FileOK, Entry
<1>2. /\ call'["feed"] = NoCall
      /\ \A o \in Orders : disk[o] = NoEntry => call'[o] = NoCall
  BY Constants DEF Restart
<1>3. ASSUME NEW o \in Orders, disk[o] # NoEntry
      PROVE  /\ call'[o] \in Call /\ call'[o].f = disk[o].f /\ call'[o].phase = disk[o].phase
             /\ ~call'[o].own /\ (call'[o].resume <=> disk[o].phase = "accepted") /\ call'[o].res = None
             /\ \/ disk[o].phase = "accepting" /\ call'[o].pc = "allow"
                \/ disk[o].phase = "accepted" /\ call'[o].pc = "accept"
                \/ disk[o].phase = "filled" /\ call'[o].pc = "claim"
  <2>1. call'[o] = [NoCall EXCEPT !.pc = resumesAt(disk[o].phase), !.f = disk[o].f,
                                  !.phase = disk[o].phase, !.resume = (disk[o].phase = "accepted")]
    BY <1>3, Constants DEF Restart
  <2>2. \/ disk[o].phase = "accepting" /\ resumesAt(disk[o].phase) = "allow"
        \/ disk[o].phase = "accepted" /\ resumesAt(disk[o].phase) = "accept"
        \/ disk[o].phase = "filled" /\ resumesAt(disk[o].phase) = "claim"
    BY <1>1, <1>3 DEF resumesAt, Phase
  <2>3. resumesAt(disk[o].phase) \in Pc /\ disk[o].phase \in Phase /\ disk[o].f \in FillIds
    BY <1>1, <1>3, <2>2 DEF Pc
  <2> QED BY <2>1, <2>2, <2>3 DEF NoCall, Call
<1>4. \A c \in Callers : ~call'[c].own /\ call'[c].pc \in {"off", "allow", "accept", "claim"}
  BY <1>2, <1>3, Nothing, Constants
<1>5. TypeOK'
  <2>1. call' \in [Callers -> Call]
    <3>1. \A c \in Callers : call'[c] \in Call
      BY <1>2, <1>3, Nothing, Constants
    <3>2. call' = [c \in Callers |-> call'[c]]
      BY DEF Restart
    <3> QED BY <3>1, <3>2
  <2> QED BY <1>0, <2>1, Restored DEF TypeOK
<1>6. /\ \A q : claimEnds(q)' = claimEnds(q) /\ claimWindowOpen(q)' = claimWindowOpen(q)
      /\ held' = held /\ (\A f : good(disk, f)' <=> good(disk, f)) /\ (\A f : good(fills, f)' <=> good(disk, f))
  BY <1>0 DEF claimEnds, claimWindowOpen, held, good
<1>7. \A f \in FillIds : good(disk, f) => OnFile(f)' /\ accepted'[f] # "no" /\ acceptedOrders'[OrderOf[f]] = f
  <2>1. \A f \in FillIds : good(disk, f) => OnFile(f)'
    BY <1>0, <1>6 DEF OnFile
  <2> QED BY <2>1, Restored, Constants DEF good
<1>8. \A c \in Callers : /\ \A r : ~answered(c, r)'
                         /\ Owes(c)' <=> call'[c].phase \in {"accepted", "filled"}
                         /\ Accepts(c)' <=> call'[c].pc \in {"allow", "accept"}
                         /\ Unrecorded(c)' <=> call'[c].pc \in {"allow", "accept"}
                         /\ works(c)' <=> call'[c].pc # "off"
  BY <1>4 DEF answered, Owes, Accepts, Unrecorded, works
<1>9. \A c \in Callers : CallOK(c)'
  <2>1. CallOK("feed")'
    BY <1>2, <1>8, Nothing, Constants DEF CallOK
  <2>2. ASSUME NEW o \in Orders, disk[o] = NoEntry PROVE CallOK(o)'
    BY <1>2, <1>8, <2>2, Nothing, Constants DEF CallOK
  <2>3. ASSUME NEW o \in Orders, disk[o] # NoEntry PROVE CallOK(o)'
    <3>1. disk[o].phase \in {"accepted", "filled"} => good(disk, disk[o].f)
      BY <1>1, <2>3 DEF good
    <3>2. Owes(o)' <=> call'[o].phase \in {"accepted", "filled"}
      BY <1>8, Constants
    <3> QED BY <1>0, <1>1, <1>3, <1>7, <1>8, <2>3, <3>1, <3>2, Constants DEF CallOK
  <2> QED BY <2>1, <2>2, <2>3, Constants
<1>10. FeedOK'
  BY <1>2, <1>8, Nothing, Constants DEF FeedOK
<1>p. \A f \in held : ~claimEnds(OrderOf[f]) => good(disk, f)
  BY DEF SolverInv, Persisted, OnFile
<1>11. ASSUME NEW o \in Orders PROVE TaskOK(o)'
  <2>1. CASE disk[o] = NoEntry
    <3>1. call'[o].pc = "off" /\ call'[o].phase = None
      BY <1>2, <2>1, Nothing
    <3>2. ~Accepts(o)' /\ ~Unrecorded(o)' /\ ~answered(o, {"accepted"})'
      BY <1>8, <3>1, Constants
    <3> QED BY <3>1, <3>2 DEF TaskOK
  <2>2. CASE disk[o] # NoEntry
    <3>1. disk[o].phase = "accepting" /\ disk[o].f \in held => claimEnds(o)
      BY <1>1, <1>p, <2>2 DEF good
    <3>2. /\ Accepts(o)' <=> call'[o].pc \in {"allow", "accept"}
          /\ Unrecorded(o)' <=> call'[o].pc \in {"allow", "accept"}
      BY <1>8, Constants
    <3> QED BY <1>0, <1>1, <1>3, <1>6, <2>2, <3>1, <3>2 DEF TaskOK
  <2> QED BY <2>1, <2>2
<1>12. Owners' /\ Registered' /\ Running'
  BY <1>0, <1>4, <1>7, Restored DEF Owners, Registered, Running
<1>13. Files'
  <2>1. ASSUME NEW o \in Orders PROVE FileFits(o)'
    BY <1>0, <1>1, <1>6, Nothing, Constants DEF FileFits, Phase
  <2> QED BY <1>0, <2>1 DEF Files
<1>14. Persisted'
  BY <1>6, <1>p DEF Persisted, OnFile
<1>15. \A f : solid(f)' => solid(f)
  BY <1>6 DEF solid
<1>16. OneSolid'
  <2>1. \A g \in FillIds : acceptedOrders'[OrderOf[g]] = g => solid(g)
    BY Restored, Constants DEF solid, good
  <2> QED BY <1>4, <1>15, <2>1 DEF SolverInv, OneSolid
<1>17. OneInPlay'
  <2>1. ASSUME NEW f \in FillIds, inPlay(f)' PROVE inPlay(f)
    <3>1. ASSUME NEW c \in Callers, works(c)', call'[c].f = f PROVE disk[OrderOf[f]].f = f
      <4>1. c \in Orders /\ disk[c] # NoEntry
        BY <1>2, <1>8, <3>1, Nothing, Constants
      <4> QED BY <1>1, <1>3, <3>1, <4>1
    <3> QED BY <1>0, <1>15, <2>1, <3>1 DEF inPlay
  <2> QED BY <1>6, <2>1 DEF SolverInv, OneInPlay
<1>18. Followed'
  <2>1. ASSUME NEW f \in held, ~claimEnds(OrderOf[f]) PROVE call'[OrderOf[f]].pc # "off"
    <3>1. f \in FillIds /\ OrderOf[f] \in Orders /\ disk[OrderOf[f]].f = f
      BY <1>0, <1>p, <2>1, Constants DEF held, TypeOK, good
    <3>2. disk[OrderOf[f]] # NoEntry
      BY <3>1, Nothing, Constants
    <3> QED BY <1>3, <3>1, <3>2
  <2> QED BY <1>6, <2>1 DEF Followed
<1> QED BY <1>5, <1>9, <1>10, <1>11, <1>12, <1>13, <1>14, <1>16, <1>17, <1>18 DEF SolverInv

-----------------------------------------------------------------------------
\* The first state.
LEMMA Starts == Init => SolverInv
<1> SUFFICES ASSUME Init PROVE SolverInv
  OBVIOUS
<1>0. /\ paid = {} /\ fillTx = {} /\ venueHolds = {} /\ fills = NoFile /\ disk = NoFile /\ up = TRUE
      /\ bidding = FALSE /\ unsent = {} /\ landed = {}
      /\ (\A c \in Callers : call[c] = NoCall) /\ call = [c \in Callers |-> NoCall]
      /\ accepted = [f \in FillIds |-> "no"] /\ acceptedOrders = [o \in Orders |-> None]
      /\ accepting = [o \in Orders |-> None] /\ lock = [o \in Orders |-> "Open"] /\ time = 0
  BY DEF Init
<1>1. TypeOK
  <2>1. FileOK(NoFile)
    BY Nothing DEF FileOK
  <2>2. call \in [Callers -> Call] /\ up \in BOOLEAN /\ bidding \in BOOLEAN /\ unsent \subseteq Orders
    BY <1>0, Nothing
  <2>3. /\ accepted \in [FillIds -> {"no", "restored", "signed"}]
        /\ acceptedOrders \in [Orders -> FillIds \cup {None}] /\ accepting \in [Orders -> FillIds \cup {None}]
        /\ lock \in [Orders -> {"Open", "Claimed", "Refunded"}] /\ time \in Int
    BY <1>0
  <2>4. FileOK(fills) /\ FileOK(disk)
    BY <1>0, <2>1
  <2>5. paid \subseteq FillIds /\ fillTx \subseteq FillIds /\ venueHolds \subseteq FillIds /\ landed \subseteq paid
    BY <1>0
  <2> QED BY <2>2, <2>3, <2>4, <2>5 DEF TypeOK
<1>2. \A c \in Callers : ~Owes(c) /\ ~Accepts(c) /\ ~works(c) /\ ~Unrecorded(c) /\ (\A r : ~answered(c, r))
  BY <1>0, Nothing, Constants DEF Owes, Accepts, works, Unrecorded, answered
<1>3. \A c \in Callers : CallOK(c)
  BY <1>0, <1>2, Nothing, Constants DEF CallOK
<1>4. FeedOK /\ \A o \in Orders : TaskOK(o)
  BY <1>0, <1>2, Nothing, Constants DEF FeedOK, TaskOK
<1>5. \A f \in FillIds : ~solid(f) /\ ~inPlay(f)
  BY <1>0, <1>2, Nothing, Constants DEF solid, inPlay, held, good
<1>6. Owners /\ Registered /\ Files /\ Followed /\ Running /\ Persisted
  BY <1>0, Nothing DEF Owners, Registered, Files, FileFits, Followed, Running, Persisted, held
<1>7. OneSolid /\ OneInPlay
  BY <1>5 DEF OneSolid, OneInPlay
<1> QED BY <1>1, <1>3, <1>4, <1>6, <1>7 DEF SolverInv

\* Every step of the gateway.
LEMMA GatewayKeeps == ASSUME SolverInv, NEW c \in Callers, Gateway(c) PROVE SolverInv'
<1> SUFFICES ASSUME NEW f, f = call[c].f, NEW o, o = OrderOf[f] PROVE SolverInv'
  OBVIOUS
<1>0. UNCHANGED <<up, crashes, process, disk>>
  BY DEF Gateway
<1>1. CASE Accept(c)
  BY <1>0, <1>1, AcceptStep
<1>2. CASE Joined(c)
  BY <1>0, <1>2, JoinedStep
<1>3. CASE CheckAccept(c)
  BY <1>0, <1>3, CheckAcceptStep
<1>4. CASE SignAcceptance(c)
  BY <1>0, <1>4, SignAcceptanceStep
<1>5. CASE ResignAcceptance(c)
  BY <1>0, <1>5, ResignAcceptanceStep
<1>6. CASE PostAcceptance(c)
  BY <1>0, <1>6, PostAcceptanceStep
<1>7. CASE Fill(c)
  BY <1>0, <1>7, FillStep
<1>8. CASE SendFill(c)
  BY <1>0, <1>8, SendFillStep
<1>9. CASE AwaitReceipt(c)
  BY <1>0, <1>9, AwaitReceiptStep
<1> QED BY <1>1, <1>2, <1>3, <1>4, <1>5, <1>6, <1>7, <1>8, <1>9 DEF Gateway

\* Every step.
LEMMA Steps == SolverInv /\ [Next]_vars => SolverInv'
<1> SUFFICES ASSUME SolverInv, [Next]_vars PROVE SolverInv'
  OBVIOUS
<1>1. ASSUME NEW f \in FillIds, Award(f) PROVE SolverInv'
  BY <1>1, AwardMoves
<1>2. CASE Prepared
  BY <1>2, PreparedMoves
<1>3. CASE FeedAnswered
  <2>1. ASSUME NEW f, f = call["feed"].f, NEW o, o = OrderOf[f] PROVE SolverInv'
    BY <1>3, <2>1, FeedAnsweredMoves
  <2> QED BY <2>1
<1>4. ASSUME NEW c \in Callers, Gateway(c) PROVE SolverInv'
  BY <1>4, GatewayKeeps
<1>5. ASSUME NEW c \in Callers, OnSigned(c) PROVE SolverInv'
  <2>1. ASSUME NEW f, f = call[c].f, NEW o, o = OrderOf[f] PROVE SolverInv'
    BY <1>5, <2>1, OnSignedMoves
  <2> QED BY <2>1
<1>6. ASSUME NEW o \in Orders, Task(o) PROVE SolverInv'
  BY <1>6, TaskMoves
<1>7. ASSUME NEW o \in Orders, Claim(o) PROVE SolverInv'
  BY <1>7, ClaimMoves
<1>8. CASE ApprovalStands \/ StartBidding \/ UNCHANGED vars
  BY <1>8, StartMoves
<1>9. CASE Crash
  BY <1>9, CrashMoves
<1>10. CASE Restart
  BY <1>10, RestartMoves
<1>11. CASE World
  BY <1>11, WorldMoves
<1> QED BY <1>1, <1>2, <1>3, <1>4, <1>5, <1>6, <1>7, <1>8, <1>9, <1>10, <1>11 DEF Next

\* The invariant holds of every state.
LEMMA Always == Spec => []SolverInv
  BY Starts, Steps, PTL DEF Spec

(* However awards repeat, name other fills, are refused, resumed or raced  *)
(* with a crash, two paid fills are never of one order                     *)
(* (requireOneFillPerOrder, `accepting` and the persisted entry).          *)
THEOREM OneFillPerOrderTheorem == Spec => []OneFillPerOrder
<1>1. SolverInv => OneFillPerOrder
  BY DEF SolverInv, TypeOK, OneSolid, OneFillPerOrder, solid, held
<1> QED BY <1>1, Always, PTL

(* Whatever write fails and wherever the process dies, an acceptance the   *)
(* venue may hold is on disk, as accepted or filled, while its lock can    *)
(* still be claimed (onSigned writes before the POST).                     *)
THEOREM AcceptanceOnDiskTheorem == Spec => []AcceptanceOnDisk
<1>1. SolverInv => AcceptanceOnDisk
  BY DEF SolverInv, Persisted, AcceptanceOnDisk, OnFile, good, held
<1> QED BY <1>1, Always, PTL

(* In a running process a paid fill whose lock can still be claimed has a  *)
(* settle task, or the feed call that sent it (settleInBackground,         *)
(* resume).                                                                *)
THEOREM PaidIsFollowedTheorem == Spec => []PaidIsFollowed
<1>1. SolverInv => PaidIsFollowed
  BY DEF SolverInv, Followed, PaidIsFollowed, Posted, answered, held, claimEnds
<1> QED BY <1>1, Always, PTL

-----------------------------------------------------------------------------
(* The inventory covers what was accepted. *)

\* A fill that may still be paid; those the solver has bound itself to, in memory or on disk.
due(f) == f \notin paid /\ time <= Deadline[f]
pledged == {f \in FillIds : due(f) /\ (accepted[f] # "no" \/ good(disk, f))}

\* The state the funds depend on keeps its type.
FundTypes ==
    /\ balance \in Int /\ reserved \in Int /\ owedFills \subseteq FillIds
    /\ acceptQueue \in Seq(Callers) /\ claimTx \subseteq Orders
\* What the file says was accepted, this process has accepted or knows paid.
Recorded == up => \A f \in FillIds : good(disk, f) \/ good(fills, f) => accepted[f] # "no" \/ f \in paid
\* An accepted fill is held back until it is paid or can be no more.
OwedHeld == \A f \in FillIds : accepted[f] # "no" /\ due(f) => f \in owedFills
\* Whoever has read the balance has the slot, and reserved what the others are owed.
HolderAt == \A c \in Callers : call[c].pc = "balance" => holdsSlot(c)
Reserves == \A c \in Callers : call[c].pc = "balance" => total(committed \ {call[c].f}) <= reserved
\* A lock is claimed for a fill that was paid, and refunded when it may be.
Settled == \A o \in Orders : /\ lock[o] = "Refunded" => time >= RefundableAt[o]
                             /\ lock[o] = "Claimed" \/ o \in claimTx => attested(o)
\* The balance covers what is pledged.
Pledges == total(pledged) <= balance
Funds == /\ FillsFitClaims /\ SolverInv /\ FundTypes /\ Recorded /\ OwedHeld /\ HolderAt /\ Reserves
         /\ Settled /\ Pledges

\* The total is a sum over a finite set: it grows with the set, amount by amount.
LEMMA TotalIs == \A S : total(S) = Sum(Amount, S)
BY DEF total, Sum

\* The principal of a set of fills counts each of them once.
LEMMA Weighs ==
    ASSUME NEW S \in SUBSET FillIds
    PROVE  /\ total(S) \in Nat
           /\ \A T \in SUBSET S : total(T) <= total(S)
           /\ \A f \in S : total(S) = Amount[f] + total(S \ {f})
<1>1. IsFiniteSet(S) /\ \A f \in S : Amount[f] \in Nat /\ Amount[f] \in Int
  BY GatewayAssumption, FS_Subset
<1>2. Sum(Amount, S) \in Nat BY <1>1, SumPart
<1>3. \A T \in SUBSET S : Sum(Amount, T) <= Sum(Amount, S) BY <1>1, SumPart
<1>4. \A f \in S : Sum(Amount, S) = Amount[f] + Sum(Amount, S \ {f}) BY <1>1, SumPick
<1> QED BY <1>2, <1>3, <1>4, TotalIs

\* What is committed is pledged.
LEMMA PledgesAre == committed \subseteq pledged /\ pledged \subseteq FillIds
BY DEF committed, pledged, due

\* A step in which nobody reads the balance, pays, accepts or gives up a slot.
LEMMA Quiet ==
    ASSUME Funds, SolverInv', Recorded',
           UNCHANGED <<time, balance, paid, lock, claimTx, accepted, owedFills, acceptQueue, reserved>>,
           \A f \in FillIds : good(disk, f)' => good(disk, f) \/ accepted[f] # "no" \/ f \in paid,
           \A c \in Callers : call'[c].pc = "balance" => call[c].pc = "balance" /\ call'[c].f = call[c].f
    PROVE  Funds'
<1>1. FundTypes' BY DEF Funds, FundTypes
<1>2. OwedHeld' BY DEF Funds, OwedHeld, due
<1>3. HolderAt' BY DEF Funds, HolderAt, holdsSlot
<1>4. committed' = committed BY DEF committed
<1>5. Reserves' BY <1>4 DEF Funds, Reserves
<1>6. Settled' BY DEF Funds, Settled, attested
<1>7. pledged' \subseteq pledged BY DEF pledged, due
<1>8. Pledges'
  <2>1. total(pledged') <= total(pledged) /\ total(pledged') \in Nat /\ total(pledged) \in Nat
    BY <1>7, Weighs, PledgesAre
  <2>2. total(pledged') <= balance' BY <2>1 DEF Funds, Pledges, FundTypes
  <2> QED BY <2>2 DEF Pledges
<1>9. FillsFitClaims' BY DEF Funds, FillsFitClaims
<1> QED BY <1>1, <1>2, <1>3, <1>5, <1>6, <1>8, <1>9 DEF Funds

\* The entry of an order rewritten: with nothing, or with a fill accepted or paid.
LEMMA FileRecords ==
    ASSUME Funds, NEW o \in Orders, NEW e \in Entry, Writes(o, e),
           e.phase \in {"accepted", "filled"} => accepted[e.f] # "no" \/ e.f \in paid,
           UNCHANGED <<accepted, paid, up>>
    PROVE  /\ up => Recorded'
           /\ up => \A f \in FillIds : good(disk, f)' => good(disk, f) \/ accepted[f] # "no" \/ f \in paid
<1> SUFFICES ASSUME up, NEW f \in FillIds
             PROVE  good(disk, f)' \/ good(fills, f)' => accepted[f] # "no" \/ f \in paid
  BY DEF Recorded, good
<1>1. fills \in [Orders -> Entry] /\ disk \in [Orders -> Entry] /\ OrderOf[f] \in Orders
  BY Constants DEF Funds, SolverInv, TypeOK, FileOK
<1>2. \A n \in {fills', disk'} : n[OrderOf[f]] \in {fills[OrderOf[f]], disk[OrderOf[f]], e}
  BY <1>1 DEF Writes, put
<1>3. good(disk, f) \/ good(fills, f) => accepted[f] # "no" \/ f \in paid BY DEF Funds, Recorded
<1> QED BY <1>2, <1>3 DEF good

\* What the caller c's move leaves of the others.
LEMMA OthersStay ==
    ASSUME Funds, NEW c \in Callers, call' \in [Callers -> Call], \A d \in Callers \ {c} : call'[d] = call[d],
           call'[c].pc # "balance"
    PROVE  \A d \in Callers : call'[d].pc = "balance" => call[d].pc = "balance" /\ call'[d].f = call[d].f
OBVIOUS

\* What is committed shrinks, the reserve of whoever read the balance stays.
LEMMA StaysReserved ==
    ASSUME Funds, committed' \subseteq committed, UNCHANGED reserved,
           \A c \in Callers : call'[c].pc = "balance" => call[c].pc = "balance" /\ call'[c].f = call[c].f
    PROVE  Reserves'
<1> SUFFICES ASSUME NEW c \in Callers, call'[c].pc = "balance"
             PROVE  total(committed' \ {call'[c].f}) <= reserved'
  BY DEF Reserves
<1>1. total(committed \ {call[c].f}) <= reserved /\ call'[c].f = call[c].f BY DEF Funds, Reserves
<1>2. committed' \ {call[c].f} \subseteq committed \ {call[c].f} /\ committed \ {call[c].f} \subseteq FillIds
  BY PledgesAre
<1>3. /\ total(committed' \ {call[c].f}) <= total(committed \ {call[c].f})
      /\ total(committed' \ {call[c].f}) \in Nat /\ total(committed \ {call[c].f}) \in Nat
  BY <1>2, Weighs
<1>4. reserved \in Int BY DEF Funds, FundTypes
<1> QED BY <1>1, <1>3, <1>4

\* What is pledged shrinks, the balance stays.
LEMMA StaysPledged ==
    ASSUME Funds, pledged' \subseteq pledged, UNCHANGED balance
    PROVE  Pledges'
<1>1. total(pledged') <= total(pledged) /\ total(pledged') \in Nat /\ total(pledged) \in Nat
  BY Weighs, PledgesAre
<1>2. total(pledged') <= balance' BY <1>1 DEF Funds, Pledges, FundTypes
<1> QED BY <1>2 DEF Pledges

-----------------------------------------------------------------------------
(* The gateway. *)

\* A caller waits, posts or fills.
LEMMA GatewayQuiet ==
    ASSUME Funds, SolverInv', NEW c \in Callers, Gateway(c),
           Joined(c) \/ PostAcceptance(c) \/ Fill(c) \/ SendFill(c)
    PROVE  Funds'
<1>1. UNCHANGED <<time, balance, paid, lock, claimTx, accepted, owedFills, acceptQueue, reserved, up, fills, disk>>
  BY DEF Gateway, process, Joined, PostAcceptance, Fill, SendFill, chain, gateway
<1>2. call' \in [Callers -> Call] /\ \A d \in Callers \ {c} : call'[d] = call[d]
  <2>1. call' \in [Callers -> Call] BY DEF SolverInv, TypeOK
  <2> QED BY <2>1 DEF Joined, PostAcceptance, Fill, SendFill, endFill, goto, answer
<1>3. call'[c].pc # "balance"
  <2>1. call[c] \in Call /\ call \in [Callers -> Call] BY DEF Funds, SolverInv, TypeOK
  <2> QED BY <2>1 DEF Joined, PostAcceptance, Fill, SendFill, endFill, goto, answer, Call
<1>4. Recorded' /\ \A f \in FillIds : good(disk, f)' => good(disk, f) BY <1>1 DEF Funds, Recorded, good
<1> QED BY <1>1, <1>2, <1>3, <1>4, OthersStay, Quiet

\* A caller takes its place in the queue, behind whoever holds the slot.
LEMMA AcceptFunds ==
    ASSUME Funds, SolverInv', NEW c \in Callers, Gateway(c), Accept(c)
    PROVE  Funds'
<1>1. UNCHANGED <<time, balance, paid, lock, claimTx, accepted, owedFills, reserved, up, fills, disk>>
  BY DEF Gateway, process, Accept, chain, gateway
<1>2. call' \in [Callers -> Call] /\ \A d \in Callers \ {c} : call'[d] = call[d]
  <2>1. call' \in [Callers -> Call] BY DEF SolverInv, TypeOK
  <2> QED BY <2>1 DEF Accept, goto, answer
<1>3. call'[c].pc # "balance"
  <2>1. call[c] \in Call /\ call \in [Callers -> Call] BY DEF Funds, SolverInv, TypeOK
  <2> QED BY <2>1 DEF Accept, goto, answer, Call
<1>4. \A d \in Callers : call'[d].pc = "balance" => call[d].pc = "balance" /\ call'[d].f = call[d].f
  BY <1>2, <1>3
<1>5. acceptQueue' \in Seq(Callers) /\ (acceptQueue # <<>> => acceptQueue' # <<>> /\ Head(acceptQueue') = Head(acceptQueue))
  <2>1. acceptQueue \in Seq(Callers) BY DEF Funds, FundTypes
  <2>2. acceptQueue' = acceptQueue \/ acceptQueue' = Append(acceptQueue, c) BY DEF Accept
  <2>3. CASE acceptQueue' = Append(acceptQueue, c)
    <3>1. /\ Append(acceptQueue, c) \in Seq(Callers)
          /\ Len(Append(acceptQueue, c)) = Len(acceptQueue) + 1 /\ Len(acceptQueue) \in Nat
      BY <2>1
    <3>3. Append(acceptQueue, c) # <<>> BY <3>1
    <3>2. acceptQueue # <<>> => Append(acceptQueue, c)[1] = acceptQueue[1] BY <2>1
    <3> QED BY <2>3, <3>1, <3>2, <3>3
  <2> QED BY <2>1, <2>2, <2>3
<1>6. FundTypes' BY <1>1, <1>5 DEF Funds, FundTypes
<1>7. HolderAt' BY <1>4, <1>5 DEF Funds, HolderAt, holdsSlot
<1>8. Recorded' /\ OwedHeld' /\ Settled'
  BY <1>1 DEF Funds, Recorded, good, OwedHeld, due, Settled, attested
<1>9. committed' = committed /\ pledged' = pledged BY <1>1 DEF committed, pledged, due, good
<1>10. Reserves' /\ Pledges' BY <1>1, <1>4, <1>9, StaysReserved, StaysPledged
<1>11. FillsFitClaims' BY DEF Funds, FillsFitClaims
<1> QED BY <1>6, <1>7, <1>8, <1>10, <1>11 DEF Funds

\* The holder reads what the others are owed, then the balance; or gives up its slot.
LEMMA CheckFunds ==
    ASSUME Funds, SolverInv', NEW c \in Callers, Gateway(c), CheckAccept(c)
    PROVE  Funds'
<1> DEFINE f == call[c].f
<1>1. UNCHANGED <<time, balance, paid, lock, claimTx, accepted, landed, up, fills, disk>> /\ holdsSlot(c) /\ call[c].pc = "slot"
  BY DEF Gateway, process, CheckAccept, refuseAccept, at
<1>2. call' \in [Callers -> Call] /\ \A d \in Callers \ {c} : call'[d] = call[d]
  <2>1. call' \in [Callers -> Call] BY DEF SolverInv, TypeOK
  <2> QED BY <2>1 DEF CheckAccept, refuseAccept, goto
<1>3. \A d \in Callers : call[d].pc # "balance" BY <1>1 DEF Funds, HolderAt, holdsSlot
<1>4. acceptQueue' \in Seq(Callers)
  <2>1. acceptQueue \in Seq(Callers) /\ acceptQueue # <<>> BY <1>1 DEF Funds, FundTypes, holdsSlot
  <2>2. Tail(acceptQueue) \in Seq(Callers) BY <2>1
  <2> QED BY <2>1, <2>2 DEF CheckAccept, refuseAccept
<1>5. Recorded' /\ Settled' BY <1>1 DEF Funds, Recorded, good, Settled, attested
<1>6. committed' = committed /\ pledged' = pledged BY <1>1 DEF committed, pledged, due, good
<1>7. Pledges' BY <1>1, <1>6, StaysPledged
<1>8. FillsFitClaims' BY DEF Funds, FillsFitClaims
<1>9. CASE refuseAccept(c) /\ UNCHANGED owedFills
  <2>1. reserved' = 0 /\ call'[c].pc # "balance"
    <3>1. call[c] \in Call /\ call \in [Callers -> Call] BY DEF Funds, SolverInv, TypeOK
    <3> QED BY <1>9, <3>1 DEF refuseAccept, Call
  <2>2. FundTypes' BY <1>1, <1>4, <1>9, <2>1 DEF Funds, FundTypes
  <2>3. HolderAt' /\ Reserves' BY <1>2, <1>3, <2>1 DEF HolderAt, Reserves
  <2>4. OwedHeld' BY <1>1, <1>9 DEF Funds, OwedHeld, due
  <2> QED BY <1>5, <1>7, <1>8, <2>2, <2>3, <2>4 DEF Funds
<1>10. CASE ~(refuseAccept(c) /\ UNCHANGED owedFills)
  <2>1. PICK seen \in SUBSET (paid \cap owedFills) :
          /\ owedFills' = owedInventory(f, seen) \cup (owedFills \cap ({f} \cup landed))
          /\ reserved' = total(owedInventory(f, seen))
          /\ goto(c, "balance") /\ UNCHANGED acceptQueue
    BY <1>10 DEF CheckAccept
  <2> DEFINE owed == owedInventory(f, seen)
  <2>2. owed \subseteq FillIds /\ owed \subseteq owedFills BY DEF owedInventory, Funds, FundTypes
  <2>3. landed \subseteq paid BY DEF Funds, SolverInv, TypeOK
  <2>4. committed \ {f} \subseteq owed
    BY <2>3 DEF committed, owedInventory, Funds, OwedHeld, due
  <2>5. total(committed \ {f}) <= total(owed) /\ total(owed) \in Nat BY <2>2, <2>4, Weighs
  <2>6. call'[c].f = f
    <3>1. call[c] \in Call /\ call \in [Callers -> Call] BY DEF Funds, SolverInv, TypeOK
    <3> QED BY <2>1, <3>1 DEF goto, Call
  <2>7. FundTypes' BY <1>1, <1>4, <2>1, <2>2, <2>5 DEF Funds, FundTypes
  <2>8. HolderAt' BY <1>1, <1>2, <1>3, <2>1 DEF HolderAt, holdsSlot
  <2>9. Reserves' BY <1>2, <1>3, <1>6, <2>1, <2>5, <2>6 DEF Reserves
  <2>10. OwedHeld'
    <3> SUFFICES ASSUME NEW g \in FillIds, accepted[g] # "no", due(g) PROVE g \in owedFills'
      BY <1>1 DEF OwedHeld, due
    <3>1. g \in owedFills BY DEF Funds, OwedHeld
    <3> QED BY <2>1, <2>3, <2>4, <3>1 DEF committed, due
  <2> QED BY <1>5, <1>7, <1>8, <2>7, <2>8, <2>9, <2>10 DEF Funds
<1> QED BY <1>9, <1>10

\* The holder signs on a balance that covers its fill besides what it reserved, or gives up its slot.
LEMMA SignFunds ==
    ASSUME Funds, SolverInv', NEW c \in Callers, Gateway(c), SignAcceptance(c)
    PROVE  Funds'
<1> DEFINE f == call[c].f
<1>1. /\ UNCHANGED <<time, balance, paid, lock, claimTx, up, fills, disk>> /\ holdsSlot(c) /\ call[c].pc = "balance"
      /\ f \in FillIds
  <2>1. call[c].pc = "balance" BY DEF SignAcceptance, at
  <2> QED BY <2>1, Working DEF Gateway, process, SignAcceptance, refuseAccept, Funds
<1>2. call' \in [Callers -> Call] /\ \A d \in Callers \ {c} : call'[d] = call[d]
  <2>1. call' \in [Callers -> Call] BY DEF SolverInv, TypeOK
  <2> QED BY <2>1 DEF SignAcceptance, refuseAccept, goto
<1>3. call'[c].pc # "balance"
  <2>1. call[c] \in Call /\ call \in [Callers -> Call] BY DEF Funds, SolverInv, TypeOK
  <2> QED BY <2>1 DEF SignAcceptance, refuseAccept, goto, Call
<1>4. \A d \in Callers : call'[d].pc # "balance"
  BY <1>1, <1>2, <1>3 DEF Funds, HolderAt, holdsSlot
<1>5. acceptQueue' \in Seq(Callers) /\ reserved' = 0
  <2>1. acceptQueue \in Seq(Callers) /\ acceptQueue # <<>> BY <1>1 DEF Funds, FundTypes, holdsSlot
  <2>2. Tail(acceptQueue) \in Seq(Callers) BY <2>1
  <2> QED BY <2>1, <2>2 DEF SignAcceptance, refuseAccept
<1>6. HolderAt' /\ Reserves' BY <1>4 DEF HolderAt, Reserves
<1>7. Settled' /\ FillsFitClaims' BY <1>1 DEF Funds, Settled, attested, FillsFitClaims
<1>8. CASE UNCHANGED <<accepted, owedFills>>
  <2>1. FundTypes' BY <1>1, <1>5, <1>8 DEF Funds, FundTypes
  <2>2. Recorded' /\ OwedHeld' BY <1>1, <1>8 DEF Funds, Recorded, good, OwedHeld, due
  <2>3. pledged' = pledged BY <1>1, <1>8 DEF pledged, due, good
  <2> QED BY <1>1, <1>6, <1>7, <2>1, <2>2, <2>3, StaysPledged DEF Funds
<1>9. CASE balance >= Amount[f] + reserved /\ recordSigned(f)
  <2>1. accepted \in [FillIds -> {"no", "restored", "signed"}] BY DEF Funds, SolverInv, TypeOK
  <2>2. /\ accepted'[f] = "signed" /\ \A g \in FillIds \ {f} : accepted'[g] = accepted[g]
        /\ owedFills' = owedFills \cup {f}
    BY <1>1, <1>9, <2>1 DEF recordSigned
  <2>3. FundTypes' BY <1>1, <1>5, <2>2 DEF Funds, FundTypes
  <2>4. Recorded' BY <1>1, <2>2 DEF Funds, Recorded, good
  <2>5. OwedHeld' BY <1>1, <2>2 DEF Funds, OwedHeld, due
  <2>6. up BY <1>1, Working DEF Funds
  <2>7. pledged' \ {f} \subseteq committed \ {f}
    BY <1>1, <2>2, <2>6 DEF pledged, committed, due, good, Funds, Recorded
  <2>8. total(pledged') <= Amount[f] + total(committed \ {f})
    <3>1. pledged' \subseteq FillIds /\ committed \ {f} \subseteq FillIds BY DEF pledged, committed
    <3>2. total(pledged' \ {f}) <= total(committed \ {f}) BY <2>7, <3>1, Weighs
    <3>3. /\ total(pledged' \ {f}) \in Nat /\ total(committed \ {f}) \in Nat /\ Amount[f] \in Nat
          /\ f \in pledged' => total(pledged') = Amount[f] + total(pledged' \ {f})
      BY <1>1, <3>1, Weighs, GatewayAssumption
    <3>4. f \notin pledged' => pledged' \ {f} = pledged' OBVIOUS
    <3> QED BY <3>2, <3>3, <3>4
  <2>9. total(committed \ {f}) <= reserved BY <1>1 DEF Funds, Reserves
  <2>10. Pledges'
    <3>1. /\ total(pledged') \in Nat /\ total(committed \ {f}) \in Nat /\ Amount[f] \in Nat
          /\ balance \in Int /\ reserved \in Int
      BY <1>1, Weighs, GatewayAssumption DEF pledged, committed, Funds, FundTypes
    <3>2. total(pledged') <= balance' BY <1>1, <1>9, <2>8, <2>9, <3>1
    <3> QED BY <3>2 DEF Pledges
  <2> QED BY <1>6, <1>7, <2>3, <2>4, <2>5, <2>10 DEF Funds
<1> QED BY <1>8, <1>9 DEF SignAcceptance

\* An acceptance restored is signed again: it was accepted before.
LEMMA ResignFunds ==
    ASSUME Funds, SolverInv', NEW c \in Callers, Gateway(c), ResignAcceptance(c)
    PROVE  Funds'
<1> DEFINE f == call[c].f
<1>1. /\ UNCHANGED <<time, balance, paid, lock, claimTx, acceptQueue, reserved, up, fills, disk>>
      /\ f \in FillIds /\ accepted[f] # "no" /\ recordSigned(f)
  <2>1. call[c].pc = "sign" BY DEF ResignAcceptance, at
  <2>2. f \in FillIds /\ CallOK(c) BY <2>1, Working DEF Funds
  <2> QED BY <2>1, <2>2 DEF Gateway, process, ResignAcceptance, chain, CallOK
<1>2. call' \in [Callers -> Call] /\ \A d \in Callers \ {c} : call'[d] = call[d]
  <2>1. call' \in [Callers -> Call] BY DEF SolverInv, TypeOK
  <2> QED BY <2>1 DEF ResignAcceptance, goto
<1>3. call'[c].pc # "balance"
  <2>1. call[c] \in Call /\ call \in [Callers -> Call] BY DEF Funds, SolverInv, TypeOK
  <2> QED BY <2>1 DEF ResignAcceptance, goto, Call
<1>4. \A d \in Callers : call'[d].pc = "balance" => call[d].pc = "balance" /\ call'[d].f = call[d].f
  BY <1>2, <1>3
<1>5. /\ \A g \in FillIds : accepted'[g] # "no" <=> accepted[g] # "no"
      /\ owedFills' = owedFills \cup {f}
  <2>1. accepted \in [FillIds -> {"no", "restored", "signed"}] BY DEF Funds, SolverInv, TypeOK
  <2> QED BY <1>1, <2>1 DEF recordSigned
<1>6. FundTypes' /\ HolderAt' /\ Settled' /\ FillsFitClaims'
  BY <1>1, <1>4, <1>5 DEF Funds, FundTypes, HolderAt, holdsSlot, Settled, attested, FillsFitClaims
<1>7. Recorded' /\ OwedHeld' BY <1>1, <1>5 DEF Funds, Recorded, good, OwedHeld, due
<1>8. committed' = committed /\ pledged' = pledged BY <1>1, <1>5 DEF committed, pledged, due, good
<1> QED BY <1>1, <1>4, <1>6, <1>7, <1>8, StaysReserved, StaysPledged DEF Funds

\* A fill that is paid is owed no more.
LEMMA ReceiptFunds ==
    ASSUME Funds, SolverInv', NEW c \in Callers, Gateway(c), AwaitReceipt(c)
    PROVE  Funds'
<1>1. /\ UNCHANGED <<time, balance, paid, lock, claimTx, accepted, acceptQueue, reserved, up, fills, disk>>
      /\ owedFills' \subseteq owedFills /\ \A g \in owedFills \ owedFills' : g \in paid
  BY DEF Gateway, process, AwaitReceipt, chain
<1>2. call' \in [Callers -> Call] /\ \A d \in Callers \ {c} : call'[d] = call[d]
  <2>1. call' \in [Callers -> Call] BY DEF SolverInv, TypeOK
  <2> QED BY <2>1 DEF AwaitReceipt, endFill, answer
<1>3. call'[c].pc # "balance"
  <2>1. call[c] \in Call /\ call \in [Callers -> Call] BY DEF Funds, SolverInv, TypeOK
  <2> QED BY <2>1 DEF AwaitReceipt, endFill, answer, Call
<1>4. \A d \in Callers : call'[d].pc = "balance" => call[d].pc = "balance" /\ call'[d].f = call[d].f
  BY <1>2, <1>3
<1>5. FundTypes' /\ HolderAt' /\ Settled' /\ FillsFitClaims'
  BY <1>1, <1>4 DEF Funds, FundTypes, HolderAt, holdsSlot, Settled, attested, FillsFitClaims
<1>6. Recorded' /\ OwedHeld' BY <1>1 DEF Funds, Recorded, good, OwedHeld, due
<1>7. committed' = committed /\ pledged' = pledged BY <1>1 DEF committed, pledged, due, good
<1> QED BY <1>1, <1>4, <1>5, <1>6, <1>7, StaysReserved, StaysPledged DEF Funds

\* Every step of the gateway.
LEMMA GatewayFunds == ASSUME Funds, SolverInv', NEW c \in Callers, Gateway(c) PROVE Funds'
<1>1. CASE Joined(c) \/ PostAcceptance(c) \/ Fill(c) \/ SendFill(c) BY <1>1, GatewayQuiet
<1>2. CASE Accept(c) BY <1>2, AcceptFunds
<1>3. CASE CheckAccept(c) BY <1>3, CheckFunds
<1>4. CASE SignAcceptance(c) BY <1>4, SignFunds
<1>5. CASE ResignAcceptance(c) BY <1>5, ResignFunds
<1>6. CASE AwaitReceipt(c) BY <1>6, ReceiptFunds
<1> QED BY <1>1, <1>2, <1>3, <1>4, <1>5, <1>6 DEF Gateway

-----------------------------------------------------------------------------
(* The chains, the crash and the restart. *)

\* A fill that lands was pledged: it left a transaction, so it is in the file while its lock can be
\* claimed, and it can land only while it can.
LEMMA LandsPledged ==
    ASSUME Funds, NEW f \in fillTx, due(f)
    PROVE  f \in pledged
<1>1. /\ f \in FillIds /\ OrderOf[f] \in Orders /\ time \in Int /\ Deadline[f] \in Nat
      /\ RefundableAt[OrderOf[f]] \in Nat
      /\ lock[OrderOf[f]] \in {"Open", "Claimed", "Refunded"}
  BY GatewayAssumption, Constants DEF Funds, SolverInv, TypeOK
<1>2. time <= Deadline[f] /\ Deadline[f] + 1 < RefundableAt[OrderOf[f]] /\ f \notin paid
  BY <1>1 DEF due, Funds, FillsFitClaims, ClaimInclusion
<1>3. time + 1 < RefundableAt[OrderOf[f]] /\ ~(time >= RefundableAt[OrderOf[f]]) BY <1>1, <1>2
<1>4. claimWindowOpen(OrderOf[f]) BY <1>3 DEF claimWindowOpen, ClaimInclusion
<1>5. ~attested(OrderOf[f])
  <2> SUFFICES ASSUME NEW g \in paid, OrderOf[g] = OrderOf[f] PROVE FALSE BY DEF attested
  <2>1. g \in FillIds /\ solid(g) /\ solid(f) BY DEF solid, held, Funds, SolverInv, TypeOK
  <2>2. f = g BY <1>1, <2>1 DEF Funds, SolverInv, OneSolid
  <2> QED BY <1>2, <2>2
<1>6. lock[OrderOf[f]] = "Open" BY <1>1, <1>3, <1>5 DEF Funds, Settled
<1>7. good(disk, f) BY <1>4, <1>6 DEF Funds, SolverInv, Persisted, held, OnFile, claimEnds
<1> QED BY <1>1, <1>7 DEF pledged

\* What the chains do.
LEMMA WorldFunds == ASSUME Funds, SolverInv', World PROVE Funds'
<1>1. UNCHANGED <<accepted, owedFills, acceptQueue, reserved, up, fills, disk, call>>
  BY DEF World, process, FillLands, FillDies, ClaimLands, ClaimDies, Refund, Tick, memory, gateway
<1>2. HolderAt' /\ FillsFitClaims' BY <1>1 DEF Funds, HolderAt, holdsSlot, FillsFitClaims
<1>3. \A d \in Callers : call'[d].pc = "balance" => call[d].pc = "balance" /\ call'[d].f = call[d].f
  BY <1>1
<1>4. CASE FillLands
  <2>1. PICK f \in fillTx : /\ f \notin paid /\ time <= Deadline[f] /\ balance >= Amount[f]
                           /\ paid' = paid \cup {f} /\ balance' = balance - Amount[f]
    BY <1>4 DEF FillLands
  <2>2. UNCHANGED <<time, lock, claimTx>> BY <1>4 DEF FillLands
  <2>3. f \in pledged BY <2>1, LandsPledged DEF due
  <2>4. f \in FillIds /\ Amount[f] \in Nat BY <2>3, GatewayAssumption DEF pledged
  <2>5. FundTypes' BY <1>1, <2>1, <2>2, <2>4 DEF Funds, FundTypes
  <2>6. Recorded' /\ OwedHeld' BY <1>1, <2>1, <2>2 DEF Funds, Recorded, good, OwedHeld, due
  <2>7. Settled' BY <1>1, <2>1, <2>2 DEF Funds, Settled, attested
  <2>8. committed' \subseteq committed /\ pledged' = pledged \ {f}
    BY <1>1, <2>1, <2>2 DEF committed, pledged, due, good
  <2>9. Reserves' BY <1>1, <1>3, <2>8, StaysReserved
  <2>10. Pledges'
    <3>1. total(pledged) = Amount[f] + total(pledged') /\ total(pledged) \in Nat /\ total(pledged') \in Nat
      BY <2>3, <2>8, Weighs, PledgesAre
    <3>2. total(pledged') <= balance' BY <2>1, <2>4, <3>1 DEF Funds, Pledges, FundTypes
    <3> QED BY <3>2 DEF Pledges
  <2> QED BY <1>2, <2>5, <2>6, <2>7, <2>9, <2>10 DEF Funds
<1>5. CASE ~FillLands
  <2>1. UNCHANGED <<balance, paid>> /\ time \in Int /\ time' \in Int /\ time' >= time /\ claimTx' \subseteq claimTx
    <3>1. time \in Int BY DEF Funds, SolverInv, TypeOK
    <3> QED BY <1>5, <3>1 DEF World, FillDies, ClaimLands, ClaimDies, Refund, Tick
  <2>2. FundTypes' BY <1>1, <2>1 DEF Funds, FundTypes
  <2>3. \A f \in FillIds : due(f)' => due(f)
    <3>1. \A f \in FillIds : Deadline[f] \in Nat BY GatewayAssumption
    <3> QED BY <2>1, <3>1 DEF due
  <2>4. Recorded' /\ OwedHeld' BY <1>1, <2>1, <2>3 DEF Funds, Recorded, good, OwedHeld
  <2>5. committed' \subseteq committed /\ pledged' \subseteq pledged
    <3>1. \A f \in FillIds : due(f)' <=> (f \notin paid' /\ time' <= Deadline[f]) BY DEF due
    <3> QED BY <1>1, <2>1, <2>3, <3>1 DEF committed, pledged, due, good
  <2>6. Reserves' /\ Pledges' BY <1>1, <1>3, <2>1, <2>5, StaysReserved, StaysPledged
  <2>7. Settled'
    <3> SUFFICES ASSUME NEW o \in Orders
                 PROVE  /\ lock'[o] = "Refunded" => time' >= RefundableAt[o]
                        /\ lock'[o] = "Claimed" \/ o \in claimTx' => attested(o)
      BY <2>1 DEF Settled, attested
    <3>1. lock \in [Orders -> {"Open", "Claimed", "Refunded"}] /\ RefundableAt[o] \in Nat
      BY GatewayAssumption DEF Funds, SolverInv, TypeOK
    <3>2. /\ lock'[o] = "Refunded" => lock[o] = "Refunded" \/ time >= RefundableAt[o]
          /\ lock'[o] = "Claimed" => lock[o] = "Claimed" \/ o \in claimTx
      BY <1>5, <3>1 DEF World, FillDies, ClaimLands, ClaimDies, Refund, Tick
    <3>3. /\ lock[o] = "Refunded" => time >= RefundableAt[o]
          /\ lock[o] = "Claimed" \/ o \in claimTx => attested(o)
      BY DEF Funds, Settled
    <3> QED BY <2>1, <3>1, <3>2, <3>3
  <2> QED BY <1>2, <2>2, <2>4, <2>6, <2>7 DEF Funds
<1> QED BY <1>4, <1>5

\* A claim is sent for a fill that was paid.
LEMMA ClaimFunds == ASSUME Funds, SolverInv', NEW o \in Orders, Claim(o) PROVE Funds'
<1>1. /\ UNCHANGED <<time, balance, paid, lock, accepted, owedFills, acceptQueue, reserved, up, fills, disk, call>>
      /\ claimTx' = claimTx \cup {o} /\ attested(o)
  BY DEF Claim, process, ClaimPass, gateway
<1>2. FundTypes' /\ Recorded' /\ OwedHeld' /\ HolderAt' /\ FillsFitClaims'
  BY <1>1 DEF Funds, FundTypes, Recorded, good, OwedHeld, due, HolderAt, holdsSlot, FillsFitClaims
<1>3. Settled' BY <1>1 DEF Funds, Settled, attested
<1>4. committed' = committed /\ pledged' = pledged BY <1>1 DEF committed, pledged, due, good
<1>5. Reserves' /\ Pledges' BY <1>1, <1>4, StaysReserved, StaysPledged
<1> QED BY <1>2, <1>3, <1>5 DEF Funds

\* A crash forgets what was accepted; the disk still says so.
LEMMA CrashFunds == ASSUME Funds, SolverInv', Crash PROVE Funds'
<1>1. /\ up' = FALSE /\ UNCHANGED <<time, balance, paid, lock, claimTx, disk>>
      /\ \A c \in Callers : call'[c] = NoCall
      /\ \A f \in FillIds : accepted'[f] = "no"
      /\ owedFills' = {} /\ reserved' = 0 /\ acceptQueue' = <<>>
  BY DEF Crash, chain
<1>2. FundTypes'
  <2>1. acceptQueue' \in Seq(Callers) BY <1>1
  <2> QED BY <1>1, <2>1 DEF Funds, FundTypes
<1>3. \A c \in Callers : call'[c].pc # "balance" BY <1>1, Nothing
<1>4. Recorded' /\ OwedHeld' /\ HolderAt' /\ Reserves' BY <1>1, <1>3 DEF Recorded, OwedHeld, HolderAt, Reserves
<1>5. Settled' /\ FillsFitClaims' BY <1>1 DEF Funds, Settled, attested, FillsFitClaims
<1>6. pledged' \subseteq pledged BY <1>1 DEF pledged, due, good
<1> QED BY <1>1, <1>2, <1>4, <1>5, <1>6, StaysPledged DEF Funds

\* A restart restores what the disk says was accepted, and holds all of it back.
LEMMA RestartFunds == ASSUME Funds, SolverInv', Restart PROVE Funds'
<1> DEFINE fs == {disk[o].f : o \in {p \in Orders : disk[p].phase \in {"accepted", "filled"}}}
<1>1. /\ fills' = disk /\ UNCHANGED <<time, balance, paid, lock, claimTx, disk, acceptQueue, reserved>>
      /\ \A f \in FillIds : accepted'[f] # "no" <=> f \in fs
      /\ owedFills' = fs
  BY DEF Restart, chain, restoreAcceptance
<1>2. \A f \in FillIds : good(disk, f) => f \in fs BY Constants DEF good
<1>3. \A f \in fs : f \in FillIds /\ good(disk, f)
  <2> SUFFICES ASSUME NEW o \in Orders, disk[o].phase \in {"accepted", "filled"}
               PROVE  disk[o].f \in FillIds /\ good(disk, disk[o].f)
    OBVIOUS
  <2>1. disk[o] \in Entry /\ (disk[o].f # None => OrderOf[disk[o].f] = o) BY DEF Funds, SolverInv, TypeOK, FileOK
  <2>2. disk[o].f \in FillIds BY <2>1, Constants DEF Entry, NoEntry
  <2>3. OrderOf[disk[o].f] = o BY <2>1, <2>2, Constants
  <2> QED BY <2>2, <2>3 DEF good
<1>4. FundTypes'
  <2>1. fs \subseteq FillIds BY <1>3
  <2> HIDE DEF fs
  <2> QED BY <1>1, <2>1 DEF Funds, FundTypes
<1>5. \A c \in Callers : call'[c].pc # "balance"
  <2> SUFFICES ASSUME NEW c \in Callers PROVE call'[c].pc # "balance"
    OBVIOUS
  <2>1. \/ call'[c] = NoCall
        \/ call'[c] = [NoCall EXCEPT !.pc = resumesAt(disk[c].phase), !.f = disk[c].f,
                                     !.phase = disk[c].phase, !.resume = (disk[c].phase = "accepted")]
    BY DEF Restart
  <2>2. resumesAt(disk[c].phase) # "balance" BY DEF resumesAt
  <2>3. NoCall.pc # "balance" BY Nothing
  <2> QED BY <2>1, <2>2, <2>3 DEF NoCall
<1>6. Recorded' /\ OwedHeld' BY <1>1, <1>2 DEF Recorded, good, OwedHeld
<1>7. HolderAt' /\ Reserves' BY <1>5 DEF HolderAt, Reserves
<1>8. Settled' /\ FillsFitClaims' BY <1>1 DEF Funds, Settled, attested, FillsFitClaims
<1>9. pledged' \subseteq pledged BY <1>1, <1>3 DEF pledged, due, good
<1> QED BY <1>1, <1>4, <1>6, <1>7, <1>8, <1>9, StaysPledged DEF Funds

-----------------------------------------------------------------------------
(* The solver. *)

\* What every step of the solver leaves to the gateway and the chains.
LEMMA SolverQuiet ==
    ASSUME Funds, SolverInv', up, UNCHANGED <<restOfChain, up>>,
           UNCHANGED <<accepted, owedFills, acceptQueue, reserved>>,
           \A c \in Callers : call'[c].pc = "balance" => call'[c] = call[c],
           NEW o \in Orders, NEW e \in Entry, Writes(o, e),
           e.phase \in {"accepted", "filled"} => accepted[e.f] # "no" \/ e.f \in paid
    PROVE  Funds'
<1>1. UNCHANGED <<time, balance, paid, lock, claimTx>> BY DEF restOfChain
<1>2. Recorded' /\ \A f \in FillIds : good(disk, f)' => good(disk, f) \/ accepted[f] # "no" \/ f \in paid
  BY <1>1, FileRecords
<1> QED BY <1>1, <1>2, Quiet

\* What may be written of a fill.
LEMMA Entries ==
    /\ NoEntry \in Entry /\ NoEntry.phase \notin {"accepted", "filled"}
    /\ \A f \in FillIds, p \in Phase : entry(p, f) \in Entry /\ entry(p, f).phase = p /\ entry(p, f).f = f
  BY Nothing, Constants DEF Entry, entry

\* Recording a fill and forgetting an order are writes.
LEMMA Recording ==
    ASSUME NEW f \in FillIds
    PROVE  /\ \A p : recordBestEffort(p, f) => Writes(OrderOf[f], entry(p, f))
           /\ \A o : forget(o) => Writes(o, NoEntry)
           /\ UNCHANGED <<fills, disk>> => \A o, e : Writes(o, e)
  BY DEF recordBestEffort, forget, Writes, write, writeFails

\* Where a call goes, and how a settle task ends.
LEMMA Turns ==
    ASSUME call \in [Callers -> Call], NEW c \in Callers
    PROVE  /\ \A p : goto(c, p) /\ p # "balance" =>
                 call'[c].pc # "balance" /\ \A d \in Callers \ {c} : call'[d] = call[d]
           /\ call' = [call EXCEPT ![c] = NoCall] =>
                 call'[c].pc # "balance" /\ \A d \in Callers \ {c} : call'[d] = call[d]
<1>1. NoCall.pc # "balance" BY Nothing
<1>2. ASSUME NEW p, goto(c, p), p # "balance"
      PROVE  call'[c].pc # "balance" /\ \A d \in Callers \ {c} : call'[d] = call[d]
  <2>1. call'[c] = [call[c] EXCEPT !.pc = p, !.res = None] BY <1>2 DEF goto
  <2>2. call'[c].pc = p BY <2>1 DEF Call
  <2>3. \A d \in Callers \ {c} : call'[d] = call[d] BY <1>2 DEF goto
  <2> QED BY <1>2, <2>2, <2>3
<1>3. ASSUME call' = [call EXCEPT ![c] = NoCall]
      PROVE  call'[c].pc # "balance" /\ \A d \in Callers \ {c} : call'[d] = call[d]
  BY <1>1, <1>3
<1> QED BY <1>2, <1>3

\* The feed takes an award up, and binds it.
LEMMA FeedFunds ==
    ASSUME Funds, SolverInv', (\E f \in FillIds : Award(f)) \/ Prepared
    PROVE  Funds'
<1>1. /\ UNCHANGED <<restOfChain, up, accepted, owedFills, acceptQueue, reserved>>
      /\ "feed" \in Callers /\ call \in [Callers -> Call]
  BY Constants DEF Award, Prepared, chain, restOfChain, gateway, Funds, SolverInv, TypeOK
<1>2. \A c \in Callers : call'[c].pc = "balance" => call'[c] = call[c]
  <2>1. call'["feed"].pc # "balance"
    <3>1. NoCall.pc # "balance" BY Nothing
    <3>2. \/ call'["feed"] = NoCall
          \/ \E f : call'["feed"] = [NoCall EXCEPT !.pc = "prepare", !.f = f]
          \/ \E p : call'["feed"] = [call["feed"] EXCEPT !.pc = "accept", !.phase = p]
      BY <1>1 DEF Award, Prepared
    <3>3. call["feed"] \in Call BY <1>1
    <3>4. ASSUME NEW p, call'["feed"] = [call["feed"] EXCEPT !.pc = "accept", !.phase = p]
          PROVE  call'["feed"].pc # "balance"
      BY <3>3, <3>4 DEF Call
    <3>5. ASSUME NEW f, call'["feed"] = [NoCall EXCEPT !.pc = "prepare", !.f = f]
          PROVE  call'["feed"].pc # "balance"
      BY <3>5 DEF NoCall
    <3> QED BY <3>1, <3>2, <3>4, <3>5
  <2>2. \A c \in Callers \ {"feed"} : call'[c] = call[c] BY <1>1 DEF Award, Prepared
  <2> QED BY <2>1, <2>2
<1>3. CASE \E f \in FillIds : Award(f)
  <2>1. up BY <1>3 DEF Award, idle
  <2>2. PICK f \in FillIds : Award(f) BY <1>3
  <2>3. Writes(OrderOf[f], NoEntry) BY <2>2, Recording DEF Award
  <2> QED BY <1>1, <1>2, <2>1, <2>3, Constants, Entries, SolverQuiet
<1>4. CASE Prepared
  <2> DEFINE f == call["feed"].f
  <2>1. up /\ f \in FillIds
    <3>1. call["feed"].pc # "off" BY <1>4 DEF Prepared, at
    <3> QED BY <1>1, <3>1, Working DEF Funds
  <2>2. Writes(OrderOf[f], entry("accepting", f)) BY <1>4 DEF Prepared, Writes, write, writeFails
  <2>3. /\ entry("accepting", f) \in Entry /\ entry("accepting", f).phase \notin {"accepted", "filled"}
    BY <2>1, Entries DEF Phase
  <2> QED BY <1>1, <1>2, <2>1, <2>2, <2>3, Constants, SolverQuiet
<1> QED BY <1>3, <1>4

\* What was signed is recorded.
LEMMA OnSignedFunds == ASSUME Funds, SolverInv', NEW c \in Callers, OnSigned(c) PROVE Funds'
<1> DEFINE f == call[c].f
<1>1. call[c].pc = "onSigned" /\ up /\ f \in FillIds /\ accepted[f] # "no" /\ call \in [Callers -> Call]
  <2>1. call[c].pc = "onSigned" BY DEF OnSigned, at
  <2>2. CallOK(c) /\ up /\ f \in FillIds BY <2>1, Working DEF Funds
  <2> QED BY <2>1, <2>2 DEF CallOK, Funds, SolverInv, TypeOK
<1>2. UNCHANGED <<restOfChain, up, accepted, owedFills, acceptQueue, reserved>> BY DEF OnSigned
<1>3. \A d \in Callers : call'[d].pc = "balance" => call'[d] = call[d]
  <2>1. call'[c].pc # "balance" BY <1>1 DEF OnSigned, signedThrew, goto, Call
  <2>2. \A d \in Callers \ {c} : call'[d] = call[d] BY <1>1 DEF OnSigned, signedThrew, goto
  <2> QED BY <2>1, <2>2
<1>4. Writes(OrderOf[f], entry("accepted", f)) BY DEF OnSigned, Writes, write, writeFails
<1>5. entry("accepted", f) \in Entry /\ entry("accepted", f).f = f BY <1>1, Entries DEF Phase
<1> QED BY <1>1, <1>2, <1>3, <1>4, <1>5, Constants, SolverQuiet

\* The feed hears its answer: what it records as filled was paid.
LEMMA FeedAnsweredFunds == ASSUME Funds, SolverInv', FeedAnswered PROVE Funds'
<1> DEFINE f == call["feed"].f
<1>1. /\ call["feed"].pc = "answered" /\ up /\ f \in FillIds /\ OrderOf[f] \in Orders /\ CallOK("feed")
      /\ call \in [Callers -> Call]
  <2>1. call["feed"].pc = "answered" BY DEF FeedAnswered, at
  <2>2. CallOK("feed") /\ up /\ f \in FillIds BY <2>1, Working, Constants DEF Funds
  <2> QED BY <2>1, <2>2, Constants DEF Funds, SolverInv, TypeOK
<1>2. UNCHANGED <<restOfChain, up, accepted, owedFills, acceptQueue, reserved>> BY DEF FeedAnswered, gateway
<1>3. \A d \in Callers : call'[d].pc = "balance" => call'[d] = call[d]
  <2>1. \A d \in Callers : call'[d] = call[d] \/ call'[d].pc # "balance"
    <3>0. "feed" \in Callers /\ NoCall.pc # "balance" BY Constants, Nothing
    <3>1. \/ goto("feed", "fill")
          \/ call' = [call EXCEPT !["feed"] = NoCall]
          \/ startTask(call, OrderOf[f], "claim")
          \/ startTask(call, OrderOf[f], "follow")
      BY DEF FeedAnswered
    <3>2. CASE goto("feed", "fill") BY <1>1, <3>0, <3>2, Turns
    <3>3. CASE call' = [call EXCEPT !["feed"] = NoCall] BY <1>1, <3>0, <3>3, Turns
    <3>4. ASSUME NEW p \in {"claim", "follow"}, startTask(call, OrderOf[f], p), NEW d \in Callers
          PROVE  call'[d] = call[d] \/ call'[d].pc # "balance"
      <4>1. \/ call'[d] = call[d] \/ call'[d] = NoCall
            \/ call'[d] = [NoCall EXCEPT !.pc = p, !.f = f]
        BY <1>1, <3>0, <3>4 DEF startTask
      <4>2. [NoCall EXCEPT !.pc = p, !.f = f].pc = p BY DEF NoCall
      <4> QED BY <3>0, <4>1, <4>2
    <3> QED BY <3>1, <3>2, <3>3, <3>4
  <2> QED BY <2>1
<1>4. CASE call["feed"].res = "confirmed"
  <2>1. f \in paid BY <1>1, <1>4 DEF CallOK, answered
  <2>2. Writes(OrderOf[f], entry("filled", f)) BY <1>1, <1>4, Recording DEF FeedAnswered
  <2>3. entry("filled", f) \in Entry /\ entry("filled", f).f = f BY <1>1, Entries DEF Phase
  <2> QED BY <1>1, <1>2, <1>3, <2>1, <2>2, <2>3, SolverQuiet
<1>5. CASE call["feed"].res # "confirmed"
  <2>1. Writes(OrderOf[f], NoEntry) BY <1>1, <1>5, Recording DEF FeedAnswered
  <2> QED BY <1>1, <1>2, <1>3, <2>1, Entries, SolverQuiet
<1> QED BY <1>4, <1>5

\* A settle task records what was paid and forgets what is done with.
LEMMA TaskFunds == ASSUME Funds, SolverInv', NEW o \in Orders, Task(o) PROVE Funds'
<1> DEFINE f == call[o].f
<1>0. /\ call[o].pc # "off"
  BY DEF Task, AllowanceStands, AcceptAnswered, Drop, FollowSees, FollowStops, FollowFills, FillAnswered, ClaimEnds, at
<1>1. /\ o \in Callers /\ up /\ f \in FillIds /\ OrderOf[f] = o /\ CallOK(o) /\ call \in [Callers -> Call]
  <2>1. o \in Callers /\ o # "feed" BY Constants
  <2> QED BY <1>0, <2>1, Working DEF Funds, SolverInv, TypeOK, orderOf
<1>2. UNCHANGED <<restOfChain, up, accepted, owedFills, acceptQueue, reserved>>
  BY DEF Task, AllowanceStands, AcceptAnswered, Drop, FollowSees, FollowStops, FollowFills, FillAnswered, ClaimEnds,
         sameSolver, gateway
<1>3. \A d \in Callers : call'[d].pc = "balance" => call'[d] = call[d]
  <2>1. \/ \E p \in {"accept", "follow", "allow", "drop", "claim", "fill", "expired"} : goto(o, p)
        \/ call' = [call EXCEPT ![o] = NoCall]
    <3>1. CASE AllowanceStands(o) \/ AcceptAnswered(o) BY <3>1 DEF AllowanceStands, AcceptAnswered
    <3>2. CASE Drop(o) BY <3>2 DEF Drop, toClaim, taskEnds
    <3>3. CASE FollowSees(o) \/ FollowStops(o) BY <3>3 DEF FollowSees, FollowStops, toClaim
    <3>4. CASE FollowFills(o) \/ FillAnswered(o) BY <3>4 DEF FollowFills, FillAnswered, toClaim
    <3>5. CASE ClaimEnds(o) BY <3>5 DEF ClaimEnds, taskEnds
    <3> QED BY <3>1, <3>2, <3>3, <3>4, <3>5 DEF Task
  <2>2. call'[o].pc # "balance" /\ \A d \in Callers \ {o} : call'[d] = call[d] BY <1>1, <2>1, Turns
  <2> QED BY <2>2
<1>4. (f \in paid /\ Writes(o, entry("filled", f))) \/ Writes(o, NoEntry)
  <2>1. CASE AllowanceStands(o) \/ AcceptAnswered(o) \/ FollowStops(o) \/ FollowFills(o)
    BY <1>1, <2>1, Recording DEF AllowanceStands, AcceptAnswered, FollowStops, FollowFills
  <2>2. CASE Drop(o) BY <1>1, <2>2, Recording DEF Drop
  <2>3. CASE FollowSees(o) BY <1>1, <2>3, Recording DEF FollowSees
  <2>4. CASE FillAnswered(o)
    BY <1>1, <2>4, Recording DEF FillAnswered, CallOK, answered, at
  <2>5. CASE ClaimEnds(o) BY <1>1, <2>5, Recording DEF ClaimEnds
  <2> QED BY <2>1, <2>2, <2>3, <2>4, <2>5 DEF Task
<1>5. entry("filled", f) \in Entry /\ entry("filled", f).f = f BY <1>1, Entries DEF Phase
<1>6. CASE f \in paid /\ Writes(o, entry("filled", f)) BY <1>1, <1>2, <1>3, <1>5, <1>6, SolverQuiet
<1>7. CASE Writes(o, NoEntry) BY <1>1, <1>2, <1>3, <1>7, Entries, SolverQuiet
<1> QED BY <1>4, <1>6, <1>7

\* The approval and the start of bidding.
LEMMA StartFunds == ASSUME Funds, SolverInv', ApprovalStands \/ StartBidding \/ UNCHANGED vars PROVE Funds'
<1>1. UNCHANGED <<time, balance, paid, lock, claimTx, accepted, owedFills, acceptQueue, reserved, up, fills, disk, call>>
  BY DEF ApprovalStands, StartBidding, vars, chain, gateway, process
<1>2. Recorded' /\ \A f \in FillIds : good(disk, f)' => good(disk, f) BY <1>1 DEF Funds, Recorded, good
<1> QED BY <1>1, <1>2, Quiet

-----------------------------------------------------------------------------
\* Nothing is pledged at the start.
LEMMA FundsStart == FillsFitClaims /\ Init => Funds
<1> SUFFICES ASSUME FillsFitClaims, Init PROVE Funds
  OBVIOUS
<1>1. SolverInv BY Starts
<1>2. FundTypes
  <2>1. acceptQueue \in Seq(Callers) BY DEF Init
  <2> QED BY <2>1, GatewayAssumption DEF Init, FundTypes
<1>3. /\ \A c \in Callers : call[c].pc # "balance"
      /\ \A f \in FillIds : accepted[f] = "no" /\ ~good(disk, f) /\ ~good(fills, f)
  BY Nothing, Constants DEF Init, good
<1>4. Recorded /\ OwedHeld /\ HolderAt /\ Reserves BY <1>3 DEF Recorded, OwedHeld, HolderAt, Reserves
<1>5. Settled BY DEF Init, Settled
<1>6. Pledges
  <2>1. pledged = {} BY <1>3 DEF pledged
  <2>2. total({}) = 0 BY TotalIs, SumEmpty
  <2> QED BY <2>1, <2>2, GatewayAssumption DEF Pledges, Init
<1> QED BY <1>1, <1>2, <1>4, <1>5, <1>6 DEF Funds

\* Every step keeps it.
LEMMA FundsSteps == Funds /\ [Next]_vars => Funds'
<1> SUFFICES ASSUME Funds, [Next]_vars PROVE Funds'
  OBVIOUS
<1>0. SolverInv' BY Steps DEF Funds
<1>1. CASE (\E f \in FillIds : Award(f)) \/ Prepared BY <1>0, <1>1, FeedFunds
<1>2. CASE FeedAnswered BY <1>0, <1>2, FeedAnsweredFunds
<1>3. ASSUME NEW c \in Callers, Gateway(c) PROVE Funds' BY <1>0, <1>3, GatewayFunds
<1>4. ASSUME NEW c \in Callers, OnSigned(c) PROVE Funds' BY <1>0, <1>4, OnSignedFunds
<1>5. ASSUME NEW o \in Orders, Task(o) PROVE Funds' BY <1>0, <1>5, TaskFunds
<1>6. ASSUME NEW o \in Orders, Claim(o) PROVE Funds' BY <1>0, <1>6, ClaimFunds
<1>7. CASE ApprovalStands \/ StartBidding \/ UNCHANGED vars BY <1>0, <1>7, StartFunds
<1>8. CASE Crash BY <1>0, <1>8, CrashFunds
<1>9. CASE Restart BY <1>0, <1>9, RestartFunds
<1>10. CASE World BY <1>0, <1>10, WorldFunds
<1> QED BY <1>1, <1>2, <1>3, <1>4, <1>5, <1>6, <1>7, <1>8, <1>9, <1>10 DEF Next

(* Where a FillAuth expires before its lock can no longer be claimed: what *)
(* the solver has accepted and may still have to pay never exceeds what it *)
(* holds, however acceptances are checked while fills land, resumed, or    *)
(* raced with crashes and failed writes (acceptQueue, owedInventory read   *)
(* before the balance, restoreAcceptance).                                 *)
THEOREM InventoryCoversTheorem == FillsFitClaims /\ Spec => []InventoryCovers
<1>1. Funds => InventoryCovers
  <2> SUFFICES ASSUME Funds PROVE total(committed) <= balance
    BY DEF InventoryCovers
  <2>1. total(committed) <= total(pledged) /\ total(committed) \in Nat /\ total(pledged) \in Nat
    BY Weighs, PledgesAre
  <2> QED BY <2>1 DEF Funds, Pledges, FundTypes
<1> QED BY <1>1, FundsStart, FundsSteps, PTL DEF Spec
=============================================================================
