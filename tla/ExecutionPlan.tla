--------------------------- MODULE ExecutionPlan ----------------------------
(***************************************************************************)
(* The settlement planner of the proof SDK (sdk/src): planExecution splits *)
(* a large trade (split.ts), gives every sub-trade the most private venue  *)
(* its owner's score and the gas budget allow (venue-router.ts), and       *)
(* spreads the sub-trades over a time window with jittered gaps            *)
(* (diffusion-scheduler.ts).  One action per stage; a stage refuses by     *)
(* throwing.  Amounts, gas and seconds are small integers, and the random  *)
(* fraction of the jitter is one of JitterSteps fractions below 1.         *)
(***************************************************************************)
EXTENDS Integers, Sequences, SequencesExt

CONSTANTS
  Totals,             \* the trade amounts asked for
  SplitConfigs,       \* [splitThreshold, maxSubTrades, minSubTradeSize]
  MinSplitThreshold,  \* MIN_SPLIT_THRESHOLD
  MaxSubTradesCap,    \* 100
  Scores,             \* trust scores
  ShieldedMinScore,   \* SHIELDED_MIN_SCORE
  GasEstimates,       \* venue -> gas
  Preferences,        \* the venue preferences asked for
  GasBudgets,         \* maxGasBudget; 0 is unlimited
  Windows,            \* diffusionWindow, in seconds
  MinSpacing,         \* MIN_SPACING_SECONDS
  JitterSteps

VARIABLES planStage, planInput, subTrades

planVars == <<planStage, planInput, subTrades>>

VenueMinScore == [public |-> 0, stealth |-> 0, shielded |-> ShieldedMinScore]

SubTrade(i, amount) == [index |-> i, amount |-> amount, venue |-> "none", at |-> 0]

PlanInit ==
  /\ planStage = "split"
  /\ planInput \in [total : Totals, config : SplitConfigs, score : Scores,
                    preference : Preferences, budget : GasBudgets, window : Windows]
  /\ subTrades = <<>>

validConfig(config) ==
  /\ config.splitThreshold >= MinSplitThreshold
  /\ config.maxSubTrades \in 2..MaxSubTradesCap
  /\ config.minSubTradeSize > 0

\* How many sub-trades: one per threshold, at most maxSubTrades, and fewer while
\* each would be below the minimum size.
pieces(total, config) ==
  LET first == (total + config.splitThreshold - 1) \div config.splitThreshold
      most == IF first > config.maxSubTrades THEN config.maxSubTrades ELSE first
      large == {n \in 2..most : total \div n >= config.minSubTradeSize}
  IN IF total <= config.splitThreshold \/ large = {} THEN 1
     ELSE CHOOSE n \in large : \A m \in large : m <= n

\* Mutant: the remainder of the division is lost.
lastAmount_Even(total, n) == total \div n

\* The last sub-trade takes what the equal ones leave.
lastAmount(total, n) == total - (total \div n) * (n - 1)

PlanSplit ==
  /\ planStage = "split"
  /\ IF validConfig(planInput.config) /\ planInput.total > 0
     THEN LET n == pieces(planInput.total, planInput.config)
              base == planInput.total \div n
          IN /\ subTrades' = [i \in 1..n |->
                                SubTrade(i, IF i < n THEN base ELSE lastAmount(planInput.total, n))]
             /\ planStage' = "venues"
     ELSE planStage' = "refused" /\ UNCHANGED subTrades
  /\ UNCHANGED planInput

privacyOrder == <<"shielded", "stealth", "public">>

\* Mutant: each sub-trade is held against the whole budget.
fits_FirstBudget(venue, left) ==
  /\ venue \in planInput.preference
  /\ planInput.score >= VenueMinScore[venue]
  /\ planInput.budget > 0 => GasEstimates[venue] <= planInput.budget

\* The venues a sub-trade may still take, most private first.
fits(venue, left) ==
  /\ venue \in planInput.preference
  /\ planInput.score >= VenueMinScore[venue]
  /\ planInput.budget > 0 => GasEstimates[venue] <= left

\* One sub-trade of the loop: the first venue that fits, or none.
assignNext(acc, st) ==
  LET order == SelectSeq(privacyOrder, LAMBDA v : fits(v, acc.left))
  IN IF acc.refused \/ order = <<>> THEN [acc EXCEPT !.refused = TRUE]
     ELSE [refused |-> FALSE,
           left |-> acc.left - GasEstimates[Head(order)],
           venues |-> [acc.venues EXCEPT ![st.index] = Head(order)]]

\* The largest sub-trades choose first.
AssignVenues ==
  /\ planStage = "venues"
  /\ LET sorted == SortSeq(subTrades, LAMBDA a, b : a.amount > b.amount
                                       \/ (a.amount = b.amount /\ a.index < b.index))
         out == FoldLeft(assignNext,
                         [refused |-> FALSE, left |-> planInput.budget,
                          venues |-> [i \in DOMAIN subTrades |-> "none"]],
                         sorted)
     IN IF out.refused
        THEN planStage' = "refused" /\ UNCHANGED subTrades
        ELSE /\ subTrades' = [i \in DOMAIN subTrades |-> [subTrades[i] EXCEPT !.venue = out.venues[i]]]
             /\ planStage' = "schedule"
  /\ UNCHANGED planInput

\* Mutant: every sub-trade is jittered over the whole slack.
offset_Whole(i, u, slack, n) == (u * slack) \div JitterSteps

\* Where in the slack sub-trade i lands, for a random fraction u / JitterSteps.
offset(i, u, slack, n) == (((i - 1) * JitterSteps + u) * slack) \div (JitterSteps * n)

\* The mandatory gaps are reserved first; only the slack is jittered.
ScheduleDiffusion ==
  /\ planStage = "schedule"
  /\ LET n == Len(subTrades)
         minWindow == (n - 1) * MinSpacing
         slack == planInput.window - minWindow
     IN IF planInput.window = 0
        THEN planStage' = "planned" /\ UNCHANGED subTrades
        ELSE IF slack < 0
        THEN planStage' = "refused" /\ UNCHANGED subTrades
        ELSE /\ \E u \in [1..n -> 0..JitterSteps - 1] :
                  subTrades' = [i \in 1..n |->
                    [subTrades[i] EXCEPT !.at = offset(i, u[i], slack, n) + (i - 1) * MinSpacing]]
             /\ planStage' = "planned"
  /\ UNCHANGED planInput

PlanNext == PlanSplit \/ AssignVenues \/ ScheduleDiffusion

-----------------------------------------------------------------------------

totalOf(field(_)) == FoldLeft(LAMBDA acc, st : acc + field(st), 0, subTrades)

\* Nothing is lost or made in the split, and no sub-trade of a split one is
\* below the minimum or one too many.
SplitExact ==
  /\ totalOf(LAMBDA st : st.amount) = planInput.total
  /\ Len(subTrades) > 1 =>
       /\ Len(subTrades) <= planInput.config.maxSubTrades
       /\ \A i \in DOMAIN subTrades : subTrades[i].amount >= planInput.config.minSubTradeSize

\* The venues chosen together stay within the gas budget, and each is one the
\* owner prefers and qualifies for.
VenuesAffordable ==
  /\ planInput.budget > 0 => totalOf(LAMBDA st : GasEstimates[st.venue]) <= planInput.budget
  /\ \A i \in DOMAIN subTrades :
       /\ subTrades[i].venue \in planInput.preference
       /\ planInput.score >= VenueMinScore[subTrades[i].venue]

\* Whatever the jitter draws, two submissions are at least the spacing apart
\* and the last one is inside the window.
GapsKept ==
  planInput.window > 0 =>
    /\ \A i \in 1..Len(subTrades) - 1 : subTrades[i + 1].at - subTrades[i].at >= MinSpacing
    /\ \A i \in DOMAIN subTrades : subTrades[i].at \in 0..planInput.window

\* What a finished plan promises (planExecution, execution-orchestrator.ts): see
\* the three parts.
PlanSound == planStage = "planned" => SplitExact /\ VenuesAffordable /\ GapsKept
=============================================================================
