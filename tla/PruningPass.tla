---------------------------- MODULE PruningPass ----------------------------
(***************************************************************************)
(* One call of DMSPruner.prune() on any pool of active memories: the       *)
(* selection rules of module Pruning checked against what they are for,    *)
(* over all small pools.  The pool, its survival values and the logical    *)
(* step are inputs; DMSMemory runs the same operators inside the life of   *)
(* the provider.                                                           *)
(***************************************************************************)
EXTENDS Pruning

CONSTANTS
  PoolSize,      \* number of active memories
  Capacities,    \* values of capacity_min
  Survivals,     \* survival values
  Created,       \* created_step values
  Strikes,       \* strike_count values
  Step           \* logical_step at the pass

ASSUME PassConfig ==
  /\ PoolSize \in Nat
  /\ Capacities \subseteq Nat
  /\ Survivals \subseteq Nat
  /\ Created \subseteq Nat
  /\ Strikes \subseteq Nat
  /\ Step \in Nat

Pool == 1..PoolSize

VARIABLES
  rec,           \* the active records
  val,           \* their refreshed survival values
  capacityMin,   \* capacity_min
  pruned,        \* memories the pass marked PRUNED
  ran            \* "no", "yes", or "skipped" when pruning was not due

vars == <<rec, val, capacityMin, pruned, ran>>

Init ==
  /\ rec \in [Pool -> [created : Created, strike : Strikes]]
  /\ val \in [Pool -> Survivals]
  /\ capacityMin \in Capacities
  /\ pruned = {}
  /\ ran = "no"

Prune ==
  /\ ran = "no"
  /\ ShouldRun(Step, PoolSize, capacityMin)
  /\ capacityMin' = ExpandedCapacity(Pool, val, capacityMin)
  /\ pruned' = SelectPrunable(Pool, rec, val, Step, capacityMin')
  /\ ran' = "yes"
  /\ UNCHANGED <<rec, val>>

NotTriggered ==
  /\ ran = "no"
  /\ ~ShouldRun(Step, PoolSize, capacityMin)
  /\ ran' = "skipped"
  /\ UNCHANGED <<rec, val, capacityMin, pruned>>

Next == Prune \/ NotTriggered

Spec == Init /\ [][Next]_vars

-----------------------------------------------------------------------------
\* What the rules say of a memory, in plain terms.
Young == {x \in Pool : ProtectRecent > 0 /\ Step - rec[x].created <= ProtectRecent}
Struck == {x \in Pool \ Young : StrikeLimit > 0 /\ rec[x].strike >= StrikeLimit}
Weak == {x \in Pool \ (Young \cup Struck) : val[x] < MinSurvival}
Ordinary == Pool \ (Young \cup Struck \cup Weak)
NotCut == MaxPrunePerRun = 0 \/ Cardinality(pruned) < MaxPrunePerRun

\* The rank-and-slice selection against its plain meaning: everything struck out
\* or below the threshold goes, nothing recent goes, and capacity takes exactly as
\* many more as the pool exceeds capacity_min, or all it may take; with or without
\* the elbow, and never more although low_value_prune_ratio may ask for it.
ExactlyTheExcess ==
  ran = "yes" /\ NotCut =>
    LET over == PoolSize - Cardinality(Struck \cup Weak) - capacityMin
    IN  /\ Struck \cup Weak \subseteq pruned
        /\ pruned \cap Young = {}
        /\ Cardinality(pruned \cap Ordinary) =
             Min({Max({over, 0}), Cardinality(Ordinary)})

\* A pass that must stop at max_prune_per_run spends its budget on the memories of
\* least survival value: nothing it takes is worth more than a struck-out or weak
\* memory it has to leave for the next pass, whichever rule chose them
\* (the final sort and slice of select_prunable_records).
BudgetSpentOnLowest ==
  ran = "yes" /\ MaxPrunePerRun > 0 =>
    /\ Cardinality(pruned) <= MaxPrunePerRun
    /\ ~NotCut =>
         \A x \in pruned, y \in (Struck \cup Weak) \ pruned : val[x] <= val[y]

\* The soft capacity is only ever raised, not beyond capacity_max, and only when
\* the pool overflows it: a pass never both raises it and has room to spare.
ExpansionIsBounded ==
  [][capacityMin' # capacityMin =>
       /\ capacityMin' > capacityMin
       /\ capacityMin' <= CapacityMax
       /\ PoolSize > capacityMin]_vars

\* Capacity pruning takes the low-value end: no memory it takes is worth more than
\* an unprotected memory it leaves ("marks low-value memories as PRUNED",
\* DMSPruner's docstring).
LowestValueFirst ==
  ran = "yes" /\ NotCut =>
    \A x \in pruned \cap Ordinary, y \in Ordinary \ pruned : val[x] <= val[y]

\* Where the ratio rule decides, because the elbow has too few records to be
\* looked for, it does take the low-value end.
RatioTakesLowest == Cardinality(Ordinary) < ElbowMinRecords => LowestValueFirst
=============================================================================
