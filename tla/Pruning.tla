------------------------------ MODULE Pruning ------------------------------
(***************************************************************************)
(* The selection rules of DMSPruner (src/dms_reproduction/memory/          *)
(* pruning.py) as operators: which ACTIVE memories one pruning pass marks  *)
(* PRUNED, and when the soft capacity is raised instead.                   *)
(*                                                                         *)
(* A memory is named by its position in index.jsonl, so "stable sort of    *)
(* the index" is: compare survival values, break ties by position.  A sort *)
(* followed by a slice is written as the set of memories whose rank falls  *)
(* in the slice.  Survival values are natural numbers here: only their     *)
(* order, their second differences and their mean are used.                *)
(*                                                                         *)
(* The definitions below a "wrong variant" comment are not part of the     *)
(* model: each is a bug the next definition could have had, kept to show   *)
(* that a property notices it.                                             *)
(***************************************************************************)
EXTENDS Integers, FiniteSets, FiniteSetsExt

CONSTANTS
  PruneInterval,     \* prune_interval_steps
  CapacityMax,       \* capacity_max
  ExpandStep,        \* capacity_expand_step
  AllowExpansion,    \* allow_capacity_expansion
  StrikeLimit,       \* strike_limit
  MinSurvival,       \* min_survival_value (0 stands for None)
  ProtectRecent,     \* protect_recent_steps
  UseElbow,          \* use_elbow
  ElbowMinRecords,   \* elbow_min_records
  RatioPct,          \* low_value_prune_ratio, in percent
  MaxPrunePerRun     \* max_prune_per_run

ASSUME PruningConfig ==
  /\ PruneInterval \in Nat
  /\ CapacityMax \in Nat
  /\ ExpandStep \in Nat
  /\ AllowExpansion \in BOOLEAN
  /\ StrikeLimit \in Nat
  /\ MinSurvival \in Nat
  /\ ProtectRecent \in Nat
  /\ UseElbow \in BOOLEAN
  /\ ElbowMinRecords \in Nat
  /\ RatioPct \in 0..100
  /\ MaxPrunePerRun \in Nat

Abs(n) == IF n < 0 THEN -n ELSE n

(***************************************************************************)
(* Ranks in the two stable sorts: 0 is the first element of the sorted     *)
(* list.                                                                   *)
(***************************************************************************)
\* Wrong variant: the ascending sort gets reverse=True.
RankAscReversed(S, val, x) ==
  Cardinality({y \in S : \/ val[y] > val[x]
                         \/ val[y] = val[x] /\ y < x})

RankAsc(S, val, x) ==
  Cardinality({y \in S : \/ val[y] < val[x]
                         \/ val[y] = val[x] /\ y < x})

RankDesc(S, val, x) ==
  Cardinality({y \in S : \/ val[y] > val[x]
                         \/ val[y] = val[x] /\ y < x})

\* Survival values in descending order, indexed from 0 as in the code.
ScoresDesc(S, val) ==
  [r \in 0..(Cardinality(S) - 1) |->
     val[CHOOSE x \in S : RankDesc(S, val, x) = r]]

Curvature(scores, i) == Abs(scores[i-1] - 2 * scores[i] + scores[i+1])

\* Index of the last memory to keep: the first point of largest curvature.
FindElbowIndex(scores, n) ==
  IF n < 3
  THEN Max({0, n - 1})
  ELSE CHOOSE i \in 1..(n-2) :
         /\ \A j \in 1..(n-2) : Curvature(scores, j) <= Curvature(scores, i)
         /\ \A j \in 1..(i-1) : Curvature(scores, j) < Curvature(scores, i)

ShouldRun(step, activeCount, capacityMin) ==
  \/ activeCount > capacityMin
  \/ /\ PruneInterval > 0
     /\ step > 0
     /\ step % PruneInterval = 0

\* Wrong variant: the step is added without the min with capacity_max.
ExpandedWithoutCap(active, val, capacityMin) ==
  IF AllowExpansion /\ Cardinality(active) > capacityMin
  THEN capacityMin + ExpandStep
  ELSE capacityMin

\* capacity_min after the pass: raised when the elbow is not below the mean.
ExpandedCapacity(active, val, capacityMin) ==
  LET n == Cardinality(active)
      scores == ScoresDesc(active, val)
      mean == MapThenSumSet(LAMBDA x : val[x], active)   \* n times the mean
  IN  IF /\ AllowExpansion
         /\ n > capacityMin
         /\ capacityMin < CapacityMax
         /\ n >= ElbowMinRecords
         /\ n >= 3
         /\ n * scores[FindElbowIndex(scores, n)] >= mean
      THEN Min({capacityMin + ExpandStep, CapacityMax})
      ELSE capacityMin

\* Wrong variant: a memory of exactly protect_recent_steps is not protected.
ProtectedOffByOne(active, rec, step) ==
  {x \in active : ProtectRecent > 0 /\ step - rec[x].created < ProtectRecent}

\* Memories too young to be pruned at this step.
Protected(active, rec, step) ==
  {x \in active : ProtectRecent > 0 /\ step - rec[x].created <= ProtectRecent}

\* Wrong variant: strike_limit itself is still tolerated.
HardRuleOffByOne(rec, x) == StrikeLimit > 0 /\ rec[x].strike > StrikeLimit

HardRule(rec, x) == StrikeLimit > 0 /\ rec[x].strike >= StrikeLimit

\* Wrong variant: the slice stops one short of min_prune_count.
SelectOneShort(S, val, minCount) ==
  {x \in S : RankAsc(S, val, x) < Min({Cardinality(S), minCount - 1})}

SelectByBottomRatio(S, val, minCount) ==
  LET n == Cardinality(S)
      count == Min({Max({minCount, (n * RatioPct) \div 100, 1}), n})
  IN  {x \in S : RankAsc(S, val, x) < Min({count, n, minCount})}

\* Wrong variant: a tail shorter than min_prune_count is not extended.
SelectTailOnly(S, val, minCount) ==
  {x \in S : RankDesc(S, val, x) >
                FindElbowIndex(ScoresDesc(S, val), Cardinality(S))}

SelectByElbow(S, val, minCount) ==
  LET n == Cardinality(S)
      keep == FindElbowIndex(ScoresDesc(S, val), n) + 1
      start == IF n - keep < minCount THEN Max({0, n - minCount}) ELSE keep
  IN  {x \in S : RankDesc(S, val, x) \in start..(start + Min({n, minCount}) - 1)}

SelectForCapacity(S, val, minCount) ==
  IF UseElbow /\ Cardinality(S) >= ElbowMinRecords /\ Cardinality(S) >= 3
  THEN SelectByElbow(S, val, minCount)
  ELSE SelectByBottomRatio(S, val, minCount)

\* Wrong variant: the first in index order are kept, not the first in value.
CutInIndexOrder(chosen, hard, weak, val) ==
  IF MaxPrunePerRun = 0
  THEN chosen
  ELSE {x \in chosen : Cardinality({y \in chosen : y < x}) < MaxPrunePerRun}

\* The final sort by survival value and the cut to max_prune_per_run.  Ties keep
\* the order the decisions were made in: by stage, then by position.
CutToBudget(chosen, hard, weak, val) ==
  LET stage(x) == IF x \in hard THEN 0 ELSE IF x \in weak THEN 1 ELSE 2
      before(y, x) == \/ val[y] < val[x]
                      \/ val[y] = val[x] /\ stage(y) < stage(x)
                      \/ val[y] = val[x] /\ stage(y) = stage(x) /\ y < x
  IN  IF MaxPrunePerRun = 0
      THEN chosen
      ELSE {x \in chosen :
              Cardinality({y \in chosen : before(y, x)}) < MaxPrunePerRun}

\* The memories one pass marks PRUNED.
SelectPrunable(active, rec, val, step, capacityMin) ==
  LET free == active \ Protected(active, rec, step)
      hard == {x \in free : HardRule(rec, x)}
      weak == {x \in free \ hard : val[x] < MinSurvival}
      over == Cardinality(active) - Cardinality(hard \cup weak) - capacityMin
      excess == IF over > 0
                THEN SelectForCapacity(free \ (hard \cup weak), val, over)
                ELSE {}
  IN  CutToBudget(hard \cup weak \cup excess, hard, weak, val)
=============================================================================
