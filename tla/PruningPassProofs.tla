-------------------------- MODULE PruningPassProofs --------------------------
(***************************************************************************)
(* One pruning pass over a pool of any size, with any records, survival    *)
(* values and limits: exactly the excess is taken, the budget is spent on  *)
(* the lowest values, the ratio rule takes the low end, and the soft       *)
(* capacity is raised within its bound.                                    *)
(***************************************************************************)
EXTENDS PruningPass, PruningProofs

Typed ==
  /\ val \in [Pool -> Survivals]
  /\ capacityMin \in Nat

\* A pass prunes what the rules select, with the capacity it has raised.
Selected ==
  ran = "yes" => pruned = SelectPrunable(Pool, rec, val, Step, capacityMin)

PassInv == Typed /\ Selected

-----------------------------------------------------------------------------
LEMMA PoolSorts == ASSUME Typed PROVE Sortable(Pool, val)
<1>1. IsFiniteSet(1..PoolSize) /\ 1..PoolSize \subseteq Nat
  BY PassConfig, FS_Interval
<1>2. QED  BY <1>1, PassConfig DEF Typed, Sortable, Pool

LEMMA SizeOfPool == Cardinality(Pool) = PoolSize
  BY PassConfig, FS_Interval DEF Pool

\* Raising the capacity never lowers it and stops at capacity_max.
LEMMA ExpansionStep ==
  ASSUME NEW cap \in Nat, NEW v,
         ExpandedCapacity(Pool, v, cap) # cap
  PROVE  /\ ExpandedCapacity(Pool, v, cap) \in Nat
         /\ ExpandedCapacity(Pool, v, cap) > cap
         /\ ExpandedCapacity(Pool, v, cap) <= CapacityMax
         /\ PoolSize > cap
<1> DEFINE raised == Min({cap + ExpandStep, CapacityMax})
<1>1. /\ ExpandedCapacity(Pool, v, cap) = raised
      /\ Cardinality(Pool) > cap
      /\ cap < CapacityMax
  BY DEF ExpandedCapacity
<1>2. raised = IF cap + ExpandStep <= CapacityMax
               THEN cap + ExpandStep ELSE CapacityMax
  BY MinIs, PruningConfig
<1> HIDE DEF raised
<1>3. QED  BY <1>1, <1>2, SizeOfPool, PruningConfig

LEMMA PassInvHolds == Spec => []PassInv
<1>1. Init => PassInv
  BY PassConfig DEF Init, PassInv, Typed, Selected
<1>2. PassInv /\ [Next]_vars => PassInv'
  <2> SUFFICES ASSUME PassInv, [Next]_vars PROVE PassInv'  OBVIOUS
  <2>1. CASE Prune
    <3>1. capacityMin' \in Nat
      BY <2>1, ExpansionStep DEF Prune, PassInv, Typed
    <3>2. QED  BY <2>1, <3>1 DEF Prune, PassInv, Typed, Selected
  <2>2. CASE NotTriggered
    BY <2>2 DEF NotTriggered, PassInv, Typed, Selected
  <2>3. CASE UNCHANGED vars
    BY <2>3 DEF vars, PassInv, Typed, Selected
  <2>4. QED  BY <2>1, <2>2, <2>3 DEF Next
<1>3. QED  BY <1>1, <1>2, PTL DEF Spec

-----------------------------------------------------------------------------
(***************************************************************************)
(* The rules of the pass in the terms of the pruner's lemmas.              *)
(***************************************************************************)
LEMMA RulesAgree ==
  /\ Struck = Hard(Pool, rec, Step)
  /\ Weak = Low(Pool, rec, val, Step)
  /\ Struck \cup Weak = Due(Pool, rec, val, Step)
  /\ Ordinary = Rest(Pool, rec, val, Step)
  /\ Young = Protected(Pool, rec, Step)
<1>1. Young = Protected(Pool, rec, Step)  BY DEF Young, Protected
<1>2. Struck = Hard(Pool, rec, Step)
  BY <1>1 DEF Struck, Hard, Free, HardRule
<1>3. Weak = Low(Pool, rec, val, Step)
  BY <1>1, <1>2 DEF Weak, Low, Free
<1>4. Ordinary = Rest(Pool, rec, val, Step)
  BY <1>1, <1>2, <1>3 DEF Ordinary, Rest, Due, Free
<1>5. QED  BY <1>1, <1>2, <1>3, <1>4 DEF Due

LEMMA ExcessOfPool ==
  ASSUME PassInv
  PROVE  LET over == Over(Pool, rec, val, Step, capacityMin)
             excess == Excess(Pool, rec, val, Step, capacityMin)
         IN  /\ over \in Int
             /\ excess \subseteq Ordinary
             /\ Cardinality(excess) = Min({Max({over, 0}), Cardinality(Ordinary)})
<1>1. Sortable(Pool, val) /\ capacityMin \in Nat
  BY PoolSorts DEF PassInv, Typed
<1>2. Ordinary = Rest(Pool, rec, val, Step)  BY RulesAgree
<1>3. QED  BY <1>1, <1>2, ExcessSize

\* What a pass has taken: all that is due and the excess, cut to the budget.
Chosen == Struck \cup Weak \cup Excess(Pool, rec, val, Step, capacityMin)

LEMMA WhatIsTaken ==
  ASSUME PassInv, ran = "yes"
  PROVE  /\ pruned = CutToBudget(Chosen, Struck, Weak, val)
         /\ Sortable(Chosen, val)
         /\ Excess(Pool, rec, val, Step, capacityMin) \subseteq Ordinary
         /\ pruned \subseteq Chosen
         /\ NotCut => pruned = Chosen
<1> DEFINE excess == Excess(Pool, rec, val, Step, capacityMin)
<1>1. Sortable(Pool, val) /\ capacityMin \in Nat
  BY PoolSorts DEF PassInv, Typed
<1>2. excess \subseteq Ordinary
  BY ExcessOfPool
<1>3. Chosen \subseteq Pool
  BY <1>2 DEF Chosen, Struck, Weak, Ordinary
<1>4. Sortable(Chosen, val)
  BY <1>1, <1>3, FS_Subset DEF Sortable
<1>5. pruned = CutToBudget(Chosen, Struck, Weak, val)
  <2>1. pruned = SelectPrunable(Pool, rec, val, Step, capacityMin)
    BY DEF PassInv, Selected
  <2>2. QED  BY <2>1, SelectionIs, RulesAgree DEF Chosen
<1>6. pruned \subseteq Chosen  BY <1>4, <1>5, CutSize
<1>7. NotCut => pruned = Chosen
  <2>1. Cardinality(Chosen) \in Nat /\ MaxPrunePerRun \in Nat
    BY <1>4, FS_CardinalityType, PruningConfig DEF Sortable
  <2>2. CASE MaxPrunePerRun = 0 \/ Cardinality(Chosen) <= MaxPrunePerRun
    BY <1>4, <1>5, <2>2, CutSize
  <2>3. CASE MaxPrunePerRun # 0 /\ Cardinality(Chosen) > MaxPrunePerRun
    <3>1. Cardinality(pruned) = MaxPrunePerRun  BY <1>4, <1>5, <2>3, CutSize
    <3>2. QED  BY <2>1, <2>3, <3>1 DEF NotCut
  <2>4. QED  BY <2>1, <2>2, <2>3
<1>8. QED  BY <1>2, <1>4, <1>5, <1>6, <1>7

\* A pass without a binding budget takes everything struck out or weak, nothing
\* recent, and for capacity exactly the excess over capacity_min, whatever elbow or
\* ratio say (_select_capacity_pruning_decisions).
THEOREM ExcessIsExact == Spec => []ExactlyTheExcess
<1>1. PassInv => ExactlyTheExcess
  <2> SUFFICES ASSUME PassInv, ran = "yes", NotCut
               PROVE  LET over == PoolSize - Cardinality(Struck \cup Weak) - capacityMin
                      IN  /\ Struck \cup Weak \subseteq pruned
                          /\ pruned \cap Young = {}
                          /\ Cardinality(pruned \cap Ordinary) =
                               Min({Max({over, 0}), Cardinality(Ordinary)})
    BY DEF ExactlyTheExcess
  <2> DEFINE excess == Excess(Pool, rec, val, Step, capacityMin)
             over == PoolSize - Cardinality(Struck \cup Weak) - capacityMin
  <2>1. pruned = Chosen /\ excess \subseteq Ordinary  BY WhatIsTaken
  <2>2. pruned \cap Ordinary = excess
    BY <2>1 DEF Chosen, Ordinary
  <2>3. pruned \cap Young = {} /\ Struck \cup Weak \subseteq pruned
    BY <2>1 DEF Chosen, Struck, Weak, Ordinary
  <2>4. over = Over(Pool, rec, val, Step, capacityMin)
    BY SizeOfPool, RulesAgree DEF Over
  <2>5. Cardinality(excess) = Min({Max({over, 0}), Cardinality(Ordinary)})
    <3> HIDE DEF over
    <3>1. QED  BY <2>4, ExcessOfPool
  <2>6. QED  BY <2>2, <2>3, <2>5
<1>2. QED  BY <1>1, PassInvHolds, PTL

\* A pass that must stop at max_prune_per_run has taken the lowest of what was due
\* (the final sort and slice of select_prunable_records).
THEOREM BudgetTakesLowest == Spec => []BudgetSpentOnLowest
<1>1. PassInv => BudgetSpentOnLowest
  <2> SUFFICES ASSUME PassInv, ran = "yes", MaxPrunePerRun > 0
               PROVE  /\ Cardinality(pruned) <= MaxPrunePerRun
                      /\ ~NotCut => \A x \in pruned, y \in (Struck \cup Weak) \ pruned :
                                      val[x] <= val[y]
    BY DEF BudgetSpentOnLowest
  <2>1. /\ pruned = CutToBudget(Chosen, Struck, Weak, val)
        /\ Sortable(Chosen, val)
    BY WhatIsTaken
  <2>2. Cardinality(pruned) <= MaxPrunePerRun
    <3>1. Cardinality(Chosen) \in Nat /\ MaxPrunePerRun \in Nat
      BY <2>1, FS_CardinalityType, PruningConfig DEF Sortable
    <3>2. CASE Cardinality(Chosen) <= MaxPrunePerRun
      BY <2>1, <3>2, CutSize
    <3>3. CASE Cardinality(Chosen) > MaxPrunePerRun
      <4>1. Cardinality(pruned) = MaxPrunePerRun
        BY <2>1, <3>1, <3>3, CutSize
      <4>2. QED  BY <3>1, <4>1
    <3>4. QED  BY <3>1, <3>2, <3>3
  <2>3. ASSUME NEW x \in pruned, NEW y \in (Struck \cup Weak) \ pruned
        PROVE  val[x] <= val[y]
    <3>1. y \in Chosen \ pruned  BY DEF Chosen
    <3>2. QED  BY <2>1, <3>1, CutLowest
  <2>4. QED  BY <2>2, <2>3
<1>2. QED  BY <1>1, PassInvHolds, PTL

\* What a pass takes for capacity, and why it had to.
LEMMA ExcessTaken ==
  ASSUME PassInv, ran = "yes", NotCut,
         NEW x \in pruned \cap Ordinary, NEW y \in Ordinary \ pruned
  PROVE  LET over == PoolSize - Cardinality(Struck \cup Weak) - capacityMin
         IN  /\ over \in Nat
             /\ Sortable(Ordinary, val) /\ Cardinality(Ordinary) \in Nat
             /\ x \in SelectForCapacity(Ordinary, val, over)
             /\ y \in Ordinary \ SelectForCapacity(Ordinary, val, over)
<1> DEFINE over == Over(Pool, rec, val, Step, capacityMin)
           excess == Excess(Pool, rec, val, Step, capacityMin)
<1>1. pruned = Chosen  BY WhatIsTaken
<1>2. x \in excess /\ y \in Ordinary \ excess
  BY <1>1 DEF Chosen, Ordinary
<1>3. over > 0 /\ over \in Nat
  <2>1. over \in Int  BY ExcessOfPool
  <2>2. over > 0  BY <1>2 DEF Excess
  <2>3. QED  BY <2>1, <2>2
<1>4. Ordinary \subseteq Pool /\ Sortable(Ordinary, val)
  BY PoolSorts, FS_Subset DEF Ordinary, Sortable, PassInv
<1>5. Cardinality(Ordinary) \in Nat
  BY <1>4, FS_CardinalityType DEF Sortable
<1>6. excess = SelectForCapacity(Ordinary, val, over)
  BY <1>3, RulesAgree DEF Excess
<1>7. over = PoolSize - Cardinality(Struck \cup Weak) - capacityMin
  BY SizeOfPool, RulesAgree DEF Over
<1> HIDE DEF over, excess
<1>8. QED  BY <1>2, <1>3, <1>4, <1>5, <1>6, <1>7

\* With too few records for an elbow, capacity takes the low-value end
\* (_select_by_bottom_ratio).
THEOREM RatioTakesLowEnd == Spec => []RatioTakesLowest
<1>1. PassInv => RatioTakesLowest
  <2> SUFFICES ASSUME PassInv, Cardinality(Ordinary) < ElbowMinRecords,
                      ran = "yes", NotCut,
                      NEW x \in pruned \cap Ordinary, NEW y \in Ordinary \ pruned
               PROVE  val[x] <= val[y]
    BY DEF RatioTakesLowest, LowestValueFirst
  <2> DEFINE over == PoolSize - Cardinality(Struck \cup Weak) - capacityMin
             taken == SelectForCapacity(Ordinary, val, over)
  <2>1. /\ over \in Nat
        /\ Sortable(Ordinary, val) /\ Cardinality(Ordinary) \in Nat
        /\ x \in taken /\ y \in Ordinary \ taken
    BY ExcessTaken
  <2>2. taken = SelectByBottomRatio(Ordinary, val, over)
    BY <2>1, PruningConfig DEF SelectForCapacity
  <2> HIDE DEF over, taken
  <2>3. QED  BY <2>1, <2>2, RatioLowest
<1>2. QED  BY <1>1, PassInvHolds, PTL

\* The tail past the elbow is longer than the pool exceeds its capacity by.
TailOverlong ==
  UseElbow /\ ElbowTail(Ordinary, val) >
                PoolSize - Cardinality(Struck \cup Weak) - capacityMin

\* A valuable memory is taken before a less valuable one in this case alone: where
\* the tail past the elbow fits the excess, and wherever the elbow is not used, the
\* elbow, its extension to min_prune_count and the ratio all take the low-value end
\* (_select_capacity_pruning_decisions).
THEOREM OnlyLongTailsMisorder == Spec => [](TailOverlong \/ LowestValueFirst)
<1>1. PassInv => TailOverlong \/ LowestValueFirst
  <2> SUFFICES ASSUME PassInv, ~TailOverlong, ran = "yes", NotCut,
                      NEW x \in pruned \cap Ordinary, NEW y \in Ordinary \ pruned
               PROVE  val[x] <= val[y]
    BY DEF LowestValueFirst
  <2> DEFINE over == PoolSize - Cardinality(Struck \cup Weak) - capacityMin
             taken == SelectForCapacity(Ordinary, val, over)
             elbow == /\ UseElbow
                      /\ Cardinality(Ordinary) >= ElbowMinRecords
                      /\ Cardinality(Ordinary) >= 3
  <2>1. /\ over \in Nat
        /\ Sortable(Ordinary, val) /\ Cardinality(Ordinary) \in Nat
        /\ x \in taken /\ y \in Ordinary \ taken
    BY ExcessTaken
  <2>2. CASE elbow
    <3>1. FindElbowIndex(ScoresDesc(Ordinary, val), Cardinality(Ordinary)) \in Nat
      <4>1. FindElbowIndex(ScoresDesc(Ordinary, val), Cardinality(Ordinary))
              \in 1..(Cardinality(Ordinary) - 2)
        BY <2>1, <2>2, ScoresAreValues, ElbowInRange
      <4>2. QED  BY <4>1
    <3>2. ElbowTail(Ordinary, val) <= over
      <4>1. ElbowTail(Ordinary, val) \in Int  BY <2>1, <3>1 DEF ElbowTail
      <4>2. QED  BY <2>1, <2>2, <4>1 DEF TailOverlong
    <3>3. taken = SelectByElbow(Ordinary, val, over)
      BY <2>2 DEF SelectForCapacity
    <3> HIDE DEF over, taken
    <3>4. QED  BY <2>1, <2>2, <3>2, <3>3, ElbowLowest
  <2>3. CASE ~elbow
    <3>1. taken = SelectByBottomRatio(Ordinary, val, over)
      BY <2>3 DEF SelectForCapacity
    <3> HIDE DEF over, taken
    <3>2. QED  BY <2>1, <3>1, RatioLowest
  <2>4. QED  BY <2>2, <2>3
<1>2. QED  BY <1>1, PassInvHolds, PTL

\* The soft capacity only grows, up to capacity_max, when the pool overflows it
\* (_maybe_expand_capacity).
THEOREM ExpansionStaysBounded == Spec => ExpansionIsBounded
<1> DEFINE Bounded == capacityMin' # capacityMin =>
                        /\ capacityMin' > capacityMin
                        /\ capacityMin' <= CapacityMax
                        /\ PoolSize > capacityMin
<1>1. PassInv /\ [Next]_vars => [Bounded]_vars
  <2> SUFFICES ASSUME PassInv, Next PROVE Bounded  OBVIOUS
  <2>1. CASE Prune
    BY <2>1, ExpansionStep DEF Prune, PassInv, Typed
  <2>2. CASE NotTriggered  BY <2>2 DEF NotTriggered
  <2>3. QED  BY <2>1, <2>2 DEF Next
<1>2. QED  BY <1>1, PassInvHolds, PTL DEF Spec, ExpansionIsBounded
=============================================================================
