---------------------------- MODULE MemMapProofs ----------------------------
(***************************************************************************)
(* The units of a pool are never handed out twice, for pools of any size.  *)
(***************************************************************************)
EXTENDS MemMap, FreeMapProofs

\* The invariant: Partition, of a map of intervals.
MapInv ==
  /\ map \in SUBSET Interval
  /\ busy \in SUBSET Pool
  /\ Partition

LEMMA ReleaseKeeps ==
  ASSUME MapInv, NEW addr \in Pool, NEW size \in 0 .. (PoolSize + 1 - addr), Release(addr, size)
  PROVE  MapInv'
<1>0. addr \in Nat /\ size \in Nat /\ addr .. (addr + size - 1) \subseteq Pool
  BY PoolAssumption DEF Pool
<1>1. map' \in SUBSET Interval /\ Separated(map')
  BY <1>0, MemFreeSeparated DEF MapInv, Partition, Release
<1>2. CASE Refused(map, size, addr)
  BY <1>1, <1>2 DEF MapInv, Partition, Release, MemFree
<1>3. CASE ~Refused(map, size, addr)
  <2>1. UnitsOf(map') = UnitsOf(map) \cup (addr .. (addr + size - 1))
    BY <1>0, <1>3, MemFreeUnits DEF MapInv, Partition, Release
  <2>2. busy' = busy \ (addr .. (addr + size - 1))
    BY <1>3 DEF Release
  <2>3. (busy \cap UnitsOf(map) = {})'
    BY <2>1, <2>2 DEF MapInv, Partition
  <2>4. busy' \cup UnitsOf(map') = Pool
    BY <2>1, <2>2, <1>0 DEF MapInv, Partition
  <2>5. QED
    BY <1>1, <2>2, <2>3, <2>4 DEF MapInv, Partition, Pool
<1>4. QED
  BY <1>2, <1>3

LEMMA TakeKeeps ==
  ASSUME MapInv, NEW size \in Pool, Take(size)
  PROVE  MapInv'
<1> DEFINE taken == FirstFit(map, size).addr .. (FirstFit(map, size).addr + size - 1)
<1>1. /\ map' \in SUBSET Interval /\ Separated(map')
      /\ UnitsOf(map') = UnitsOf(map) \ taken
      /\ taken \subseteq UnitsOf(map)
  <2>1. size \in Nat
    BY PoolAssumption DEF Pool
  <2>2. QED
    BY <2>1, MemAllocUnits DEF MapInv, Partition, Take
<1>2. busy' = busy \cup taken
  BY DEF Take
<1> HIDE DEF taken
<1>3. QED
  BY <1>1, <1>2 DEF MapInv, Partition, Pool

LEMMA TakeWholeKeeps ==
  ASSUME MapInv, NEW size \in Pool, TakeWhole(size)
  PROVE  MapInv'
<1> DEFINE i == BestFit(map, size)
<1>1. i \in map
  <2>1. size \in Nat
    BY PoolAssumption DEF Pool
  <2>2. QED
    BY <2>1, BestFitFits DEF MapInv, TakeWhole, Fitting
<1>2. map' = map \ {i} /\ busy' = busy \cup Units(i)
  BY DEF TakeWhole
<1> HIDE DEF i
<1>3. map' \in SUBSET Interval /\ Separated(map')
  BY <1>2 DEF MapInv, Partition, Separated
<1>4. UnitsOf(map) = Units(i) \cup UnitsOf(map')
  BY <1>1, <1>2 DEF UnitsOf
<1>5. Units(i) \cap UnitsOf(map') = {}
  <2>1. ASSUME NEW j \in map', NEW u \in Units(j) PROVE u \notin Units(i)
    BY <2>1, <1>1, <1>2, OneIntervalPerUnit DEF MapInv, Partition
  <2>2. QED
    BY <2>1 DEF UnitsOf
<1>6. QED
  BY <1>2, <1>3, <1>4, <1>5 DEF MapInv, Partition, Pool

LEMMA MapInvariant == Spec => []MapInv
<1>1. Init => MapInv
  BY DEF Init, MapInv, Partition, Separated, UnitsOf
<1>2. MapInv /\ [Next]_vars => MapInv'
  <2> SUFFICES ASSUME MapInv, [Next]_vars PROVE MapInv'
    OBVIOUS
  <2>1. CASE Next
    BY <2>1, ReleaseKeeps, TakeKeeps, TakeWholeKeeps DEF Next
  <2>2. CASE UNCHANGED vars
    BY <2>2 DEF vars, MapInv, Partition, Pool
  <2>3. QED
    BY <2>1, <2>2
<1>3. QED
  BY <1>1, <1>2, PTL DEF Spec

\* In a pool of any size, whatever is taken, by either allocator, and given
\* back, in whatever pieces and twice by mistake: every unit is handed out or
\* free, never both, and free blocks are merged (rt_memalloc(),
\* rt_memalloc_nosplit(), rt_memfree()).
THEOREM PoolIsPartitioned == Spec => []Partition
<1>1. MapInv => Partition
  BY DEF MapInv
<1>2. QED
  BY <1>1, MapInvariant, PTL

\* rt_memfree() refuses exactly what is free already, at least in part.
THEOREM RefusalIsExact == Spec => []RefusesExactly
<1>1. MapInv => RefusesExactly
  <2> SUFFICES ASSUME MapInv, NEW addr \in Pool, NEW size \in 0 .. (PoolSize + 1 - addr)
               PROVE  Refused(map, size, addr) <=>
                        size = 0 \/ \E i \in map : ~Apart([addr |-> addr, size |-> size], i)
    BY DEF RefusesExactly
  <2>1. addr \in Nat /\ size \in Nat
    BY PoolAssumption DEF Pool
  <2>2. QED
    BY <2>1, RefusedIff DEF MapInv, Partition
<1>2. QED
  BY <1>1, MapInvariant, PTL
==============================================================================
