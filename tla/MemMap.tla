------------------------------- MODULE MemMap -------------------------------
(***************************************************************************)
(* The free map of librt/memalloc.c under the calls its users make: a pool *)
(* of units that are handed out by either allocator and given back in any  *)
(* pieces, twice by mistake too (rt_memfree() has to notice).              *)
(***************************************************************************)
EXTENDS FreeMap

CONSTANT PoolSize   \* units of the pool

ASSUME PoolAssumption == PoolSize \in Nat

VARIABLES
  map,    \* the free map
  busy    \* the units that are handed out

vars == <<map, busy>>

Pool == 1 .. PoolSize

Init ==
  /\ map = {}
  /\ busy = Pool

\* rt_memfree() of any piece: the caller may be wrong about what it owns.
Release(addr, size) ==
  /\ map' = MemFree(map, size, addr)
  /\ busy' = IF Refused(map, size, addr) THEN busy ELSE busy \ (addr .. (addr + size - 1))

\* rt_memalloc(): db_alloc() of a version 4 database.
Take(size) ==
  /\ Fitting(map, size) # {}
  /\ map' = MemAlloc(map, size)
  /\ LET at == FirstFit(map, size).addr IN busy' = busy \cup (at .. (at + size - 1))

\* rt_memalloc_nosplit(): db5_realloc().
TakeWhole(size) ==
  /\ Fitting(map, size) # {}
  /\ map' = map \ {BestFit(map, size)}
  /\ busy' = busy \cup Units(BestFit(map, size))

Next ==
  \/ \E addr \in Pool : \E size \in 0 .. (PoolSize + 1 - addr) : Release(addr, size)
  \/ \E size \in Pool : Take(size) \/ TakeWhole(size)

Spec == Init /\ [][Next]_vars

------------------------------------------------------------------------------
\* Every unit is either handed out or in the map, never both and never neither,
\* and the map stays merged: nothing is handed out twice, nothing leaks, and the
\* largest free block is as large as it can be.
Partition ==
  /\ Separated(map)
  /\ busy \cap UnitsOf(map) = {}
  /\ busy \cup UnitsOf(map) = Pool

\* rt_memfree() looks at the two neighbours only; that is enough to refuse
\* exactly the pieces of which some unit is free already.
RefusesExactly ==
  \A addr \in Pool : \A size \in 0 .. (PoolSize + 1 - addr) :
    Refused(map, size, addr) <=>
      size = 0 \/ \E i \in map : ~Apart([addr |-> addr, size |-> size], i)
==============================================================================
