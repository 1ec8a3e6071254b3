------------------------------- MODULE FreeMap -------------------------------
(***************************************************************************)
(* The map of free storage of librt/memalloc.c.  The source keeps a list   *)
(* of intervals by increasing address.  Here a map is the set of them: the *)
(* order of the list is that of the addresses, so "the first that fits" is *)
(* the fitting interval of least address.                                  *)
(***************************************************************************)
EXTENDS Integers

\* struct mem_map: an address and the number of units from it on.
Interval == [addr : Nat, size : Nat]

\* The first unit after an interval.
End(i) == i.addr + i.size

Units(i) == i.addr .. (End(i) - 1)

UnitsOf(map) == UNION {Units(i) : i \in map}

\* Two intervals with no unit in common.
Apart(i, j) == End(i) <= j.addr \/ End(j) <= i.addr

\* The two list elements rt_memfree() stops between: the last at or below the
\* address (prevp) and the first above it (curp), each a set of at most one.
Before(map, addr) ==
  {i \in map : i.addr <= addr /\ \A j \in map : j.addr <= addr => j.addr <= i.addr}
After(map, addr) ==
  {i \in map : i.addr > addr /\ \A j \in map : j.addr > addr => i.addr <= j.addr}

\* A bug that only looks at the element below.
RefusedBelow(map, size, addr) ==
  size = 0 \/ \E i \in Before(map, addr) : End(i) > addr

\* rt_memfree() refuses to release nothing (M_TOVFL and M_BOVFL are the other
\* refusals): storage that reaches into one of the two neighbours.
Refused(map, size, addr) ==
  \/ size = 0
  \/ \E i \in Before(map, addr) : End(i) > addr
  \/ \E i \in After(map, addr) : addr + size > i.addr

\* A bug that forgets the top match.
MemFreeNoTop(map, size, addr) ==
  LET below == {i \in Before(map, addr) : End(i) = addr}
      low   == IF below = {} THEN addr ELSE (CHOOSE i \in below : TRUE).addr
  IN IF Refused(map, size, addr)
     THEN map
     ELSE (map \ below) \cup {[addr |-> low, size |-> addr + size - low]}

\* rt_memfree(): the new interval takes in the neighbours it touches.
MemFree(map, size, addr) ==
  LET below == {i \in Before(map, addr) : End(i) = addr}
      above == {i \in After(map, addr) : addr + size = i.addr}
      low   == IF below = {} THEN addr ELSE (CHOOSE i \in below : TRUE).addr
      high  == IF above = {} THEN addr + size ELSE End(CHOOSE i \in above : TRUE)
  IN IF Refused(map, size, addr)
     THEN map
     ELSE (map \ (below \cup above)) \cup {[addr |-> low, size |-> high - low]}

Fitting(map, size) == {i \in map : size > 0 /\ i.size >= size}

\* rt_memalloc(): first fit, and what is left of the interval stays.
FirstFit(map, size) ==
  CHOOSE i \in Fitting(map, size) : \A j \in Fitting(map, size) : i.addr <= j.addr

MemAlloc(map, size) ==
  LET i == FirstFit(map, size)
  IN (map \ {i}) \cup
     (IF i.size = size THEN {} ELSE {[addr |-> i.addr + size, size |-> i.size - size]})

\* rt_memalloc_nosplit(): best fit, the whole interval leaves the map.
BestFit(map, size) ==
  CHOOSE i \in Fitting(map, size) : \A j \in Fitting(map, size) :
     i.size < j.size \/ (i.size = j.size /\ i.addr <= j.addr)

\* What a map must be: no empty interval, and neither two that overlap nor two
\* that touch (they would have been merged).
Separated(map) ==
  /\ \A i \in map : i.size > 0
  /\ \A i, j \in map : i # j => End(i) < j.addr \/ End(j) < i.addr
==============================================================================
