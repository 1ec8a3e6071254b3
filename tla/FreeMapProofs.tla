---------------------------- MODULE FreeMapProofs ----------------------------
(***************************************************************************)
(* What rt_memfree(), rt_memalloc() and rt_memalloc_nosplit() do to a map, *)
(* for maps of any size.                                                   *)
(***************************************************************************)
EXTENDS FreeMap, TLAPS, WellFoundedInduction

Less == {ss \in Nat \X Nat : ss[1] < ss[2]}

LEMMA LessWellFounded == IsWellFoundedOn(Less, Nat)
BY NatLessThanWellFounded, Zenon DEF OpToRel, Less

\* Every non-empty set of numbers has a least element.
LEMMA Least ==
  ASSUME NEW T \in SUBSET Nat, T # {}
  PROVE  \E x \in T : \A y \in T : x <= y
<1>1. PICK x \in T : \A y \in T : ~ (<<y, x>> \in Less)
  BY LessWellFounded, WFMin, Zenon
<1>2. ASSUME NEW y \in T PROVE x <= y
  <2>1. x \in Nat /\ y \in Nat /\ <<y, x>> \notin Less
    BY <1>1
  <2>2. ~ (y < x)
    BY <2>1 DEF Less
  <2>3. QED
    BY <2>1, <2>2
<1>3. QED
  BY <1>2

\* Every non-empty set of numbers with a bound has a greatest element.
LEMMA Greatest ==
  ASSUME NEW T \in SUBSET Nat, T # {}, NEW b \in Nat, \A y \in T : y <= b
  PROVE  \E x \in T : \A y \in T : y <= x
<1> DEFINE D == {b - y : y \in T}
<1>1. D \in SUBSET Nat
  <2>1. \A y \in T : b - y \in Nat
    OBVIOUS
  <2>2. QED
    BY <2>1
<1>2. D # {}
  OBVIOUS
<1>3. PICK d \in D : \A e \in D : d <= e
  <2> HIDE DEF D
  <2>1. QED
    BY <1>1, <1>2, Least
<1>4. PICK x \in T : d = b - x
  OBVIOUS
<1>5. ASSUME NEW y \in T PROVE y <= x
  <2>1. d <= b - y
    BY <1>3
  <2>2. QED
    BY <2>1, <1>4
<1>6. QED
  BY <1>5

\* If a map has an element at or below an address, one of them is the last.
LEMMA BeforeExists ==
  ASSUME NEW map \in SUBSET Interval, NEW addr \in Nat,
         NEW i \in map, i.addr <= addr
  PROVE  \E j \in Before(map, addr) : i.addr <= j.addr
<1> DEFINE T == {j.addr : j \in {k \in map : k.addr <= addr}}
<1>1. T \in SUBSET Nat /\ T # {} /\ \A y \in T : y <= addr
  BY DEF Interval
<1>2. PICK x \in T : \A y \in T : y <= x
  BY <1>1, Greatest
<1>3. QED
  BY <1>2 DEF Before, Interval

\* If a map has an element above an address, one of them is the first.
LEMMA AfterExists ==
  ASSUME NEW map \in SUBSET Interval, NEW addr \in Nat,
         NEW i \in map, i.addr > addr
  PROVE  \E j \in After(map, addr) : j.addr <= i.addr
<1> DEFINE T == {j.addr : j \in {k \in map : k.addr > addr}}
<1>1. T \in SUBSET Nat /\ T # {}
  BY DEF Interval
<1>2. PICK x \in T : \A y \in T : x <= y
  BY <1>1, Least
<1>3. QED
  BY <1>2 DEF After, Interval

------------------------------------------------------------------------------
\* A piece of storage is refused exactly when it is empty or some of it is in
\* the map already: the two neighbours decide.
LEMMA RefusedIff ==
  ASSUME NEW map \in SUBSET Interval, Separated(map),
         NEW addr \in Nat, NEW size \in Nat
  PROVE  Refused(map, size, addr) <=>
           size = 0 \/ \E i \in map : ~Apart([addr |-> addr, size |-> size], i)
<1>1. ASSUME NEW i \in Before(map, addr), End(i) > addr, size # 0
      PROVE  ~Apart([addr |-> addr, size |-> size], i)
  BY <1>1 DEF Before, Apart, End, Interval
<1>2. ASSUME NEW i \in After(map, addr), addr + size > i.addr, size # 0
      PROVE  ~Apart([addr |-> addr, size |-> size], i)
  <2>1. i \in map /\ i.size > 0
    BY DEF After, Separated
  <2>2. QED
    BY <1>2, <2>1 DEF After, Apart, End, Interval
<1>3. ASSUME NEW i \in map, ~Apart([addr |-> addr, size |-> size], i), i.addr <= addr
      PROVE  \E j \in Before(map, addr) : End(j) > addr
  <2>1. PICK j \in Before(map, addr) : i.addr <= j.addr
    BY <1>3, BeforeExists
  <2>2. End(i) > addr
    BY <1>3 DEF Apart, End, Interval
  <2>3. j = i
    <3>1. j \in map /\ j.addr <= addr
      BY <2>1 DEF Before
    <3>2. j # i => End(i) < j.addr \/ End(j) < i.addr
      BY <3>1 DEF Separated
    <3>3. QED
      BY <2>1, <2>2, <3>1, <3>2 DEF End, Interval
  <2>4. QED
    BY <2>1, <2>2, <2>3
<1>4. ASSUME NEW i \in map, ~Apart([addr |-> addr, size |-> size], i), i.addr > addr
      PROVE  \E j \in After(map, addr) : addr + size > j.addr
  <2>1. PICK j \in After(map, addr) : j.addr <= i.addr
    BY <1>4, AfterExists
  <2>2. addr + size > i.addr
    BY <1>4 DEF Apart, End, Interval
  <2>3. QED
    BY <2>1, <2>2 DEF After, Interval
<1>5. ASSUME NEW i \in map PROVE i.addr <= addr \/ i.addr > addr
  BY DEF Interval
<1>6. \A i \in Before(map, addr) \cup After(map, addr) : i \in map
  BY DEF Before, After
<1>7. QED
  BY <1>1, <1>2, <1>3, <1>4, <1>5, <1>6 DEF Refused

\* The neighbours that touch a piece of storage go, and one interval from low to
\* high that covers them and the piece comes.
Merged(map, size, addr, gone, low, high) ==
  /\ MemFree(map, size, addr) =
       (map \ gone) \cup {[addr |-> low, size |-> high - low]}
  /\ low <= addr /\ addr + size <= high /\ size > 0
  /\ \A i \in map \ gone : End(i) < low \/ high < i.addr
  /\ \A i \in gone : \/ i.addr = low /\ End(i) = addr
                     \/ i.addr = addr + size /\ End(i) = high
  /\ low = addr \/ \E i \in gone : i.addr = low /\ End(i) = addr
  /\ high = addr + size \/ \E i \in gone : i.addr = addr + size /\ End(i) = high

\* What rt_memfree() makes of a map when it accepts a piece of storage: the
\* neighbours that touch it go, one interval that covers them all comes.
LEMMA MemFreeParts ==
  ASSUME NEW map \in SUBSET Interval, Separated(map),
         NEW addr \in Nat, NEW size \in Nat, ~Refused(map, size, addr)
  PROVE  \E gone \in SUBSET map, low \in Nat, high \in Nat :
           Merged(map, size, addr, gone, low, high)
<1> DEFINE below == {i \in Before(map, addr) : End(i) = addr}
           above == {i \in After(map, addr) : addr + size = i.addr}
           low   == IF below = {} THEN addr ELSE (CHOOSE i \in below : TRUE).addr
           high  == IF above = {} THEN addr + size ELSE End(CHOOSE i \in above : TRUE)
<1>1. size > 0 /\ \A i \in map : Apart([addr |-> addr, size |-> size], i)
  BY RefusedIff
<1>2. below \subseteq map /\ above \subseteq map
  BY DEF Before, After
<1>3. \A i, j \in below : i = j
  BY <1>2 DEF Separated, Interval, End
<1>4. \A i, j \in above : i = j
  BY <1>2 DEF Separated, Interval, End
<1>5. \A i \in below : low = i.addr /\ End(i) = addr
  BY <1>3
<1>6. \A i \in above : high = End(i) /\ i.addr = addr + size
  BY <1>4
<1>7. below = {} => low = addr
  OBVIOUS
<1>8. above = {} => high = addr + size
  OBVIOUS
<1>9. low \in Nat /\ low <= addr
  <2>1. CASE below = {}
    BY <2>1
  <2>2. CASE below # {}
    <3>1. PICK i \in below : TRUE
      BY <2>2
    <3>2. QED
      BY <3>1, <1>2, <1>5 DEF Interval, End
  <2>3. QED
    BY <2>1, <2>2
<1>10. high \in Nat /\ addr + size <= high
  <2>1. CASE above = {}
    BY <2>1
  <2>2. CASE above # {}
    <3>1. PICK i \in above : TRUE
      BY <2>2
    <3>2. i \in Interval /\ high = End(i) /\ i.addr = addr + size
      BY <3>1, <1>2, <1>6
    <3>3. QED
      BY <3>2 DEF Interval, End
  <2>3. QED
    BY <2>1, <2>2
<1>11. MemFree(map, size, addr) =
         (map \ (below \cup above)) \cup {[addr |-> low, size |-> high - low]}
  BY DEF MemFree
<1>12. ASSUME NEW i \in map \ (below \cup above) PROVE End(i) < low \/ high < i.addr
  <2> HIDE DEF low, high, below, above
  <2>0. i \in Interval /\ i.size > 0 /\ Apart([addr |-> addr, size |-> size], i)
    BY <1>1 DEF Separated
  <2>1. CASE i.addr <= addr
    <3>1. End(i) <= addr
      BY <2>0, <2>1, <1>1 DEF Apart, End, Interval
    <3>2. CASE below = {}
      <4>1. PICK j \in Before(map, addr) : i.addr <= j.addr
        BY <2>1, BeforeExists
      <4>2. j \in map /\ j \in Interval /\ j.addr <= addr
        BY <4>1 DEF Before
      <4>3. End(j) # addr
        BY <3>2, <4>1 DEF below
      <4>4. i # j => End(i) < j.addr
        BY <4>1, <4>2, <2>0 DEF Separated, End, Interval
      <4>5. QED
        BY <4>2, <4>3, <4>4, <3>1, <3>2, <2>0, <1>7 DEF End, Interval
    <3>3. CASE below # {}
      <4>1. PICK j \in below : TRUE
        BY <3>3
      <4>2. j \in map /\ j \in Interval /\ low = j.addr /\ End(j) = addr /\ i # j
        BY <4>1, <1>2, <1>5
      <4>3. End(i) < j.addr \/ End(j) < i.addr
        BY <4>2 DEF Separated
      <4>4. QED
        BY <4>2, <4>3, <2>0, <2>1 DEF End, Interval
    <3>4. QED
      BY <3>2, <3>3
  <2>2. CASE i.addr > addr
    <3>1. addr + size <= i.addr
      BY <2>0, <2>2, <1>1 DEF Apart, End, Interval
    <3>2. CASE above = {}
      <4>1. PICK j \in After(map, addr) : j.addr <= i.addr
        BY <2>2, AfterExists
      <4>2. j \in map /\ j \in Interval /\ j.addr > addr
        BY <4>1 DEF After
      <4>3. addr + size # j.addr
        BY <3>2, <4>1 DEF above
      <4>4. Apart([addr |-> addr, size |-> size], j) /\ j.size > 0
        BY <4>2, <1>1 DEF Separated
      <4>5. addr + size <= j.addr
        BY <4>2, <4>4 DEF Apart, End, Interval
      <4>6. QED
        BY <4>1, <4>2, <4>3, <4>5, <3>2, <1>8, <2>0 DEF Interval
    <3>3. CASE above # {}
      <4>1. PICK j \in above : TRUE
        BY <3>3
      <4>2. j \in map /\ j \in Interval /\ high = End(j) /\ j.addr = addr + size /\ i # j
        BY <4>1, <1>2, <1>6
      <4>3. End(i) < j.addr \/ End(j) < i.addr
        BY <4>2 DEF Separated
      <4>4. QED
        BY <4>2, <4>3, <2>0, <3>1 DEF End, Interval
    <3>4. QED
      BY <3>2, <3>3
  <2>3. QED
    BY <2>0, <2>1, <2>2 DEF Interval
<1>13. low = addr \/ \E i \in below \cup above : i.addr = low /\ End(i) = addr
  <2>1. below # {} => \E i \in below : i.addr = low /\ End(i) = addr
    BY <1>5
  <2>2. QED
    BY <2>1, <1>7
<1>14. high = addr + size \/ \E i \in below \cup above : i.addr = addr + size /\ End(i) = high
  <2>1. above # {} => \E i \in above : i.addr = addr + size /\ End(i) = high
    BY <1>6
  <2>2. QED
    BY <2>1, <1>8
<1>15. \A i \in below \cup above : \/ i.addr = low /\ End(i) = addr
                                   \/ i.addr = addr + size /\ End(i) = high
  BY <1>5, <1>6
<1> HIDE DEF low, high, below, above
<1>16. QED
  BY <1>1, <1>2, <1>9, <1>10, <1>11, <1>12, <1>13, <1>14, <1>15 DEF Merged

\* rt_memfree() keeps a map merged.
LEMMA MemFreeSeparated ==
  ASSUME NEW map \in SUBSET Interval, Separated(map),
         NEW addr \in Nat, NEW size \in Nat
  PROVE  MemFree(map, size, addr) \in SUBSET Interval /\ Separated(MemFree(map, size, addr))
<1>1. CASE Refused(map, size, addr)
  BY <1>1 DEF MemFree
<1>2. CASE ~Refused(map, size, addr)
  <2>1. PICK gone \in SUBSET map, low \in Nat, high \in Nat :
           Merged(map, size, addr, gone, low, high)
    BY <1>2, MemFreeParts
  <2> DEFINE new == [addr |-> low, size |-> high - low]
  <2>2. new \in Interval /\ new.size > 0 /\ new.addr = low /\ End(new) = high
    BY <2>1 DEF Interval, End, Merged
  <2>3. \A i \in map \ gone : i \in Interval /\ i.size > 0
    BY DEF Separated
  <2> HIDE DEF new
  <2>4. QED
    BY <2>1, <2>2, <2>3 DEF Separated, new, Merged
<1>3. QED
  BY <1>1, <1>2

\* What is clear of the map and of the piece that is given back is clear of the
\* map afterwards, and no bound is crossed.
LEMMA MemFreeApart ==
  ASSUME NEW map \in SUBSET Interval, Separated(map),
         NEW addr \in Nat, NEW size \in Nat
  PROVE  /\ \A x \in Interval :
              /\ x.size > 0
              /\ \A i \in map : Apart(x, i)
              /\ Apart(x, [addr |-> addr, size |-> size])
              => \A i \in MemFree(map, size, addr) : Apart(x, i)
         /\ \A a \in Nat, b \in Nat :
              /\ \A i \in map : a <= i.addr /\ End(i) <= b
              /\ a <= addr /\ addr + size <= b
              => \A i \in MemFree(map, size, addr) : a <= i.addr /\ End(i) <= b
<1>1. CASE Refused(map, size, addr)
  BY <1>1 DEF MemFree
<1>2. CASE ~Refused(map, size, addr)
  <2>1. PICK gone \in SUBSET map, low \in Nat, high \in Nat :
           Merged(map, size, addr, gone, low, high)
    BY <1>2, MemFreeParts
  <2> DEFINE new == [addr |-> low, size |-> high - low]
  <2>2. new \in Interval /\ new.size > 0 /\ new.addr = low /\ End(new) = high
    BY <2>1 DEF Interval, End, Merged
  <2> HIDE DEF new
  <2>3. \A i \in MemFree(map, size, addr) : i \in map \/ i = new
    BY <2>1 DEF new, Merged
  <2>4. ASSUME NEW x \in Interval, x.size > 0, \A i \in map : Apart(x, i),
               Apart(x, [addr |-> addr, size |-> size])
        PROVE  Apart(x, new)
    <3>1. End(x) <= addr \/ addr + size <= x.addr
      BY <2>4 DEF Apart, End
    <3>2. \/ low = addr
          \/ \E i \in gone : i.addr = low /\ End(i) = addr /\ Apart(x, i)
      BY <2>1, <2>4 DEF Merged
    <3>3. \/ high = addr + size
          \/ \E i \in gone : i.addr = addr + size /\ End(i) = high /\ Apart(x, i)
      BY <2>1, <2>4 DEF Merged
    <3>4. CASE End(x) <= addr
      <4>1. End(x) <= low \/ addr <= x.addr
        BY <3>2, <3>4 DEF Apart
      <4>2. QED
        BY <4>1, <3>4, <2>2, <2>4 DEF Apart, End, Interval
    <3>5. CASE addr + size <= x.addr
      <4>1. high <= x.addr \/ End(x) <= addr + size
        BY <3>3, <3>5 DEF Apart
      <4>2. QED
        BY <4>1, <3>5, <2>2, <2>4 DEF Apart, End, Interval
    <3>6. QED
      BY <3>1, <3>4, <3>5
  <2>5. ASSUME NEW a \in Nat, NEW b \in Nat, \A i \in map : a <= i.addr /\ End(i) <= b,
               a <= addr, addr + size <= b
        PROVE  a <= new.addr /\ End(new) <= b
    BY <2>1, <2>2, <2>5 DEF Merged
  <2>6. QED
    BY <2>3, <2>4, <2>5
<1>3. QED
  BY <1>1, <1>2

\* The allocators find an interval of the map that is large enough.
LEMMA BestFitFits ==
  ASSUME NEW map \in SUBSET Interval, NEW size \in Nat, Fitting(map, size) # {}
  PROVE  BestFit(map, size) \in Fitting(map, size)
<1> DEFINE F == Fitting(map, size)
           S == {i.size : i \in F}
<1>1. F \subseteq Interval
  BY DEF Fitting
<1>2. PICK s \in S : \A t \in S : s <= t
  <2>1. S \in SUBSET Nat /\ S # {}
    BY <1>1 DEF Interval
  <2> HIDE DEF S
  <2>2. QED
    BY <2>1, Least
<1> DEFINE A == {i.addr : i \in {j \in F : j.size = s}}
<1>3. PICK a \in A : \A b \in A : a <= b
  <2>1. A \in SUBSET Nat /\ A # {}
    BY <1>1, <1>2 DEF Interval
  <2> HIDE DEF A
  <2>2. QED
    BY <2>1, Least
<1>4. PICK i \in F : i.size = s /\ i.addr = a
  BY <1>3
<1>5. \A j \in F : i.size < j.size \/ (i.size = j.size /\ i.addr <= j.addr)
  BY <1>1, <1>2, <1>3, <1>4 DEF Interval
<1>6. QED
  BY <1>4, <1>5 DEF BestFit

LEMMA FirstFitFits ==
  ASSUME NEW map \in SUBSET Interval, NEW size \in Nat, Fitting(map, size) # {}
  PROVE  FirstFit(map, size) \in Fitting(map, size)
<1> DEFINE A == {i.addr : i \in Fitting(map, size)}
<1>1. A \in SUBSET Nat /\ A # {}
  BY DEF Fitting, Interval
<1>2. PICK a \in A : \A b \in A : a <= b
  <2> HIDE DEF A
  <2>1. QED
    BY <1>1, Least
<1>3. QED
  BY <1>2 DEF FirstFit

\* The units of a map and a piece that is accepted are those of the new map.
LEMMA MemFreeUnits ==
  ASSUME NEW map \in SUBSET Interval, Separated(map),
         NEW addr \in Nat, NEW size \in Nat, ~Refused(map, size, addr)
  PROVE  UnitsOf(MemFree(map, size, addr)) = UnitsOf(map) \cup (addr .. (addr + size - 1))
<1>1. PICK gone \in SUBSET map, low \in Nat, high \in Nat :
         Merged(map, size, addr, gone, low, high)
  BY MemFreeParts
<1> DEFINE new == [addr |-> low, size |-> high - low]
<1>2. new \in Interval /\ Units(new) = low .. (high - 1)
  BY <1>1 DEF Merged, Interval, Units, End
<1>3. MemFree(map, size, addr) = (map \ gone) \cup {new}
  BY <1>1 DEF Merged
<1> HIDE DEF new
<1>4. ASSUME NEW u, NEW i \in map, u \in Units(i) PROVE u \in UnitsOf(MemFree(map, size, addr))
  <2>1. CASE i \notin gone
    BY <2>1, <1>3, <1>4 DEF UnitsOf
  <2>2. CASE i \in gone
    <3>1. u \in low .. (high - 1)
      BY <2>2, <1>1, <1>4 DEF Merged, Units, End, Interval
    <3>2. QED
      BY <3>1, <1>2, <1>3 DEF UnitsOf
  <2>3. QED
    BY <2>1, <2>2
<1>5. ASSUME NEW u \in addr .. (addr + size - 1) PROVE u \in UnitsOf(MemFree(map, size, addr))
  <2>1. u \in low .. (high - 1)
    BY <1>1 DEF Merged
  <2>2. QED
    BY <2>1, <1>2, <1>3 DEF UnitsOf
<1>6. ASSUME NEW u, NEW i \in MemFree(map, size, addr), u \in Units(i)
      PROVE  u \in UnitsOf(map) \cup (addr .. (addr + size - 1))
  <2>1. CASE i \in map
    BY <2>1, <1>6 DEF UnitsOf
  <2>2. CASE i = new
    <3>1. u \in Int /\ low <= u /\ u < high
      BY <2>2, <1>2, <1>6
    <3>2. CASE u < addr
      <4>1. PICK j \in gone : j.addr = low /\ End(j) = addr
        BY <3>1, <3>2, <1>1 DEF Merged
      <4>2. u \in Units(j)
        BY <4>1, <3>1, <3>2 DEF Units, Interval
      <4>3. QED
        BY <4>2 DEF UnitsOf
    <3>3. CASE u >= addr + size
      <4>1. PICK j \in gone : j.addr = addr + size /\ End(j) = high
        BY <3>1, <3>3, <1>1 DEF Merged
      <4>2. u \in Units(j)
        BY <4>1, <3>1, <3>3 DEF Units, Interval
      <4>3. QED
        BY <4>2 DEF UnitsOf
    <3>4. QED
      BY <3>1, <3>2, <3>3
  <2>3. QED
    BY <2>1, <2>2, <1>3
<1>7. QED
  BY <1>4, <1>5, <1>6 DEF UnitsOf

\* Each unit of a merged map belongs to one interval.
LEMMA OneIntervalPerUnit ==
  ASSUME NEW map \in SUBSET Interval, Separated(map),
         NEW i \in map, NEW j \in map, NEW u \in Units(i), u \in Units(j)
  PROVE  i = j
BY DEF Separated, Units, End, Interval

\* rt_memalloc() takes the first units of an interval off the map.
LEMMA MemAllocUnits ==
  ASSUME NEW map \in SUBSET Interval, Separated(map),
         NEW size \in Nat, Fitting(map, size) # {}
  PROVE  LET at == FirstFit(map, size).addr
         IN /\ MemAlloc(map, size) \in SUBSET Interval
            /\ Separated(MemAlloc(map, size))
            /\ UnitsOf(MemAlloc(map, size)) = UnitsOf(map) \ (at .. (at + size - 1))
            /\ at .. (at + size - 1) \subseteq UnitsOf(map)
<1>1. PICK i \in map : i = FirstFit(map, size) /\ i \in Interval /\ i.size >= size /\ size > 0
  BY FirstFitFits DEF Fitting
<1> DEFINE rest == [addr |-> i.addr + size, size |-> i.size - size]
<1>2. MemAlloc(map, size) = (map \ {i}) \cup (IF i.size = size THEN {} ELSE {rest})
  BY <1>1 DEF MemAlloc
<1>3. Units(i) = i.addr .. (i.addr + i.size - 1)
  BY <1>1 DEF Units, End, Interval
<1>4. i.size # size => /\ rest \in Interval /\ rest.size > 0 /\ End(rest) = End(i)
                       /\ rest.addr > i.addr
                       /\ Units(rest) = (i.addr + size) .. (i.addr + i.size - 1)
  BY <1>1 DEF Units, End, Interval
<1> HIDE DEF rest
<1>5. MemAlloc(map, size) \in SUBSET Interval
  BY <1>1, <1>2, <1>4
<1>6. Separated(MemAlloc(map, size))
  <2>1. \A j \in MemAlloc(map, size) : j.size > 0
    BY <1>2, <1>4 DEF Separated
  <2>2. ASSUME NEW j \in map, j # i, i.size # size
        PROVE  End(j) < rest.addr \/ End(rest) < j.addr
    <3>1. End(j) < i.addr \/ End(i) < j.addr
      BY <1>1, <2>2 DEF Separated
    <3>2. QED
      BY <3>1, <1>1, <1>4, <2>2 DEF Interval, End
  <2>3. QED
    BY <2>1, <2>2, <1>2 DEF Separated
<1>7. ASSUME NEW j \in map, j # i, NEW u \in Units(j) PROVE u \notin Units(i)
  BY <1>1, <1>7, OneIntervalPerUnit
<1>8. i.addr .. (i.addr + size - 1) \subseteq Units(i)
  BY <1>1, <1>3 DEF Interval
<1>9. UnitsOf(MemAlloc(map, size)) = UnitsOf(map) \ (i.addr .. (i.addr + size - 1))
  <2>1. ASSUME NEW j \in map \ {i}, NEW u \in Units(j)
        PROVE  u \notin i.addr .. (i.addr + size - 1)
    BY <2>1, <1>7, <1>8
  <2>2. i.size # size => Units(rest) = Units(i) \ (i.addr .. (i.addr + size - 1))
    BY <1>1, <1>3, <1>4 DEF Interval
  <2>3. i.size = size => Units(i) = i.addr .. (i.addr + size - 1)
    BY <1>3
  <2>4. UnitsOf(map) = Units(i) \cup UnitsOf(map \ {i})
    BY <1>1 DEF UnitsOf
  <2>5. UnitsOf(map \ {i}) = UnitsOf(map \ {i}) \ (i.addr .. (i.addr + size - 1))
    BY <2>1 DEF UnitsOf
  <2>6. i.size # size => UnitsOf(MemAlloc(map, size)) = UnitsOf(map \ {i}) \cup Units(rest)
    BY <1>2 DEF UnitsOf
  <2>7. i.size = size => UnitsOf(MemAlloc(map, size)) = UnitsOf(map \ {i})
    BY <1>2 DEF UnitsOf
  <2>8. QED
    BY <2>2, <2>3, <2>4, <2>5, <2>6, <2>7, Zenon
<1>10. Units(i) \subseteq UnitsOf(map)
  BY <1>1 DEF UnitsOf
<1>11. QED
  BY <1>1, <1>5, <1>6, <1>8, <1>9, <1>10
==============================================================================
