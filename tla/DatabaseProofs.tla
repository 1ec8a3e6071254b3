--------------------------- MODULE DatabaseProofs ---------------------------
(***************************************************************************)
(* The storage of a geometry database, for any names, sizes, length of the *)
(* file and files found.                                                   *)
(*                                                                         *)
(* 1. StorageInv: the call in progress holds one block, every write of the *)
(*    call lies in it, and it has no unit in common with the other         *)
(*    objects, the second records and, except while the old storage of a   *)
(*    growing object is erased, the map of free storage.                   *)
(* 2. Chain: what db5_scan() gives for any file, and that a process that   *)
(*    opens the file takes well-formed storage from it.                    *)
(* 3. FileInv, KeptInv: what a write puts into the file; the objects that  *)
(*    no call is about are in it, whole.                                   *)
(* 4. Tiling, Erasing, Holding: the file is records one behind the other,  *)
(*    but for the block that is being cut in two, and every record is what *)
(*    the process takes it for.                                            *)
(* 5. TileInv: this holds at every step of every call.                     *)
(***************************************************************************)
EXTENDS Database, FreeMapProofs

------------------------------------------------------------------------------
(***************************************************************************)
(* 1. Storage is never handed out twice.                                   *)
(***************************************************************************)
\* The directory without the entry of one name.
Without(d, x) == [y \in Names |-> IF y = x THEN NoStorage ELSE d[y]]

\* Storage e is in the file and nothing else holds a unit of it.
Clear(e, d, s, f, end) ==
  /\ e \in Interval /\ e.size > 0 /\ e.addr > 0 /\ End(e) <= end
  /\ \A x \in Names : d[x].size > 0 => Apart(e, d[x])
  /\ \A i \in s : Apart(e, i)
  /\ \A i \in f : Apart(e, i)

\* Interval i lies in interval e.
Within(i, e) == e.addr <= i.addr /\ End(i) <= End(e)

Dir == [Names -> Interval]

------------------------------------------------------------------------------
\* Apart is symmetric.
LEMMA ApartSymmetric ==
  ASSUME NEW i \in Interval, NEW j \in Interval, Apart(i, j)
  PROVE  Apart(j, i)
BY DEF Apart

\* A part of storage that is clear is clear.
LEMMA ClearPart ==
  ASSUME NEW d \in Dir, NEW s \in SUBSET Interval, NEW f \in SUBSET Interval, NEW end \in Nat,
         NEW e, Clear(e, d, s, f, end),
         NEW i \in Interval, i.size > 0, Within(i, e)
  PROVE  Clear(i, d, s, f, end)
<1>1. ASSUME NEW j \in Interval, Apart(e, j) PROVE Apart(i, j)
  BY <1>1 DEF Clear, Within, Apart, End, Interval
<1>2. \A x \in Names : d[x] \in Interval
  BY DEF Dir
<1>3. i.addr > 0 /\ End(i) <= end
  BY DEF Clear, Within, End, Interval
<1>4. QED
  BY <1>1, <1>2, <1>3 DEF Clear

\* An entry with clear storage may be put into the directory,
LEMMA PutIn ==
  ASSUME NEW d \in Dir, NEW s \in SUBSET Interval, NEW f \in SUBSET Interval, NEW end \in Nat,
         NEW x \in Names, WellFormed(Without(d, x), s, f, end),
         Clear(d[x], Without(d, x), s, f, end)
  PROVE  WellFormed(d, s, f, end)
<1>1. \A y \in Names : d[y] \in Interval
  BY DEF Dir
<1>2. \A y \in Names \ {x} : Without(d, x)[y] = d[y]
  BY DEF Without
<1>3. \A y \in Names \ {x} : d[y].size > 0 => Apart(d[x], d[y]) /\ Apart(d[y], d[x])
  BY <1>1, <1>2, ApartSymmetric DEF Clear
<1>4. \A i \in s : Apart(d[x], i) /\ Apart(i, d[x])
  BY <1>1, ApartSymmetric DEF Clear
<1>5. QED
  BY <1>2, <1>3, <1>4 DEF Clear, WellFormed

\* and what is taken out of it leaves clear storage.
LEMMA TakeOut ==
  ASSUME NEW d \in Dir, NEW s \in SUBSET Interval, NEW f \in SUBSET Interval, NEW end \in Nat,
         NEW x \in Names, WellFormed(d, s, f, end)
  PROVE  /\ WellFormed(Without(d, x), s, f, end)
         /\ d[x].size > 0 => Clear(d[x], Without(d, x), s, f, end)
<1>1. \A y \in Names : d[y] \in Interval
  BY DEF Dir
<1>2. \A y \in Names : Without(d, x)[y].size > 0 => y # x /\ Without(d, x)[y] = d[y]
  BY DEF Without, NoStorage
<1>3. WellFormed(Without(d, x), s, f, end)
  BY <1>2 DEF WellFormed
<1>4. ASSUME d[x].size > 0 PROVE Clear(d[x], Without(d, x), s, f, end)
  <2>1. \A i \in s : Apart(d[x], i)
    BY <1>1, <1>4, ApartSymmetric DEF WellFormed
  <2>2. QED
    BY <1>1, <1>2, <1>4, <2>1 DEF WellFormed, Clear
<1>5. QED
  BY <1>3, <1>4

\* The entry of the name that is taken out does not matter.
LEMMA WithoutIgnores ==
  ASSUME NEW d \in Dir, NEW e \in Dir, NEW x, \A y \in Names \ {x} : d[y] = e[y]
  PROVE  Without(d, x) = Without(e, x)
BY DEF Without

\* No object, no entry to take out.
LEMMA WithoutNobody ==
  ASSUME NEW d \in Dir, NEW x, x \notin Names
  PROVE  Without(d, x) = d
BY DEF Without, Dir

LEMMA WithoutType ==
  ASSUME NEW d \in Dir, NEW x
  PROVE  Without(d, x) \in Dir
BY DEF Without, Dir, NoStorage, Interval

\* Clear storage may go to the map; what else is clear stays so.
LEMMA GiveBack ==
  ASSUME NEW d \in Dir, NEW s \in SUBSET Interval, NEW f \in SUBSET Interval, NEW end \in Nat,
         WellFormed(d, s, f, end), NEW e, Clear(e, d, s, f, end)
  PROVE  /\ MemFree(f, e.size, e.addr) \in SUBSET Interval
         /\ WellFormed(d, s, MemFree(f, e.size, e.addr), end)
         /\ \A i : Clear(i, d, s, f, end) /\ Apart(i, e)
                   => Clear(i, d, s, MemFree(f, e.size, e.addr), end)
<1> DEFINE g == MemFree(f, e.size, e.addr)
<1>1. e \in Interval /\ e.addr \in Nat /\ e.size \in Nat /\ e.size > 0 /\ e.addr > 0
      /\ e.addr + e.size <= end
  BY DEF Clear, Interval, End
<1>2. Separated(f)
  BY DEF WellFormed
<1>3. g \in SUBSET Interval /\ Separated(g)
  BY <1>1, <1>2, MemFreeSeparated
<1>4. e = [addr |-> e.addr, size |-> e.size]
  BY <1>1 DEF Interval
<1>5. ASSUME NEW i \in Interval, i.size > 0, \A j \in f : Apart(i, j), Apart(i, e)
      PROVE  \A j \in g : Apart(i, j)
  BY <1>1, <1>2, <1>4, <1>5, MemFreeApart
<1>6. \A i \in g : 1 <= i.addr /\ End(i) <= end
  <2>1. \A i \in f : 1 <= i.addr /\ End(i) <= end
    BY DEF WellFormed, Interval
  <2>2. 1 <= e.addr
    BY <1>1
  <2>3. QED
    BY <1>1, <1>2, <2>1, <2>2, MemFreeApart
<1> HIDE DEF g
<1>7. \A i \in g : i.addr > 0 /\ End(i) <= end
  BY <1>3, <1>6 DEF Interval
<1>8. ASSUME NEW x \in Names, d[x].size > 0 PROVE \A j \in g : Apart(d[x], j)
  <2>1. d[x] \in Interval /\ Apart(d[x], e)
    BY <1>1, <1>8, ApartSymmetric DEF Dir, Clear
  <2>2. QED
    BY <1>5, <1>8, <2>1 DEF WellFormed
<1>9. ASSUME NEW i \in s PROVE \A j \in g : Apart(i, j)
  <2>1. i \in Interval /\ Apart(i, e)
    BY <1>1, ApartSymmetric DEF Clear
  <2>2. QED
    BY <1>5, <2>1 DEF WellFormed
<1>10. WellFormed(d, s, g, end)
  BY <1>3, <1>7, <1>8, <1>9 DEF WellFormed
<1>11. \A i : Clear(i, d, s, f, end) /\ Apart(i, e) => Clear(i, d, s, g, end)
  BY <1>5 DEF Clear
<1>12. QED
  BY <1>3, <1>10, <1>11 DEF g

\* An interval of the map may leave it: it is clear then.
LEMMA TakeFree ==
  ASSUME NEW d \in Dir, NEW s \in SUBSET Interval, NEW f \in SUBSET Interval, NEW end \in Nat,
         WellFormed(d, s, f, end), NEW m \in f
  PROVE  /\ WellFormed(d, s, f \ {m}, end)
         /\ Clear(m, d, s, f \ {m}, end)
<1>1. m \in Interval /\ m.size > 0 /\ m.addr > 0 /\ End(m) <= end
  BY DEF WellFormed, Separated
<1>2. \A x \in Names : d[x].size > 0 => Apart(m, d[x])
  BY <1>1, ApartSymmetric DEF WellFormed, Dir
<1>3. \A i \in s : Apart(m, i)
  BY <1>1, ApartSymmetric DEF WellFormed
<1>4. \A i \in f \ {m} : Apart(m, i)
  BY <1>1 DEF WellFormed, Separated, Apart, Interval, End
<1>5. WellFormed(d, s, f \ {m}, end)
  BY DEF WellFormed, Separated
<1>6. QED
  BY <1>1, <1>2, <1>3, <1>4, <1>5 DEF Clear

\* New storage at the end of the file is clear.
LEMMA Extend ==
  ASSUME NEW d \in Dir, NEW s \in SUBSET Interval, NEW f \in SUBSET Interval, NEW end \in Nat,
         WellFormed(d, s, f, end), NEW n \in Nat \ {0}
  PROVE  /\ WellFormed(d, s, f, end + n)
         /\ Clear([addr |-> end, size |-> n], d, s, f, end + n)
<1> DEFINE e == [addr |-> end, size |-> n]
<1>1. e \in Interval /\ e.size > 0 /\ e.addr > 0 /\ End(e) = end + n
  BY DEF WellFormed, Interval, End
<1>2. \A i \in Interval : End(i) \in Nat
  BY DEF End, Interval
<1>3. \A i \in Interval : End(i) <= end => Apart(e, i) /\ End(i) <= end + n
  BY <1>1, <1>2 DEF Apart, Interval
<1>4. \A x \in Names : d[x] \in Interval
  BY DEF Dir
<1> HIDE DEF e
<1>5. WellFormed(d, s, f, end + n)
  BY <1>3, <1>4 DEF WellFormed
<1>6. Clear(e, d, s, f, end + n)
  BY <1>1, <1>3, <1>4 DEF WellFormed, Clear
<1>7. QED
  BY <1>5, <1>6 DEF e

------------------------------------------------------------------------------
\* The block the call in progress holds: while an object that grows is being
\* erased, the storage it gave back.
Held == IF op.pc = "release" THEN dir[op.name] ELSE op.hold

\* The map that has to be clear of it.
FreeElsewhere == IF op.pc = "release" THEN {} ELSE freep

\* The entries of the names the call in progress is not about.
Others == Without(dir, op.name)

\* What each step of a call has made of the block.
BlockShape ==
  /\ op.pc \in {"front", "back", "surplus"} => 0 < op.size /\ op.size < op.hold.size
  /\ op.pc = "surplus" => dir[op.name] = BackHalf
  /\ op.pc = "release" => 0 < op.size
  /\ op.pc \in {"erase", "write"} => op.size = op.hold.size
  /\ op.pc \in {"erase", "write", "kill"} => dir[op.name] = op.hold

HeldInv ==
  /\ op.name \in Names
  /\ Clear(Held, Others, strays, FreeElsewhere, eof)
  /\ \A k \in DOMAIN writes : Within(Covers(writes[k]), Held)
  /\ BlockShape

StorageInv ==
  /\ StorageTypeOK
  /\ ~up \/ readOnly => op.pc = "idle"
  /\ op.pc = "idle" => op = Idle /\ writes = <<>>
  /\ up /\ ~readOnly => WellFormed(Others, strays, freep, eof)
  /\ op.pc # "idle" => HeldInv

\* The writes of a call lie in the block it holds, and that spares the others.
LEMMA HeldSpares == StorageInv => WritesSpareOthers
<1> SUFFICES ASSUME StorageInv, NEW k \in DOMAIN writes
             PROVE  /\ \A x \in Names \ {op.name} : dir[x].size > 0 => Apart(Covers(writes[k]), dir[x])
                    /\ \A i \in strays : Apart(Covers(writes[k]), i)
  BY DEF WritesSpareOthers
<1>1. op.pc # "idle"
  BY DEF StorageInv
<1>2. HeldInv
  BY <1>1 DEF StorageInv
<1>3. Within(Covers(writes[k]), Held) /\ Clear(Held, Others, strays, FreeElsewhere, eof)
  BY <1>2 DEF HeldInv
<1>4. writes[k] \in Writes
  BY DEF StorageInv, StorageTypeOK
<1>5. Covers(writes[k]) \in Interval
  BY <1>4 DEF Covers, Writes, Interval
<1>6. ASSUME NEW j \in Interval, Apart(Held, j) PROVE Apart(Covers(writes[k]), j)
  <2>1. Held \in Interval
    BY <1>3 DEF Clear
  <2>2. QED
    BY <1>3, <1>5, <1>6, <2>1 DEF Within, Apart, End, Interval
<1>7. ASSUME NEW x \in Names \ {op.name}, dir[x].size > 0 PROVE Apart(Covers(writes[k]), dir[x])
  <2>1. dir[x] \in Interval /\ Others[x] = dir[x]
    BY DEF StorageInv, StorageTypeOK, Others, Without
  <2>2. QED
    BY <1>3, <1>6, <1>7, <2>1 DEF Clear
<1>8. QED
  BY <1>3, <1>6, <1>7 DEF Clear, StorageInv, StorageTypeOK

------------------------------------------------------------------------------
\* The writes that make storage a free record lie in it.
LEMMA FreeWritesWithin ==
  ASSUME NEW e \in Interval, e.size > 0
  PROVE  /\ FreeWrites(e) \in Seq(Writes)
         /\ \A k \in DOMAIN FreeWrites(e) : Within(Covers(FreeWrites(e)[k]), e)
<1>1. e.addr \in Nat /\ e.size \in Nat
  BY DEF Interval
<1>2. CASE e.size <= Large
  <2>1. FreeWrites(e) = <<Write(e.addr, e.size, Free, e.size, "whole")>>
    BY <1>2 DEF FreeWrites
  <2>2. Write(e.addr, e.size, Free, e.size, "whole") \in Writes
    BY <1>1 DEF Write, Writes
  <2>3. Within(Covers(Write(e.addr, e.size, Free, e.size, "whole")), e)
    BY <1>1 DEF Within, Covers, Write, End
  <2>4. QED
    BY <2>1, <2>2, <2>3
<1>3. CASE e.size > Large
  <2> DEFINE head == Write(e.addr, 2, Free, e.size, "header")
             tail == Write(e.addr + e.size - 1, 1, Free, e.size, "trailer")
  <2>0. e.size > 2 /\ ~(e.size <= Large)
    BY <1>1, <1>3, StorageAssumption
  <2>1. FreeWrites(e) = <<head, tail>>
    BY <2>0 DEF FreeWrites
  <2>2. head \in Writes /\ tail \in Writes
    BY <1>1, <2>0 DEF Write, Writes
  <2>3. Within(Covers(head), e) /\ Within(Covers(tail), e)
    BY <1>1, <2>0 DEF Within, Covers, Write, End
  <2> HIDE DEF head, tail
  <2>4. QED
    BY <2>1, <2>2, <2>3
<1>4. QED
  BY <1>1, <1>2, <1>3, StorageAssumption

\* Erasing a part of the block the call holds.
LEMMA EraseHolds ==
  ASSUME NEW e \in Interval, NEW h \in Interval, e.size > 0, Within(e, h),
         writes' = FreeWrites(e)
  PROVE  /\ writes' \in Seq(Writes)
         /\ \A k \in DOMAIN writes' : Within(Covers(writes'[k]), h)
<1>1. /\ writes' \in Seq(Writes)
      /\ \A k \in DOMAIN writes' : Within(Covers(writes'[k]), e)
  BY FreeWritesWithin
<1>2. ASSUME NEW k \in DOMAIN writes' PROVE Within(Covers(writes'[k]), h)
  <2>1. writes'[k] \in Writes
    BY <1>1
  <2>2. Covers(writes'[k]) \in Interval
    BY <2>1 DEF Covers, Writes, Interval
  <2>3. QED
    BY <1>1, <2>2 DEF Within, End, Interval
<1>3. QED
  BY <1>1, <1>2

\* An object is written into storage of its size.
LEMMA WriteObjectHolds ==
  ASSUME NEW x \in Names, NEW e \in Interval, WriteObject(x, e.size, e)
  PROVE  /\ op' = [pc |-> "write", name |-> x, size |-> e.size, hold |-> e]
         /\ op' \in [pc : Steps, name : Names \cup {Free}, size : Nat, hold : Interval]
         /\ writes' \in Seq(Writes)
         /\ \A k \in DOMAIN writes' : Within(Covers(writes'[k]), e)
<1>1. e.addr \in Nat /\ e.size \in Nat
  BY DEF Interval
<1> DEFINE w == Write(e.addr, e.size, x, e.size, "whole")
<1>2. writes' = <<w>>
  BY DEF WriteObject
<1>3. w \in Writes /\ Within(Covers(w), e)
  BY <1>1 DEF Write, Writes, Within, Covers, End
<1> HIDE DEF w
<1>4. QED
  BY <1>1, <1>2, <1>3 DEF WriteObject, Steps

\* When an object is written into the clear block its entry gives, all is well.
LEMMA WriteObjectKeeps ==
  ASSUME StorageInv, up, ~readOnly, up' = up, readOnly' = readOnly, strays' = strays,
         NEW x \in Names, NEW e, WriteObject(x, e.size, e),
         dir' \in Dir, dir'[x] = e, freep' \in SUBSET Interval, eof' \in Nat,
         WellFormed(Without(dir', x), strays, freep', eof'),
         Clear(e, Without(dir', x), strays, freep', eof')
  PROVE  StorageInv'
<1>1. e \in Interval
  BY DEF Clear
<1>2. /\ op' = [pc |-> "write", name |-> x, size |-> e.size, hold |-> e]
      /\ op' \in [pc : Steps, name : Names \cup {Free}, size : Nat, hold : Interval]
      /\ writes' \in Seq(Writes)
      /\ \A k \in DOMAIN writes' : Within(Covers(writes'[k]), e)
  BY <1>1, WriteObjectHolds
<1>3. StorageTypeOK'
  BY <1>2 DEF StorageInv, StorageTypeOK, Dir
<1>4. op'.pc = "write" /\ op'.name = x /\ op'.hold = e /\ op'.size = e.size
  BY <1>2
<1>5. Held' = e /\ FreeElsewhere' = freep' /\ Others' = Without(dir', x)
  BY <1>4 DEF Held, FreeElsewhere, Others
<1>6. BlockShape'
  BY <1>4 DEF BlockShape
<1>7. HeldInv'
  BY <1>2, <1>4, <1>5, <1>6 DEF HeldInv
<1>8. QED
  BY <1>3, <1>4, <1>5, <1>7 DEF StorageInv

\* The tail of db5_realloc(): whatever way storage is found, it is clear.
LEMMA ObtainKeeps ==
  ASSUME StorageInv, up, ~readOnly, up' = up, readOnly' = readOnly, strays' = strays,
         NEW x \in Names, NEW n \in Nat \ {0}, Obtain(x, n, freep),
         WellFormed(Without(dir, x), strays, freep, eof)
  PROVE  StorageInv'
<1>0. /\ dir \in Dir /\ strays \in SUBSET Interval /\ freep \in SUBSET Interval /\ eof \in Nat
      /\ Without(dir, x) \in Dir
  BY WithoutType DEF StorageInv, StorageTypeOK, Dir
<1>1. CASE Fitting(freep, n) = {}
  <2> DEFINE new == [addr |-> eof, size |-> n]
  <2>1. /\ freep' = freep /\ eof' = eof + n /\ dir' = [dir EXCEPT ![x] = new]
        /\ WriteObject(x, n, new)
    BY <1>1 DEF Obtain
  <2>2. new \in Interval /\ new.size = n
    BY <1>0 DEF Interval
  <2>3. dir' \in Dir /\ dir'[x] = new /\ Without(dir', x) = Without(dir, x)
    BY <1>0, <2>1, <2>2 DEF Dir, Without
  <2>4. /\ WellFormed(Without(dir, x), strays, freep, eof + n)
        /\ Clear(new, Without(dir, x), strays, freep, eof + n)
    BY <1>0, Extend
  <2>5. eof + n \in Nat /\ WriteObject(x, new.size, new)
    BY <1>0, <2>1, <2>2
  <2> HIDE DEF new
  <2>6. QED
    BY <1>0, <2>1, <2>3, <2>4, <2>5, WriteObjectKeeps
<1>2. CASE Fitting(freep, n) # {}
  <2> DEFINE m == BestFit(freep, n)
             surplus == [addr |-> m.addr + n, size |-> m.size - n]
  <2>1. m \in freep /\ m.size >= n /\ m \in Interval
    BY <1>0, <1>2, BestFitFits DEF Fitting
  <2>2. freep' = freep \ {m} /\ eof' = eof
    BY <1>2 DEF Obtain
  <2>3. m.size = n => dir' = [dir EXCEPT ![x] = m] /\ WriteObject(x, n, m)
    BY <1>2 DEF Obtain
  <2>4. m.size # n => /\ dir' = [dir EXCEPT ![x] = surplus]
                      /\ op' = [pc |-> "surplus", name |-> x, size |-> n, hold |-> m]
                      /\ writes' = FreeWrites(surplus)
    BY <1>2 DEF Obtain
  <2> HIDE DEF m
  <2>5. /\ WellFormed(Without(dir, x), strays, freep', eof)
        /\ Clear(m, Without(dir, x), strays, freep', eof)
        /\ freep' \in SUBSET Interval
    BY <1>0, <2>1, <2>2, TakeFree
  <2>6. CASE m.size = n
    <3>1. dir' \in Dir /\ dir'[x] = m /\ Without(dir', x) = Without(dir, x)
      BY <1>0, <2>1, <2>3, <2>6 DEF Dir, Without
    <3>2. QED
      BY <1>0, <2>2, <2>3, <2>5, <2>6, <3>1, WriteObjectKeeps
  <2>7. CASE m.size # n
    <3>1. m.addr \in Nat /\ m.size \in Nat /\ m.size > n /\ n > 0
      BY <2>1, <2>7 DEF Interval
    <3>2. surplus \in Interval /\ surplus.size > 0 /\ Within(surplus, m)
      BY <3>1 DEF Interval, Within, End
    <3>3. dir' \in Dir /\ dir'[x] = surplus /\ Without(dir', x) = Without(dir, x)
      BY <1>0, <2>4, <2>7, <3>2 DEF Dir, Without
    <3>4. writes' = FreeWrites(surplus)
      BY <2>4, <2>7
    <3>5. /\ writes' \in Seq(Writes)
          /\ \A k \in DOMAIN writes' : Within(Covers(writes'[k]), m)
      <4> HIDE DEF surplus
      <4>1. QED
        BY <2>1, <3>2, <3>4, EraseHolds
    <3>6. /\ op'.pc = "surplus" /\ op'.name = x /\ op'.size = n /\ op'.hold = m
          /\ op' \in [pc : Steps, name : Names \cup {Free}, size : Nat, hold : Interval]
      BY <2>1, <2>4, <2>7 DEF Steps
    <3>7. Held' = m /\ FreeElsewhere' = freep' /\ Others' = Without(dir, x)
      BY <3>3, <3>6 DEF Held, FreeElsewhere, Others
    <3>8. BlockShape'
      BY <3>1, <3>3, <3>6 DEF BlockShape, BackHalf
    <3>9. HeldInv'
      BY <2>2, <2>5, <3>5, <3>6, <3>7, <3>8 DEF HeldInv
    <3>10. StorageTypeOK'
      BY <1>0, <2>2, <2>5, <3>3, <3>5, <3>6 DEF StorageInv, StorageTypeOK, Dir
    <3>11. QED
      BY <2>2, <2>5, <3>6, <3>7, <3>9, <3>10 DEF StorageInv
  <2>8. QED
    BY <2>6, <2>7
<1>3. QED
  BY <1>1, <1>2

------------------------------------------------------------------------------
\* One lemma per step of a call.
LEMMA BetweenCalls ==
  ASSUME StorageInv, Ready
  PROVE  /\ dir \in Dir /\ strays \in SUBSET Interval /\ freep \in SUBSET Interval /\ eof \in Nat
         /\ WellFormed(dir, strays, freep, eof)
         /\ \A x \in Names : WellFormed(Without(dir, x), strays, freep, eof)
         /\ \A x \in Names : dir[x].size > 0 =>
              Clear(dir[x], Without(dir, x), strays, freep, eof)
<1>1. dir \in Dir /\ strays \in SUBSET Interval /\ freep \in SUBSET Interval /\ eof \in Nat
  BY DEF StorageInv, StorageTypeOK, Dir
<1>2. Others = dir
  BY <1>1, WithoutNobody, StorageAssumption DEF Others, Ready, Idle
<1>3. WellFormed(dir, strays, freep, eof)
  BY <1>2 DEF StorageInv, Ready
<1>4. QED
  BY <1>1, <1>3, TakeOut

LEMMA PutSameKeeps ==
  ASSUME StorageInv, NEW x \in Names, PutSame(x)
  PROVE  StorageInv'
<1>1. Ready /\ dir[x].size > 0 /\ WriteObject(x, dir[x].size, dir[x])
      /\ UNCHANGED <<up, strays, dir, freep, eof, readOnly>>
  BY DEF PutSame
<1>2. up /\ ~readOnly
  BY <1>1 DEF Ready
<1>3. QED
  BY <1>1, <1>2, BetweenCalls, WriteObjectKeeps

LEMMA PutNewKeeps ==
  ASSUME StorageInv, NEW x \in Names, NEW n \in Sizes, PutNew(x, n)
  PROVE  StorageInv'
<1>1. Ready /\ up /\ ~readOnly /\ Obtain(x, n, freep) /\ UNCHANGED <<up, strays, readOnly>>
  BY DEF PutNew, Ready
<1>2. n \in Nat \ {0}
  BY StorageAssumption
<1>3. QED
  BY <1>1, <1>2, BetweenCalls, ObtainKeeps

LEMMA KillKeeps ==
  ASSUME StorageInv, NEW x \in Names, Kill(x)
  PROVE  StorageInv'
<1>1. /\ Ready /\ up /\ ~readOnly /\ dir[x].size > 0
      /\ op' = [pc |-> "kill", name |-> x, size |-> 0, hold |-> dir[x]]
      /\ writes' = FreeWrites(dir[x])
      /\ UNCHANGED <<up, strays, dir, freep, eof, readOnly>>
  BY DEF Kill, Ready
<1>2. dir[x] \in Interval /\ Within(dir[x], dir[x])
  BY DEF StorageInv, StorageTypeOK, Within, Interval, End
<1>3. /\ writes' \in Seq(Writes)
      /\ \A k \in DOMAIN writes' : Within(Covers(writes'[k]), dir[x])
  BY <1>1, <1>2, EraseHolds
<1>4. Held' = dir[x] /\ FreeElsewhere' = freep /\ Others' = Without(dir, x)
  BY <1>1 DEF Held, FreeElsewhere, Others
<1>5. HeldInv'
  BY <1>1, <1>3, <1>4, BetweenCalls DEF HeldInv, BlockShape
<1>6. StorageTypeOK'
  BY <1>1, <1>2, <1>3 DEF StorageInv, StorageTypeOK, Steps
<1>7. QED
  BY <1>1, <1>4, <1>5, <1>6, BetweenCalls DEF StorageInv

LEMMA PutSmallerKeeps ==
  ASSUME StorageInv, NEW x \in Names, NEW n \in Sizes, PutSmaller(x, n)
  PROVE  StorageInv'
<1> DEFINE front == [addr |-> dir[x].addr, size |-> n]
<1>0. n \in Nat /\ n > 0 /\ dir[x] \in Interval /\ dir \in Dir
  BY StorageAssumption DEF StorageInv, StorageTypeOK, Dir
<1>1. /\ Ready /\ up /\ ~readOnly /\ n < dir[x].size
      /\ dir' = [dir EXCEPT ![x].size = n]
      /\ op' = [pc |-> "front", name |-> x, size |-> n, hold |-> dir[x]]
      /\ writes' = FreeWrites(dir'[x])
      /\ UNCHANGED <<up, strays, freep, eof, readOnly>>
  BY DEF PutSmaller, Ready
<1>2. front \in Interval /\ front.size > 0 /\ Within(front, dir[x])
  BY <1>0, <1>1 DEF Interval, Within, End
<1>3. dir' \in Dir /\ dir'[x] = front /\ Without(dir', x) = Without(dir, x)
  BY <1>0, <1>1 DEF Dir, Without, Interval
<1>4. /\ writes' \in Seq(Writes)
      /\ \A k \in DOMAIN writes' : Within(Covers(writes'[k]), dir[x])
  <2> HIDE DEF front
  <2>1. QED
    BY <1>0, <1>1, <1>2, <1>3, EraseHolds
<1>5. Held' = dir[x] /\ FreeElsewhere' = freep /\ Others' = Without(dir, x)
  BY <1>1, <1>3 DEF Held, FreeElsewhere, Others
<1>6. dir[x].size > 0
  BY <1>0, <1>1 DEF Interval
<1>7. BlockShape'
  BY <1>0, <1>1 DEF BlockShape
<1>8. HeldInv'
  BY <1>1, <1>4, <1>5, <1>6, <1>7, BetweenCalls DEF HeldInv
<1>9. StorageTypeOK'
  BY <1>0, <1>1, <1>3, <1>4 DEF StorageInv, StorageTypeOK, Steps, Dir
<1>10. QED
  BY <1>1, <1>5, <1>8, <1>9, BetweenCalls DEF StorageInv

LEMMA PutLargerKeeps ==
  ASSUME StorageInv, NEW x \in Names, NEW n \in Sizes, PutLarger(x, n)
  PROVE  StorageInv'
<1>0. n \in Nat /\ n > 0 /\ dir[x] \in Interval /\ Within(dir[x], dir[x])
  BY StorageAssumption DEF StorageInv, StorageTypeOK, Within, Interval, End
<1>1. /\ Ready /\ up /\ ~readOnly /\ dir[x].size > 0
      /\ freep' = MemFree(freep, dir[x].size, dir[x].addr)
      /\ op' = [pc |-> "release", name |-> x, size |-> n, hold |-> NoStorage]
      /\ writes' = FreeWrites(dir[x])
      /\ UNCHANGED <<up, strays, dir, eof, readOnly>>
  BY <1>0 DEF PutLarger, Ready, Interval
<1>2. /\ writes' \in Seq(Writes)
      /\ \A k \in DOMAIN writes' : Within(Covers(writes'[k]), dir[x])
  BY <1>0, <1>1, EraseHolds
<1>3. Clear(dir[x], Without(dir, x), strays, freep, eof)
  BY <1>1, BetweenCalls
<1>4. freep' \in SUBSET Interval /\ WellFormed(Without(dir, x), strays, freep', eof)
  BY <1>1, <1>3, BetweenCalls, WithoutType, GiveBack
<1>5. Held' = dir[x] /\ FreeElsewhere' = {} /\ Others' = Without(dir, x)
  BY <1>1 DEF Held, FreeElsewhere, Others
<1>6. Clear(dir[x], Without(dir, x), strays, {}, eof)
  BY <1>3 DEF Clear
<1>7. HeldInv'
  BY <1>0, <1>1, <1>2, <1>5, <1>6 DEF HeldInv, BlockShape
<1>8. StorageTypeOK'
  BY <1>0, <1>1, <1>2, <1>4 DEF StorageInv, StorageTypeOK, Steps, NoStorage, Interval
<1>9. QED
  BY <1>1, <1>4, <1>5, <1>7, <1>8 DEF StorageInv

\* What is known in the middle of a call.
LEMMA InCall ==
  ASSUME StorageInv, op.pc # "idle"
  PROVE  /\ up /\ ~readOnly /\ HeldInv /\ op.name \in Names
         /\ dir \in Dir /\ strays \in SUBSET Interval /\ freep \in SUBSET Interval /\ eof \in Nat
         /\ Others \in Dir
         /\ WellFormed(Others, strays, freep, eof)
         /\ op \in [pc : Steps, name : Names \cup {Free}, size : Nat, hold : Interval]
         /\ writes \in Seq(Writes)
BY WithoutType DEF StorageInv, StorageTypeOK, HeldInv, Dir, Others

\* The halves of a block that is cut in two, both clear if the block is.
LEMMA Halves ==
  ASSUME StorageInv, op.pc \in {"front", "back", "surplus"}
  PROVE  LET front == [addr |-> op.hold.addr, size |-> op.size]
         IN /\ front \in Interval /\ front.size > 0 /\ Within(front, op.hold)
            /\ BackHalf \in Interval /\ BackHalf.size > 0 /\ Within(BackHalf, op.hold)
            /\ Apart(front, BackHalf)
            /\ Clear(front, Others, strays, freep, eof)
            /\ Clear(BackHalf, Others, strays, freep, eof)
<1> DEFINE front == [addr |-> op.hold.addr, size |-> op.size]
<1>1. /\ op.hold.addr \in Nat /\ op.hold.size \in Nat /\ op.size \in Nat
      /\ 0 < op.size /\ op.size < op.hold.size
      /\ Clear(op.hold, Others, strays, freep, eof)
  BY InCall DEF HeldInv, BlockShape, Held, FreeElsewhere, Interval
<1>2. /\ front \in Interval /\ front.size > 0 /\ Within(front, op.hold)
      /\ BackHalf \in Interval /\ BackHalf.size > 0 /\ Within(BackHalf, op.hold)
      /\ Apart(front, BackHalf)
  BY <1>1 DEF BackHalf, Interval, Within, Apart, End
<1> HIDE DEF front
<1>3. /\ Clear(front, Others, strays, freep, eof)
      /\ Clear(BackHalf, Others, strays, freep, eof)
  <2>1. /\ Others \in Dir /\ strays \in SUBSET Interval /\ freep \in SUBSET Interval
        /\ eof \in Nat
    BY InCall
  <2>2. QED
    BY <1>1, <1>2, <2>1, ClearPart
<1>4. QED
  BY <1>2, <1>3 DEF front

LEMMA FrontErasedKeeps ==
  ASSUME StorageInv, FrontErased
  PROVE  StorageInv'
<1>1. /\ op.pc = "front"
      /\ dir' = [dir EXCEPT ![op.name] = BackHalf]
      /\ op' = [op EXCEPT !.pc = "back"]
      /\ writes' = FreeWrites(BackHalf)
      /\ UNCHANGED <<up, strays, freep, eof, readOnly>>
  BY DEF FrontErased, At
<1>2. op'.pc = "back" /\ op'.name = op.name /\ op'.size = op.size /\ op'.hold = op.hold
      /\ op' \in [pc : Steps, name : Names \cup {Free}, size : Nat, hold : Interval]
  BY <1>1, InCall DEF Steps
<1>3. BackHalf \in Interval /\ BackHalf.size > 0 /\ Within(BackHalf, op.hold)
  BY <1>1, Halves
<1>4. /\ writes' \in Seq(Writes)
      /\ \A k \in DOMAIN writes' : Within(Covers(writes'[k]), op.hold)
  BY <1>1, <1>2, <1>3, InCall, EraseHolds
<1>5. dir' \in Dir /\ Others' = Others
  BY <1>1, <1>2, <1>3, InCall DEF Dir, Others, Without
<1>6. Held' = Held /\ FreeElsewhere' = FreeElsewhere /\ Held = op.hold
  BY <1>1, <1>2 DEF Held, FreeElsewhere
<1>7. HeldInv'
  BY <1>1, <1>2, <1>4, <1>5, <1>6, InCall DEF HeldInv, BlockShape
<1>8. StorageTypeOK'
  BY <1>1, <1>2, <1>4, <1>5 DEF StorageInv, StorageTypeOK, Dir
<1>9. QED
  BY <1>1, <1>2, <1>5, <1>7, <1>8, InCall DEF StorageInv

LEMMA BackErasedKeeps ==
  ASSUME StorageInv, BackErased
  PROVE  StorageInv'
<1> DEFINE front == [addr |-> op.hold.addr, size |-> op.size]
<1>1. /\ op.pc = "back"
      /\ freep' = MemFree(freep, BackHalf.size, BackHalf.addr)
      /\ dir' = [dir EXCEPT ![op.name] = front]
      /\ WriteObject(op.name, op.size, front)
      /\ UNCHANGED <<up, strays, eof, readOnly>>
  BY DEF BackErased, At
<1>2. /\ front \in Interval /\ front.size = op.size /\ Apart(front, BackHalf)
      /\ Clear(front, Others, strays, freep, eof)
      /\ Clear(BackHalf, Others, strays, freep, eof)
  BY <1>1, Halves
<1> HIDE DEF front
<1>3. /\ freep' \in SUBSET Interval
      /\ WellFormed(Others, strays, freep', eof)
      /\ Clear(front, Others, strays, freep', eof)
  BY <1>1, <1>2, InCall, GiveBack
<1>4. dir' \in Dir /\ dir'[op.name] = front /\ Without(dir', op.name) = Others
  BY <1>1, <1>2, InCall DEF Dir, Others, Without
<1>5. WriteObject(op.name, front.size, front)
  BY <1>1, <1>2
<1>6. QED
  BY <1>1, <1>3, <1>4, <1>5, InCall, WriteObjectKeeps

LEMMA ReleasedKeeps ==
  ASSUME StorageInv, Released
  PROVE  StorageInv'
<1>1. op.pc = "release" /\ Obtain(op.name, op.size, freep) /\ UNCHANGED <<up, strays, readOnly>>
  BY DEF Released, At
<1>2. op.size \in Nat \ {0}
  BY <1>1, InCall DEF HeldInv, BlockShape
<1>3. WellFormed(Without(dir, op.name), strays, freep, eof)
  BY <1>1, InCall DEF Others
<1>4. QED
  BY <1>1, <1>2, <1>3, InCall, ObtainKeeps

LEMMA SurplusErasedKeeps ==
  ASSUME StorageInv, SurplusErased
  PROVE  StorageInv'
<1> DEFINE half == [addr |-> op.hold.addr, size |-> op.size]
<1>1. /\ op.pc = "surplus"
      /\ freep' = MemFree(freep, dir[op.name].size, dir[op.name].addr)
      /\ dir' = [dir EXCEPT ![op.name] = half]
      /\ op' = [op EXCEPT !.pc = "erase", !.hold = half]
      /\ writes' = FreeWrites(half)
      /\ UNCHANGED <<up, strays, eof, readOnly>>
  BY DEF SurplusErased, At
<1>2. /\ half \in Interval /\ half.size > 0 /\ half.size = op.size /\ Apart(half, BackHalf)
      /\ Clear(half, Others, strays, freep, eof)
      /\ Clear(BackHalf, Others, strays, freep, eof)
  BY <1>1, Halves
<1> HIDE DEF half
<1>3. dir[op.name] = BackHalf
  BY <1>1, InCall DEF HeldInv, BlockShape
<1>4. /\ freep' \in SUBSET Interval
      /\ WellFormed(Others, strays, freep', eof)
      /\ Clear(half, Others, strays, freep', eof)
  BY <1>1, <1>2, <1>3, InCall, GiveBack
<1>5. op'.pc = "erase" /\ op'.name = op.name /\ op'.size = op.size /\ op'.hold = half
      /\ op' \in [pc : Steps, name : Names \cup {Free}, size : Nat, hold : Interval]
  BY <1>1, <1>2, InCall DEF Steps
<1>6. /\ writes' \in Seq(Writes)
      /\ \A k \in DOMAIN writes' : Within(Covers(writes'[k]), half)
  BY <1>1, <1>2, FreeWritesWithin
<1>7. dir' \in Dir /\ dir'[op.name] = half /\ Others' = Others
  BY <1>1, <1>2, <1>5, InCall DEF Dir, Others, Without
<1>8. Held' = half /\ FreeElsewhere' = freep'
  BY <1>5 DEF Held, FreeElsewhere
<1>9. HeldInv'
  BY <1>1, <1>2, <1>4, <1>5, <1>6, <1>7, <1>8, InCall DEF HeldInv, BlockShape
<1>10. StorageTypeOK'
  BY <1>1, <1>4, <1>5, <1>6, <1>7 DEF StorageInv, StorageTypeOK, Dir
<1>11. QED
  BY <1>1, <1>4, <1>5, <1>7, <1>9, <1>10, InCall DEF StorageInv

LEMMA ErasedKeeps ==
  ASSUME StorageInv, Erased
  PROVE  StorageInv'
<1>1. /\ op.pc = "erase" /\ WriteObject(op.name, op.size, op.hold)
      /\ UNCHANGED <<up, strays, dir, freep, eof, readOnly>>
  BY DEF Erased, At
<1>2. /\ op.size = op.hold.size /\ dir[op.name] = op.hold
      /\ Clear(op.hold, Others, strays, freep, eof)
  BY <1>1, InCall DEF HeldInv, BlockShape, Held, FreeElsewhere
<1>3. Without(dir', op.name) = Others
  BY <1>1 DEF Others
<1>4. QED
  BY <1>1, <1>2, <1>3, InCall, WriteObjectKeeps

\* The end of a call.
LEMMA StoredKeeps ==
  ASSUME StorageInv, Stored
  PROVE  StorageInv'
<1>1. /\ op.pc = "write" /\ writes = <<>> /\ op' = Idle
      /\ UNCHANGED <<up, strays, dir, freep, eof, readOnly, writes>>
  BY DEF Stored, At
<1>2. dir[op.name] = op.hold /\ Clear(op.hold, Others, strays, freep, eof)
  BY <1>1, InCall DEF HeldInv, BlockShape, Held, FreeElsewhere
<1>3. WellFormed(dir, strays, freep, eof)
  BY <1>1, <1>2, InCall, PutIn DEF Others
<1>4. Others' = dir
  BY <1>1, InCall, WithoutNobody, StorageAssumption DEF Others, Idle
<1>5. StorageTypeOK'
  BY <1>1 DEF StorageInv, StorageTypeOK, Idle, Steps, NoStorage, Interval
<1>6. QED
  BY <1>1, <1>3, <1>4, <1>5, InCall DEF StorageInv, Idle

LEMMA ReleaseKilledType ==
  ASSUME StorageInv, op.pc = "kill", ReleaseKilled
  PROVE  /\ dir' \in Dir /\ freep' \in SUBSET Interval
         /\ WellFormed(dir', strays, freep', eof)
<1>1. /\ freep' = MemFree(freep, op.hold.size, op.hold.addr)
      /\ dir' = [dir EXCEPT ![op.name] = NoStorage]
  BY DEF ReleaseKilled
<1>2. Clear(op.hold, Others, strays, freep, eof)
  BY InCall DEF HeldInv, Held, FreeElsewhere
<1>3. freep' \in SUBSET Interval /\ WellFormed(Others, strays, freep', eof)
  BY <1>1, <1>2, InCall, GiveBack
<1>4. dir' = Others /\ dir' \in Dir
  BY <1>1, InCall DEF Dir, Others, Without
<1>5. QED
  BY <1>3, <1>4

LEMMA KilledKeeps ==
  ASSUME StorageInv, Killed
  PROVE  StorageInv'
<1>1. /\ op.pc = "kill" /\ writes = <<>> /\ ReleaseKilled /\ op' = Idle
      /\ UNCHANGED <<up, strays, eof, readOnly, writes>>
  BY DEF Killed, At
<1>2. /\ dir' \in Dir /\ freep' \in SUBSET Interval
      /\ WellFormed(dir', strays, freep', eof)
  BY <1>1, ReleaseKilledType
<1>3. Others' = dir'
  BY <1>1, <1>2, WithoutNobody, StorageAssumption DEF Others, Idle
<1>4. StorageTypeOK'
  BY <1>1, <1>2 DEF StorageInv, StorageTypeOK, Idle, Steps, NoStorage, Interval, Dir
<1>5. QED
  BY <1>1, <1>2, <1>3, <1>4, InCall DEF StorageInv, Idle

\* The writes themselves.
LEMMA WriteDoneKeeps ==
  ASSUME StorageInv, WriteDone
  PROVE  StorageInv'
<1>1. /\ writes # <<>> /\ writes' = Tail(writes)
      /\ UNCHANGED <<up, strays, dir, freep, eof, readOnly, op>>
  BY DEF WriteDone
<1>2. op.pc # "idle" /\ writes \in Seq(Writes)
  BY <1>1 DEF StorageInv, StorageTypeOK
<1>3. writes' \in Seq(Writes)
  BY <1>1, <1>2
<1>4. \A k \in DOMAIN writes' : k + 1 \in DOMAIN writes /\ writes'[k] = writes[k + 1]
  BY <1>1, <1>2
<1>5. Held' = Held /\ FreeElsewhere' = FreeElsewhere /\ Others' = Others
  BY <1>1 DEF Held, FreeElsewhere, Others
<1>6. HeldInv'
  <2>1. \A k \in DOMAIN writes' : Within(Covers(writes'[k]), Held)
    BY <1>2, <1>4, InCall DEF HeldInv
  <2>2. QED
    BY <1>1, <1>2, <1>5, <2>1, InCall DEF HeldInv, BlockShape, BackHalf
<1>7. QED
  BY <1>1, <1>2, <1>3, <1>5, <1>6, InCall DEF StorageInv, StorageTypeOK

LEMMA WriteFailsKeeps ==
  ASSUME StorageInv, WriteFails
  PROVE  StorageInv'
<1>1. /\ writes # <<>> /\ readOnly' = TRUE /\ op' = Idle /\ writes' = <<>>
      /\ UNCHANGED <<up, strays, eof>>
      /\ IF op.pc = "kill" THEN ReleaseKilled ELSE UNCHANGED <<dir, freep>>
  BY DEF WriteFails
<1>2. dir' \in Dir /\ freep' \in SUBSET Interval
  BY <1>1, InCall, ReleaseKilledType DEF StorageInv, StorageTypeOK, Dir
<1>3. StorageTypeOK'
  BY <1>1, <1>2 DEF StorageInv, StorageTypeOK, Idle, Steps, NoStorage, Interval, Dir
<1>4. QED
  BY <1>1, <1>3 DEF StorageInv, Idle

\* A process that does not have the database open.
LEMMA DownIsTyped ==
  /\ FALSE \in BOOLEAN
  /\ [x \in Names |-> NoStorage] \in [Names -> Interval]
  /\ Idle \in [pc : Steps, name : Names \cup {Free}, size : Nat, hold : Interval]
  /\ <<>> \in Seq(Writes)
<1>1. NoStorage \in Interval
  BY DEF NoStorage, Interval
<1>2. QED
  BY <1>1 DEF Idle, Steps

LEMMA InitKeeps == StorageInit => StorageInv
<1> SUFFICES ASSUME StorageInit PROVE StorageInv
  OBVIOUS
<1>1. /\ up = FALSE /\ dir = [x \in Names |-> NoStorage] /\ strays = {} /\ freep = {}
      /\ eof = 0 /\ readOnly = FALSE /\ op = Idle /\ writes = <<>>
  BY DEF StorageInit, Down
<1>2. StorageTypeOK
  BY <1>1, DownIsTyped DEF StorageTypeOK
<1>3. QED
  BY <1>1, <1>2 DEF StorageInv, Idle

LEMMA HaltKeeps ==
  ASSUME StorageInv, Halt
  PROVE  StorageInv'
<1>1. /\ up' = FALSE /\ dir' = [x \in Names |-> NoStorage] /\ strays' = {} /\ freep' = {}
      /\ eof' = 0 /\ readOnly' = FALSE /\ op' = Idle /\ writes' = <<>>
  BY DEF Halt, Down
<1>2. StorageTypeOK'
  BY <1>1, DownIsTyped DEF StorageTypeOK
<1>3. QED
  BY <1>1, <1>2 DEF StorageInv, Idle

LEMMA ReopenKeeps ==
  ASSUME StorageInv, Reopen
  PROVE  StorageInv'
<1>1. op = Idle /\ writes = <<>> /\ op' = op /\ writes' = writes
  <2>1. ~up /\ op' = op /\ writes' = writes
    BY DEF Reopen
  <2>2. QED
    BY <2>1 DEF StorageInv
<1>2. StorageTypeOK'
  <2>1. up' = TRUE /\ dir' \in [Names -> Interval] /\ strays' \subseteq Interval
    BY DEF Reopen
  <2>2. freep' \subseteq Interval /\ eof' \in Nat /\ readOnly' \in BOOLEAN
    BY DEF Reopen
  <2>3. QED
    BY <1>1, <2>1, <2>2 DEF StorageInv, StorageTypeOK
<1>3. Others' = dir'
  BY <1>1, <1>2, WithoutNobody, StorageAssumption DEF Others, Idle, StorageTypeOK, Dir
<1>4. ~readOnly' => WellFormed(dir', strays', freep', eof')
  BY DEF Reopen
<1>5. QED
  BY <1>1, <1>2, <1>3, <1>4 DEF StorageInv, Idle

LEMMA StorageInvStep ==
  ASSUME StorageInv, [StorageNext]_storageVars
  PROVE  StorageInv'
<1>1. CASE StorageStep
  BY <1>1, PutSameKeeps, KillKeeps, PutSmallerKeeps, PutLargerKeeps, PutNewKeeps,
     FrontErasedKeeps, BackErasedKeeps, ReleasedKeeps, SurplusErasedKeeps, ErasedKeeps,
     StoredKeeps, KilledKeeps, WriteDoneKeeps, WriteFailsKeeps DEF StorageStep
<1>2. CASE Halt
  BY <1>2, HaltKeeps
<1>3. CASE Reopen
  BY <1>3, ReopenKeeps
<1>4. CASE UNCHANGED storageVars
  <2>1. Held' = Held /\ FreeElsewhere' = FreeElsewhere /\ Others' = Others /\ BackHalf' = BackHalf
    BY <1>4 DEF storageVars, Held, FreeElsewhere, Others, BackHalf
  <2>2. HeldInv => HeldInv'
    BY <1>4, <2>1 DEF storageVars, HeldInv, BlockShape
  <2>3. QED
    BY <1>4, <2>1, <2>2 DEF storageVars, StorageInv, StorageTypeOK
<1>5. QED
  BY <1>1, <1>2, <1>3, <1>4 DEF StorageNext

\* What holds of the blocks at every step.
LEMMA StorageInvariant == StorageSpec => []StorageInv
<1>1. StorageInit => StorageInv
  BY InitKeeps
<1>2. StorageInv /\ [StorageNext]_storageVars => StorageInv'
  BY StorageInvStep
<1>3. QED
  BY <1>1, <1>2, PTL DEF StorageSpec

\* What the process keeps of a database has its type: among others, intervals
\* never get a negative address or size.
THEOREM StorageTypeCorrect == StorageSpec => []StorageTypeOK
<1>1. StorageInv => StorageTypeOK
  BY DEF StorageInv
<1>2. QED
  BY <1>1, StorageInvariant, PTL

\* For any names, sizes and files, whatever calls, failed writes, stops and
\* restarts came before: no write of a call touches the storage of an object
\* the call is not about (db5_realloc(), db_delete(), rt_memfree()).
THEOREM WritesSpareTheOthers == StorageSpec => []WritesSpareOthers
BY HeldSpares, StorageInvariant, PTL

------------------------------------------------------------------------------
(***************************************************************************)
(* 2. What the scan gives.                                                 *)
(***************************************************************************)
\* A record the scan reads lies in the file.
LEMMA RecordFits ==
  ASSUME NEW f \in Seq(FileUnit), NEW a \in 1 .. Len(f) + 1, Get(f, a) = "record"
  PROVE  /\ a <= Len(f) /\ f[a] \in FileUnit /\ f[a].len \in Nat /\ f[a].len > 0
         /\ a + f[a].len \in a + 1 .. Len(f) + 1
         /\ f[a + f[a].len - 1].last
<1>1. Len(f) \in Nat
  OBVIOUS
<1>2. a <= Len(f)
  BY <1>1 DEF Get
<1>3. f[a] \in FileUnit /\ a \in Nat
  BY <1>1, <1>2
<1>4. f[a].len \in Nat \cup {NoHeader}
  BY <1>3 DEF FileUnit
<1>5. f[a].len \in Int
  BY <1>4 DEF NoHeader
<1>6. f[a].len # 0 /\ f[a].len > 0 /\ a + f[a].len - 1 <= Len(f) /\ f[a + f[a].len - 1].last
  BY <1>1, <1>2, <1>3, <1>5 DEF Get
<1>7. QED
  BY <1>1, <1>2, <1>3, <1>5, <1>6

\* What the scan makes of the record at a, from what it makes of the rest.
ScanStep(f, w, a) ==
  IF Get(f, a) = "record"
  THEN [at   |-> {a} \cup w[a + f[a].len].at,
        stop |-> w[a + f[a].len].stop,
        free |-> IF f[a].of = Free THEN MemFree(w[a + f[a].len].free, f[a].len, a)
                 ELSE w[a + f[a].len].free]
  ELSE [at |-> {}, stop |-> a, free |-> {}]

\* The scan of the file from any unit on: there is such a function.
LEMMA WalkExists ==
  ASSUME NEW f \in Seq(FileUnit)
  PROVE  \E w : w = [a \in 1 .. Len(f) + 1 |-> ScanStep(f, w, a)]
<1> DEFINE L == Len(f)
           P(n) == \E w : \A a \in n .. L + 1 : w[a] = ScanStep(f, w, a)
           T == {n \in 1 .. L + 1 : P(n)}
<1>1. L \in Nat
  OBVIOUS
<1>2. L + 1 \in T
  <2> DEFINE w == [a \in {L + 1} |-> [at |-> {}, stop |-> a, free |-> {}]]
  <2>1. Get(f, L + 1) # "record"
    BY <1>1 DEF Get
  <2>2. \A a \in L + 1 .. L + 1 : a = L + 1
    BY <1>1
  <2>3. w[L + 1] = ScanStep(f, w, L + 1)
    BY <2>1 DEF ScanStep
  <2> HIDE DEF w
  <2>4. \A a \in L + 1 .. L + 1 : w[a] = ScanStep(f, w, a)
    BY <2>2, <2>3, Zenon
  <2>5. P(L + 1)
    BY <2>4
  <2>6. QED
    BY <1>1, <2>5
<1>3. PICK m \in T : \A n \in T : m <= n
  <2>1. T \in SUBSET Nat
    BY <1>1
  <2>2. QED
    BY <1>2, <2>1, Least, Zenon
<1>4. PICK w : \A a \in m .. L + 1 : w[a] = ScanStep(f, w, a)
  BY <1>3
<1>5. m = 1
  <2> SUFFICES ASSUME m # 1 PROVE FALSE
    OBVIOUS
  <2> DEFINE l == m - 1
             v == [a \in l .. L + 1 |-> IF a = l THEN ScanStep(f, w, l) ELSE w[a]]
  <2>1. m \in 2 .. L + 1 /\ l \in 1 .. L
    BY <1>1, <1>3
  <2>2. ASSUME NEW a \in l .. L + 1 PROVE v[a] = ScanStep(f, v, a)
    <3>1. a \in 1 .. L + 1
      BY <1>1, <2>1
    <3>2. Get(f, a) = "record" => a + f[a].len \in m .. L + 1
      BY <1>1, <2>1, <3>1, RecordFits
    <3>3. \A b \in m .. L + 1 : v[b] = w[b]
      BY <1>1, <2>1
    <3> HIDE DEF v
    <3>4. ScanStep(f, v, a) = ScanStep(f, w, a)
      <4>1. CASE Get(f, a) = "record"
        <5>1. v[a + f[a].len] = w[a + f[a].len]
          BY <3>2, <3>3, <4>1
        <5>2. QED
          BY <5>1 DEF ScanStep
      <4>2. CASE Get(f, a) # "record"
        BY <4>2 DEF ScanStep
      <4>3. QED
        BY <4>1, <4>2
    <3>5. CASE a = l
      BY <2>1, <3>4, <3>5, <1>1 DEF v
    <3>6. CASE a # l
      <4>1. a \in m .. L + 1
        BY <1>1, <2>1, <3>6
      <4>2. QED
        BY <1>4, <3>3, <3>4, <4>1
    <3>7. QED
      BY <3>5, <3>6
  <2> HIDE DEF v
  <2>3. P(l)
    BY <2>2
  <2>4. l \in T
    BY <1>1, <2>1, <2>3
  <2> HIDE DEF T
  <2>5. QED
    BY <1>1, <1>3, <2>1, <2>4
<1> DEFINE u == [a \in 1 .. L + 1 |-> w[a]]
<1>6. ASSUME NEW a \in 1 .. L + 1 PROVE u[a] = ScanStep(f, u, a)
  <2>1. w[a] = ScanStep(f, w, a)
    BY <1>4, <1>5
  <2>2. Get(f, a) = "record" => a + f[a].len \in 1 .. L + 1
    BY <1>1, RecordFits
  <2>3. \A b \in 1 .. L + 1 : u[b] = w[b]
    OBVIOUS
  <2> HIDE DEF u
  <2>4. CASE Get(f, a) = "record"
    <3>1. u[a + f[a].len] = w[a + f[a].len]
      BY <2>2, <2>3, <2>4
    <3>2. QED
      BY <2>1, <2>3, <3>1 DEF ScanStep
  <2>5. CASE Get(f, a) # "record"
    BY <2>1, <2>3, <2>5 DEF ScanStep
  <2>6. QED
    BY <2>4, <2>5
<1>7. u = [a \in 1 .. L + 1 |-> ScanStep(f, u, a)]
  <2>1. u = [a \in 1 .. L + 1 |-> u[a]]
    OBVIOUS
  <2> HIDE DEF u
  <2>2. QED
    BY <1>6, <2>1
<1>8. QED
  BY <1>7

\* and Walk is one.
LEMMA WalkIs ==
  ASSUME NEW f \in Seq(FileUnit)
  PROVE  \A a \in 1 .. Len(f) + 1 : Walk(f)[a] = ScanStep(f, Walk(f), a)
<1> DEFINE P(w) == w = [a \in 1 .. Len(f) + 1 |-> ScanStep(f, w, a)]
<1>1. Walk(f) = CHOOSE w : P(w)
  BY Zenon DEF Walk, ScanStep
<1>2. \E w : P(w)
  BY WalkExists
<1>3. P(CHOOSE w : P(w))
  BY <1>2, Zenon
<1>4. P(Walk(f))
  BY <1>1, <1>3, Zenon
<1> DEFINE W == Walk(f)
<1>5. W = [a \in 1 .. Len(f) + 1 |-> ScanStep(f, W, a)]
  BY <1>4
<1> HIDE DEF W
<1>6. \A a \in 1 .. Len(f) + 1 : W[a] = ScanStep(f, W, a)
  BY <1>5, Zenon
<1>7. QED
  BY <1>6 DEF W

\* The units of a record that starts at a.
RecordUnits(f, a) == a .. a + f[a].len - 1

FreeAt(f, at) == {b \in at : f[b].of = Free}

\* What a scan from unit a gives: records one behind the other up to the unit
\* where there is none, and a map of exactly the free ones.
Chain(f, a, w) ==
  /\ w.stop \in a .. Len(f) + 1
  /\ Get(f, w.stop) # "record"
  /\ a \in w.at \cup {w.stop}
  /\ \A b \in w.at : /\ b \in a .. w.stop - 1
                     /\ Get(f, b) = "record"
                     /\ b + f[b].len \in w.at \cup {w.stop}
                     /\ b + f[b].len <= w.stop
  /\ \A b, c \in w.at : b < c => b + f[b].len <= c
  /\ \A u \in a .. w.stop - 1 : \E b \in w.at : u \in RecordUnits(f, b)

FreeChain(f, a, w) ==
  /\ w.free \in SUBSET Interval
  /\ Separated(w.free)
  /\ \A i \in w.free : a <= i.addr /\ End(i) <= w.stop
  /\ UnitsOf(w.free) = UNION {RecordUnits(f, b) : b \in FreeAt(f, w.at)}

\* One record more in front of what the scan finds behind it,
LEMMA ChainOnto ==
  ASSUME NEW f \in Seq(FileUnit), NEW a \in 1 .. Len(f) + 1, Get(f, a) = "record",
         NEW v, Chain(f, a + f[a].len, v),
         NEW w, w.at = {a} \cup v.at, w.stop = v.stop
  PROVE  Chain(f, a, w)
<1> DEFINE n == a + f[a].len
<1>1. /\ Len(f) \in Nat /\ a \in Nat /\ f[a].len \in Nat /\ a < n /\ n \in 1 .. Len(f) + 1
      /\ n \in Nat /\ f[a].len > 0
  BY RecordFits
<1>2. v.stop \in n .. Len(f) + 1 /\ Get(f, v.stop) # "record" /\ n \in v.at \cup {v.stop}
  BY DEF Chain
<1>3. \A b \in v.at : /\ b \in n .. v.stop - 1
                      /\ Get(f, b) = "record"
                      /\ b + f[b].len \in v.at \cup {v.stop}
                      /\ b + f[b].len <= v.stop
  BY DEF Chain
<1>4. \A b \in w.at : b = a \/ b \in v.at
  OBVIOUS
<1>5. v.stop \in Nat /\ n <= v.stop
  BY <1>1, <1>2
<1> HIDE DEF n
<1>6. w.stop \in a .. Len(f) + 1 /\ Get(f, w.stop) # "record" /\ a \in w.at \cup {w.stop}
  BY <1>1, <1>2
<1>7. ASSUME NEW b \in w.at
      PROVE  /\ b \in a .. w.stop - 1
             /\ Get(f, b) = "record"
             /\ b + f[b].len \in w.at \cup {w.stop}
             /\ b + f[b].len <= w.stop
  <2>1. CASE b = a
    <3>1. b + f[b].len = n
      BY <2>1 DEF n
    <3>2. QED
      BY <1>1, <1>2, <1>5, <2>1, <3>1
  <2>2. CASE b \in v.at
    <3>1. b \in n .. v.stop - 1 /\ Get(f, b) = "record" /\ b + f[b].len \in v.at \cup {v.stop}
          /\ b + f[b].len <= v.stop
      BY <1>3, <2>2
    <3>2. b \in a .. w.stop - 1
      BY <1>1, <1>5, <3>1
    <3>3. QED
      BY <3>1, <3>2
  <2>3. QED
    BY <1>4, <2>1, <2>2
<1>8. ASSUME NEW b \in w.at, NEW c \in w.at, b < c PROVE b + f[b].len <= c
  <2>1. CASE b = a
    <3>1. c # a
      BY <1>1, <1>8, <2>1
    <3>2. c \in n .. v.stop - 1
      BY <1>3, <1>4, <3>1
    <3>3. b + f[b].len = n
      BY <2>1 DEF n
    <3>4. QED
      BY <1>1, <1>5, <3>2, <3>3
  <2>2. CASE b # a
    <3>1. b \in v.at /\ b \in n .. v.stop - 1
      BY <1>3, <1>4, <2>2
    <3>2. c # a
      BY <1>1, <1>5, <1>8, <3>1
    <3>3. c \in v.at
      BY <1>4, <3>2
    <3>4. QED
      BY <1>8, <3>1, <3>3 DEF Chain
  <2>3. QED
    BY <2>1, <2>2
<1>9. ASSUME NEW u \in a .. w.stop - 1 PROVE \E b \in w.at : u \in RecordUnits(f, b)
  <2>1. CASE u < n
    <3>1. u \in a .. a + f[a].len - 1
      BY <1>1, <1>5, <2>1 DEF n
    <3>2. u \in RecordUnits(f, a)
      BY <3>1 DEF RecordUnits
    <3>3. QED
      BY <3>2
  <2>2. CASE ~(u < n)
    <3>1. u \in n .. v.stop - 1
      BY <1>1, <1>5, <2>2
    <3>2. \E b \in v.at : u \in RecordUnits(f, b)
      BY <3>1 DEF Chain, n
    <3>3. QED
      BY <3>2
  <2>3. QED
    BY <2>1, <2>2
<1>10. QED
  BY <1>6, <1>7, <1>8, <1>9 DEF Chain

\* a free one too, which rt_memfree() takes,
LEMMA FreeOnto ==
  ASSUME NEW f \in Seq(FileUnit), NEW a \in 1 .. Len(f) + 1, Get(f, a) = "record",
         f[a].of = Free,
         NEW v, v.stop \in a + f[a].len .. Len(f) + 1, FreeChain(f, a + f[a].len, v),
         NEW w, w.at = {a} \cup v.at, w.stop = v.stop,
         w.free = MemFree(v.free, f[a].len, a)
  PROVE  FreeChain(f, a, w)
<1>1. /\ Len(f) \in Nat /\ a \in Nat /\ f[a].len \in Nat /\ f[a].len > 0 /\ v.stop \in Nat
      /\ a + f[a].len <= v.stop
  <2>1. a \in Nat /\ f[a].len \in Nat /\ f[a].len > 0 /\ Len(f) \in Nat
    BY RecordFits
  <2>2. \A s, n, m \in Nat : \A t \in s + n .. m + 1 : t \in Nat /\ s + n <= t
    OBVIOUS
  <2>3. QED
    BY <2>1, <2>2
<1>2. /\ v.free \in SUBSET Interval /\ Separated(v.free)
      /\ \A i \in v.free : a + f[a].len <= i.addr /\ End(i) <= v.stop
      /\ UnitsOf(v.free) = UNION {RecordUnits(f, b) : b \in FreeAt(f, v.at)}
  BY DEF FreeChain
<1>3. w.free \in SUBSET Interval /\ Separated(w.free)
  BY <1>1, <1>2, MemFreeSeparated
<1>4. \A i \in w.free : a <= i.addr /\ End(i) <= w.stop
  <2>1. \A i \in v.free : a <= i.addr /\ End(i) <= v.stop
    BY <1>1, <1>2 DEF Interval
  <2>2. a <= a
    BY <1>1
  <2>3. \A i \in MemFree(v.free, f[a].len, a) : a <= i.addr /\ End(i) <= v.stop
    BY <1>1, <1>2, <2>1, <2>2, MemFreeApart
  <2>4. QED
    BY <2>3
<1>5. ~Refused(v.free, f[a].len, a)
  <2>1. \A i \in v.free : Apart([addr |-> a, size |-> f[a].len], i)
    BY <1>2 DEF Apart, End
  <2>2. QED
    BY <1>1, <1>2, <2>1, RefusedIff
<1>6. UnitsOf(w.free) = UnitsOf(v.free) \cup RecordUnits(f, a)
  BY <1>1, <1>2, <1>5, MemFreeUnits DEF RecordUnits
<1>7. FreeAt(f, w.at) = {a} \cup FreeAt(f, v.at)
  BY DEF FreeAt
<1>8. QED
  BY <1>2, <1>3, <1>4, <1>6, <1>7 DEF FreeChain

\* and one in use leaves the map as it is.
LEMMA UsedOnto ==
  ASSUME NEW f \in Seq(FileUnit), NEW a \in 1 .. Len(f) + 1, Get(f, a) = "record",
         f[a].of # Free,
         NEW v, FreeChain(f, a + f[a].len, v),
         NEW w, w.at = {a} \cup v.at, w.stop = v.stop, w.free = v.free
  PROVE  FreeChain(f, a, w)
<1>1. a \in Nat /\ f[a].len \in Nat
  BY RecordFits
<1>2. \A i \in w.free : a <= i.addr
  BY <1>1 DEF FreeChain, Interval
<1>3. FreeAt(f, w.at) = FreeAt(f, v.at)
  BY DEF FreeAt
<1>4. QED
  BY <1>2, <1>3 DEF FreeChain

\* Nothing is found where there is no record.
LEMMA ChainEnds ==
  ASSUME NEW f \in Seq(FileUnit), NEW a \in 1 .. Len(f) + 1, Get(f, a) # "record",
         NEW w, w.at = {}, w.stop = a, w.free = {}
  PROVE  Chain(f, a, w) /\ FreeChain(f, a, w)
<1>1. Chain(f, a, w)
  BY DEF Chain
<1>2. FreeAt(f, w.at) = {} /\ UnitsOf(w.free) = {}
  BY DEF FreeAt, UnitsOf
<1>3. FreeChain(f, a, w)
  BY <1>2 DEF FreeChain, Separated
<1>4. QED
  BY <1>1, <1>3

\* The scan of any file is such a chain.
LEMMA WalkChains ==
  ASSUME NEW f \in Seq(FileUnit)
  PROVE  \A a \in 1 .. Len(f) + 1 : Chain(f, a, Walk(f)[a]) /\ FreeChain(f, a, Walk(f)[a])
<1> DEFINE w == Walk(f)
           P(a) == Chain(f, a, w[a]) /\ FreeChain(f, a, w[a])
           T == {a \in 1 .. Len(f) + 1 : ~P(a)}
<1>1. Len(f) \in Nat
  OBVIOUS
<1>2. \A a \in 1 .. Len(f) + 1 : w[a] = ScanStep(f, w, a)
  BY WalkIs
<1> HIDE DEF w
<1>3. SUFFICES ASSUME T # {} PROVE FALSE
  BY DEF w
<1>4. PICK a \in T : \A b \in T : b <= a
  <2>1. T \in SUBSET Nat /\ \A b \in T : b <= Len(f) + 1
    BY <1>1
  <2>2. Len(f) + 1 \in Nat
    BY <1>1
  <2> HIDE DEF T
  <2>3. QED
    BY <1>3, <2>1, <2>2, Greatest
<1>5. a \in 1 .. Len(f) + 1 /\ w[a] = ScanStep(f, w, a) /\ ~P(a)
  BY <1>2, <1>4
<1>6. CASE Get(f, a) # "record"
  <2>1. w[a].at = {} /\ w[a].stop = a /\ w[a].free = {}
    BY <1>5, <1>6 DEF ScanStep
  <2>2. QED
    BY <1>5, <1>6, <2>1, ChainEnds
<1>7. CASE Get(f, a) = "record"
  <2> DEFINE n == a + f[a].len
  <2>1. n \in a + 1 .. Len(f) + 1 /\ n \in 1 .. Len(f) + 1
    BY <1>1, <1>5, <1>7, RecordFits
  <2>2. P(n)
    <3>1. n \notin T
      BY <1>1, <1>4, <1>5, <2>1
    <3>2. QED
      BY <2>1, <3>1
  <2>3. /\ w[a].at = {a} \cup w[n].at /\ w[a].stop = w[n].stop
        /\ w[a].free = IF f[a].of = Free THEN MemFree(w[n].free, f[a].len, a) ELSE w[n].free
    BY <1>5, <1>7 DEF ScanStep
  <2>4. Chain(f, a, w[a])
    BY <1>5, <1>7, <2>2, <2>3, ChainOnto
  <2>5. w[n].stop \in n .. Len(f) + 1
    BY <2>2 DEF Chain
  <2>6. FreeChain(f, a, w[a])
    BY <1>5, <1>7, <2>2, <2>3, <2>5, FreeOnto, UsedOnto
  <2>7. QED
    BY <1>5, <2>4, <2>6
<1>8. QED
  BY <1>6, <1>7

\* db5_scan() itself.
LEMMA ScanChains ==
  ASSUME NEW f \in Seq(FileUnit)
  PROVE  Chain(f, 1, Scan(f)) /\ FreeChain(f, 1, Scan(f))
<1>1. 1 \in 1 .. Len(f) + 1
  OBVIOUS
<1>2. QED
  BY <1>1, WalkChains DEF Scan

\* A record as storage.
LEMMA RecordTyped ==
  ASSUME NEW f \in Seq(FileUnit), NEW a \in Scan(f).at
  PROVE  /\ a \in Nat /\ a > 0 /\ a <= Len(f) /\ a < Scan(f).stop
         /\ f[a] \in FileUnit /\ f[a].len \in Nat /\ f[a].len > 0
         /\ RecordAt(f, a) \in Interval /\ RecordAt(f, a).size > 0 /\ RecordAt(f, a).addr = a
         /\ End(RecordAt(f, a)) = a + f[a].len /\ End(RecordAt(f, a)) <= Scan(f).stop
         /\ Units(RecordAt(f, a)) = RecordUnits(f, a)
         /\ Scan(f).stop \in Nat
<1>1. /\ Scan(f).stop \in 1 .. Len(f) + 1
      /\ a \in 1 .. Scan(f).stop - 1
      /\ Get(f, a) = "record"
      /\ a + f[a].len <= Scan(f).stop
  BY ScanChains DEF Chain
<1>2. Len(f) \in Nat
  OBVIOUS
<1>3. a \in 1 .. Len(f) + 1 /\ Scan(f).stop \in Nat /\ a \in Nat /\ a > 0 /\ a < Scan(f).stop
  BY <1>1, <1>2
<1>4. a <= Len(f) /\ f[a] \in FileUnit /\ f[a].len \in Nat /\ f[a].len > 0
  BY <1>1, <1>3, RecordFits
<1>5. QED
  BY <1>1, <1>3, <1>4 DEF RecordAt, Interval, End, Units, RecordUnits

\* The least of some addresses.
LEMMA MinIs ==
  ASSUME NEW T \in SUBSET Nat, T # {}
  PROVE  Min(T) \in T /\ \A y \in T : Min(T) <= y
<1>1. \E x \in T : \A y \in T : x <= y
  BY Least
<1>2. QED
  BY <1>1 DEF Min

\* Two blocks without a common unit.
LEMMA DisjointApart ==
  ASSUME NEW i \in Interval, NEW j \in Interval, i.size > 0, j.size > 0,
         Units(i) \cap Units(j) = {}
  PROVE  Apart(i, j)
<1>1. i.addr \in Nat /\ j.addr \in Nat /\ i.size \in Nat /\ j.size \in Nat
  BY DEF Interval
<1>2. i.addr \notin Units(j) /\ j.addr \notin Units(i)
  BY <1>1 DEF Units, End
<1>3. QED
  BY <1>1, <1>2 DEF Units, End, Apart

\* Two records the scan reads have no unit in common,
LEMMA RecordsApart ==
  ASSUME NEW f \in Seq(FileUnit), NEW a \in Scan(f).at, NEW b \in Scan(f).at, a # b
  PROVE  Apart(RecordAt(f, a), RecordAt(f, b))
<1>1. a \in Nat /\ b \in Nat
  BY RecordTyped
<1>2. (a < b => a + f[a].len <= b) /\ (b < a => b + f[b].len <= a)
  BY ScanChains DEF Chain
<1>3. QED
  BY <1>1, <1>2 DEF Apart, RecordAt, End

\* nor have a record in use and free storage.
LEMMA UsedFreeApart ==
  ASSUME NEW f \in Seq(FileUnit), NEW a \in Scan(f).at, f[a].of # Free,
         NEW i \in FreeStorage(f)
  PROVE  Apart(RecordAt(f, a), i)
<1>1. /\ i \in Interval /\ i.size > 0
      /\ UnitsOf(FreeStorage(f)) = UNION {RecordUnits(f, b) : b \in FreeAt(f, Scan(f).at)}
  BY ScanChains DEF FreeChain, FreeStorage, Separated
<1>2. RecordAt(f, a) \in Interval /\ RecordAt(f, a).size > 0
  BY RecordTyped
<1>3. ASSUME NEW u \in Units(i), u \in Units(RecordAt(f, a)) PROVE FALSE
  <2>1. u \in UnitsOf(FreeStorage(f))
    BY DEF UnitsOf
  <2>2. PICK b \in FreeAt(f, Scan(f).at) : u \in RecordUnits(f, b)
    BY <1>1, <2>1
  <2>3. b \in Scan(f).at /\ b # a
    BY DEF FreeAt
  <2>4. Apart(RecordAt(f, a), RecordAt(f, b)) /\ u \in Units(RecordAt(f, b))
    BY <2>2, <2>3, RecordsApart, RecordTyped
  <2>5. RecordAt(f, b) \in Interval
    BY <2>3, RecordTyped
  <2>6. QED
    BY <1>2, <1>3, <2>4, <2>5 DEF Apart, Units, End, Interval
<1>4. QED
  BY <1>1, <1>2, <1>3, DisjointApart

\* db5_diradd_handler(): the entry of a name is its first record.
LEMMA DirectoryEntry ==
  ASSUME NEW f \in Seq(FileUnit), NEW x \in Names
  PROVE  /\ Directory(f)[x] \in Interval
         /\ Directory(f)[x].size > 0 =>
              \E a \in Scan(f).at : f[a].of = x /\ Directory(f)[x] = RecordAt(f, a)
         /\ \A a \in Scan(f).at :
              f[a].of = x => Directory(f)[x].size > 0 /\ Directory(f)[x].addr <= a
<1> DEFINE T == {a \in Scan(f).at : f[a].of = x}
<1>1. Directory(f)[x] = IF T = {} THEN NoStorage ELSE RecordAt(f, Min(T))
  BY DEF Directory
<1>2. T \in SUBSET Nat
  BY RecordTyped
<1>3. CASE T = {}
  <2>1. Directory(f)[x] = NoStorage
    BY <1>1, <1>3
  <2>2. QED
    BY <1>3, <2>1 DEF NoStorage, Interval
<1>4. CASE T # {}
  <2>1. Min(T) \in T /\ \A y \in T : Min(T) <= y
    BY <1>2, <1>4, MinIs
  <2>2. Directory(f)[x] = RecordAt(f, Min(T))
    BY <1>1, <1>4
  <2> DEFINE m == Min(T)
  <2>3. m \in Scan(f).at /\ f[m].of = x /\ \A y \in T : m <= y
    BY <2>1
  <2>4. RecordAt(f, m) \in Interval /\ RecordAt(f, m).size > 0 /\ RecordAt(f, m).addr = m
    BY <2>3, RecordTyped
  <2> HIDE DEF m
  <2>5. Directory(f)[x] = RecordAt(f, m)
    BY <2>2 DEF m
  <2>6. QED
    BY <2>3, <2>4, <2>5
<1>5. QED
  BY <1>3, <1>4

\* A stray is a record that is not the first of its name.
LEMMA StrayRecord ==
  ASSUME NEW f \in Seq(FileUnit), NEW i \in Strays(f)
  PROVE  \E a \in Scan(f).at : /\ i = RecordAt(f, a) /\ f[a].of \in Names
                               /\ Directory(f)[f[a].of].addr # a
<1>1. PICK a \in Scan(f).at : /\ i = RecordAt(f, a) /\ f[a].of # Free
                              /\ Directory(f)[f[a].of].addr # a
  BY DEF Strays
<1>2. f[a].of \in Names
  BY <1>1, RecordTyped DEF FileUnit
<1>3. QED
  BY <1>1, <1>2

\* What a scan gives is well-formed, whatever the file.
LEMMA ScanWellFormed ==
  ASSUME NEW f \in Seq(FileUnit)
  PROVE  /\ Directory(f) \in [Names -> Interval]
         /\ Strays(f) \in SUBSET Interval
         /\ FreeStorage(f) \in SUBSET Interval
         /\ EofFound(f) \in Nat /\ EofFound(f) <= Len(f) + 1
         /\ WellFormed(Directory(f), Strays(f), FreeStorage(f), EofFound(f))
<1> DEFINE d == Directory(f)
           s == Strays(f)
           g == FreeStorage(f)
           e == EofFound(f)
           stop == Scan(f).stop
<1>1. stop \in 1 .. Len(f) + 1 /\ Len(f) \in Nat
  BY ScanChains DEF Chain
<1>2. e \in Nat /\ e > 0 /\ stop <= e /\ e <= Len(f) + 1
  <2>1. CASE Get(f, stop) = "short"
    <3>1. e = stop + 1
      BY <2>1 DEF EofFound
    <3>2. stop <= Len(f)
      BY <1>1, <2>1 DEF Get
    <3>3. QED
      BY <1>1, <3>1, <3>2
  <2>2. CASE Get(f, stop) # "short"
    <3>1. e = stop
      BY <2>2 DEF EofFound
    <3>2. QED
      BY <1>1, <3>1
  <2>3. QED
    BY <2>1, <2>2
<1>3. d \in [Names -> Interval]
  <2>1. d = [x \in Names |-> d[x]]
    BY DEF Directory
  <2>2. QED
    BY <2>1, DirectoryEntry
<1>4. \A x \in Names : d[x].size > 0 =>
        \E a \in Scan(f).at : f[a].of = x /\ d[x] = RecordAt(f, a)
  BY DirectoryEntry
<1>5. \A i \in s : \E a \in Scan(f).at : /\ i = RecordAt(f, a) /\ f[a].of \in Names
                                         /\ d[f[a].of].addr # a
  BY StrayRecord
<1>6. s \in SUBSET Interval
  BY <1>5, RecordTyped
<1>7. g \in SUBSET Interval /\ Separated(g) /\ \A i \in g : 1 <= i.addr /\ End(i) <= stop
  BY ScanChains DEF FreeChain, FreeStorage
<1>8. \A i \in g : i \in Interval /\ i.addr > 0 /\ End(i) <= e
  BY <1>1, <1>2, <1>7 DEF Interval, End
<1>9. \A a \in Scan(f).at : /\ RecordAt(f, a).addr = a /\ RecordAt(f, a).size > 0 /\ a > 0
                            /\ End(RecordAt(f, a)) \in Nat /\ End(RecordAt(f, a)) <= stop
  BY RecordTyped DEF End, Interval
<1>10. \A a \in Scan(f).at : End(RecordAt(f, a)) <= e
  BY <1>1, <1>2, <1>9
<1>11. \A x \in Names : x # Free
  BY StorageAssumption
<1> HIDE DEF d, s, g, e, stop
<1>12. \A x \in Names : d[x].size > 0 =>
         d[x].addr > 0 /\ End(d[x]) <= e /\ \A i \in g : Apart(d[x], i)
  BY <1>4, <1>9, <1>10, <1>11, UsedFreeApart DEF g
<1>13. \A x, y \in Names : x # y /\ d[x].size > 0 /\ d[y].size > 0 => Apart(d[x], d[y])
  <2> SUFFICES ASSUME NEW x \in Names, NEW y \in Names, x # y, d[x].size > 0, d[y].size > 0
               PROVE  Apart(d[x], d[y])
    OBVIOUS
  <2>1. PICK a \in Scan(f).at : f[a].of = x /\ d[x] = RecordAt(f, a)
    BY <1>4
  <2>2. PICK b \in Scan(f).at : f[b].of = y /\ d[y] = RecordAt(f, b)
    BY <1>4
  <2>3. QED
    BY <2>1, <2>2, RecordsApart
<1>14. \A i \in s : i.size > 0 /\ i.addr > 0 /\ End(i) <= e /\ \A j \in g : Apart(i, j)
  BY <1>5, <1>9, <1>10, <1>11, UsedFreeApart DEF g
<1>15. \A i \in s : \A x \in Names : d[x].size > 0 => Apart(i, d[x])
  <2> SUFFICES ASSUME NEW i \in s, NEW x \in Names, d[x].size > 0 PROVE Apart(i, d[x])
    OBVIOUS
  <2>1. PICK a \in Scan(f).at : i = RecordAt(f, a) /\ f[a].of \in Names /\ d[f[a].of].addr # a
    BY <1>5
  <2>2. PICK b \in Scan(f).at : f[b].of = x /\ d[x] = RecordAt(f, b)
    BY <1>4
  <2>3. a # b
    BY <1>9, <2>1, <2>2
  <2>4. QED
    BY <2>1, <2>2, <2>3, RecordsApart
<1>16. \A i, j \in s : i # j => Apart(i, j)
  <2> SUFFICES ASSUME NEW i \in s, NEW j \in s, i # j PROVE Apart(i, j)
    OBVIOUS
  <2>1. PICK a \in Scan(f).at : i = RecordAt(f, a)
    BY <1>5
  <2>2. PICK b \in Scan(f).at : j = RecordAt(f, b)
    BY <1>5
  <2>3. QED
    BY <2>1, <2>2, RecordsApart
<1>17. WellFormed(d, s, g, e)
  <2>1. \A i \in g : i.addr > 0 /\ End(i) <= e
    BY <1>8
  <2>2. QED
    BY <1>2, <1>7, <1>12, <1>13, <1>14, <1>15, <1>16, <2>1 DEF WellFormed
<1>18. QED
  BY <1>2, <1>3, <1>6, <1>7, <1>17 DEF d, s, g, e

------------------------------------------------------------------------------
(***************************************************************************)
(* 3. What the writes leave in the file.                                   *)
(***************************************************************************)
\* What each db_write() of a call is.
WriteShape(w) ==
  \/ w.part = "whole" /\ w.size = w.len /\ w.len > 0
  \/ w.part = "header" /\ w.size = 2 /\ w.len > 2
  \/ w.part = "trailer" /\ w.size = 1 /\ w.len > 2

\* The write of the object into the storage that was found for it.
ObjectWrite == Write(op.hold.addr, op.size, op.name, op.size, "whole")

\* Memory and file: the end of the file in memory is not beyond the file,
\* unless the one write is still to come that takes the file there.
FileInv ==
  /\ file \in Seq(FileUnit)
  /\ kept \in [Names -> Interval]
  /\ cut \in Nat
  /\ \A k \in DOMAIN writes : WriteShape(writes[k])
  /\ op.pc = "write" => writes \in {<<>>, <<ObjectWrite>>}
  /\ up /\ ~readOnly => \/ eof <= Len(file) + 1
                        \/ /\ op.pc = "write" /\ writes = <<ObjectWrite>>
                           /\ op.hold.addr <= Len(file) + 1 /\ End(op.hold) = eof
  /\ op.pc = "write" /\ writes = <<>> => InFile(file, op.name, op.hold)

\* Objects no call is about are in the file, at their addresses.
KeptInv ==
  \A x \in Names : kept[x].size > 0 =>
    /\ InFile(file, x, kept[x])
    /\ kept[x].addr > 0
    /\ up /\ ~readOnly => x # op.name /\ dir[x] = kept[x]

DataInv == StorageInv /\ FileInv /\ KeptInv

------------------------------------------------------------------------------
LEMMA UnitTyped ==
  ASSUME NEW of \in Names \cup {Free}, NEW len \in Nat \cup {NoHeader}, NEW last \in BOOLEAN
  PROVE  Unit(of, len, last) \in FileUnit
BY DEF Unit, FileUnit

\* The units of a record.
LEMMA RecordIs ==
  ASSUME NEW of \in Names \cup {Free}, NEW n \in Nat
  PROVE  /\ Record(of, n) \in Seq(FileUnit) /\ Len(Record(of, n)) = n
         /\ \A i \in 1 .. n : Record(of, n)[i] = Unit(of, IF i = 1 THEN n ELSE NoHeader, i = n)
<1>1. \A i \in 1 .. n : Unit(of, IF i = 1 THEN n ELSE NoHeader, i = n) \in FileUnit
  BY UnitTyped
<1> DEFINE g(i) == Unit(of, IF i = 1 THEN n ELSE NoHeader, i = n)
<1>2. Record(of, n) = [i \in 1 .. n |-> g(i)]
  BY DEF Record
<1>3. \A i \in 1 .. n : g(i) \in FileUnit
  BY <1>1
<1>4. \A i \in 1 .. n : Record(of, n)[i] = g(i)
  BY <1>2
<1> HIDE DEF g
<1>5. Record(of, n) \in Seq(FileUnit) /\ Len(Record(of, n)) = n
  BY <1>2, <1>3
<1>6. QED
  BY <1>4, <1>5 DEF g

\* The units a write puts into the file.
LEMMA ImageTyped ==
  ASSUME NEW f \in Seq(FileUnit), NEW w \in Writes, WriteShape(w),
         w.part = "trailer" => w.addr \in 1 .. Len(f)
  PROVE  /\ \A j \in 1 .. w.size : Image(f, w)[j] \in FileUnit
         /\ w.part \in {"whole", "header"} =>
              \A j \in 1 .. w.size : Image(f, w)[j] = Record(w.of, w.len)[j]
<1>1. w.of \in Names \cup {Free} /\ w.len \in Nat /\ w.size \in Nat /\ w.addr \in Nat
  BY DEF Writes
<1>2. CASE w.part = "whole"
  <2> DEFINE r == Record(w.of, w.len)
  <2>1. w.size = w.len /\ Image(f, w) = r
    BY <1>2 DEF WriteShape, Image
  <2>2. r \in Seq(FileUnit) /\ Len(r) = w.len
    BY <1>1, RecordIs
  <2> HIDE DEF r
  <2>3. \A j \in 1 .. w.size : r[j] \in FileUnit
    BY <2>1, <2>2
  <2>4. QED
    BY <2>1, <2>3 DEF r
<1>3. CASE w.part = "header"
  <2> DEFINE r == Record(w.of, w.len)
  <2>1. w.size = 2 /\ w.len > 2 /\ Image(f, w) = SubSeq(r, 1, 2)
    BY <1>3 DEF WriteShape, Image
  <2>2. r \in Seq(FileUnit) /\ Len(r) = w.len
    BY <1>1, RecordIs
  <2> HIDE DEF r
  <2>3. \A j \in 1 .. 2 : SubSeq(r, 1, 2)[j] = r[j] /\ r[j] \in FileUnit
    BY <1>1, <2>1, <2>2
  <2>4. QED
    BY <2>1, <2>3 DEF r
<1>4. CASE w.part = "trailer"
  <2> DEFINE u == f[w.addr]
  <2>1. w.size = 1 /\ Image(f, w) = <<[u EXCEPT !.last = TRUE]>>
    BY <1>4 DEF WriteShape, Image
  <2>2. u \in FileUnit
    BY <1>4
  <2> HIDE DEF u
  <2>3. [u EXCEPT !.last = TRUE] \in FileUnit
    BY <2>2 DEF FileUnit
  <2>4. QED
    BY <1>4, <2>1, <2>3
<1>5. QED
  BY <1>2, <1>3, <1>4 DEF Writes

\* The file after a write, or a part of one.
LEMMA WrittenIs ==
  ASSUME NEW f \in Seq(FileUnit), NEW w \in Writes, WriteShape(w), NEW k \in 0 .. w.size,
         w.addr \in 1 .. Len(f) + 1, w.part = "trailer" => w.addr <= Len(f)
  PROVE  /\ Written(f, w, k) \in Seq(FileUnit)
         /\ Len(Written(f, w, k)) = IF k > 0 /\ w.addr + k - 1 > Len(f)
                                    THEN w.addr + k - 1 ELSE Len(f)
         /\ \A i \in w.addr .. w.addr + k - 1 :
              Written(f, w, k)[i] = Image(f, w)[i - w.addr + 1]
         /\ \A i \in 1 .. Len(f) :
              i \notin w.addr .. w.addr + k - 1 => Written(f, w, k)[i] = f[i]
<1> DEFINE end == w.addr + k - 1
           n == IF k > 0 /\ end > Len(f) THEN end ELSE Len(f)
           g(i) == IF i \in w.addr .. end THEN Image(f, w)[i - w.addr + 1] ELSE f[i]
<1>1. Written(f, w, k) = [i \in 1 .. n |-> g(i)]
  BY DEF Written
<1>2. w.addr \in Nat /\ w.size \in Nat /\ k \in Nat /\ Len(f) \in Nat /\ k <= w.size
  BY DEF Writes
<1>3. end \in Int /\ n \in Nat /\ Len(f) <= n /\ (end > Len(f) => k > 0 /\ n = end)
  BY <1>2
<1>4. ASSUME NEW i \in 1 .. n PROVE g(i) \in FileUnit
  <2>1. CASE i \in w.addr .. end
    <3>1. i - w.addr + 1 \in 1 .. w.size
      BY <1>2, <2>1
    <3>2. Image(f, w)[i - w.addr + 1] \in FileUnit
      BY <1>2, <3>1, ImageTyped
    <3>3. QED
      BY <2>1, <3>2
  <2>2. CASE i \notin w.addr .. end
    <3>1. i \in 1 .. Len(f)
      BY <1>2, <1>3, <2>2
    <3>2. QED
      BY <2>2, <3>1
  <2>3. QED
    BY <2>1, <2>2
<1>5. \A i \in 1 .. n : Written(f, w, k)[i] = g(i)
  BY <1>1
<1>6. \A i \in w.addr .. end : i \in 1 .. n /\ g(i) = Image(f, w)[i - w.addr + 1]
  BY <1>2, <1>3
<1>7. \A i \in 1 .. Len(f) : i \in 1 .. n /\ (i \notin w.addr .. end => g(i) = f[i])
  BY <1>2, <1>3
<1> HIDE DEF g
<1>8. Written(f, w, k) \in Seq(FileUnit) /\ Len(Written(f, w, k)) = n
  <2> HIDE DEF n
  <2>1. QED
    BY <1>1, <1>3, <1>4
<1>9. QED
  BY <1>5, <1>6, <1>7, <1>8

\* A record elsewhere is not touched by a write.
LEMMA OthersUntouched ==
  ASSUME NEW f \in Seq(FileUnit), NEW w \in Writes, WriteShape(w), NEW k \in 0 .. w.size,
         w.addr \in 1 .. Len(f) + 1, w.part = "trailer" => w.addr <= Len(f),
         NEW x, NEW e \in Interval, e.addr > 0, Apart(Covers(w), e), InFile(f, x, e)
  PROVE  InFile(Written(f, w, k), x, e)
<1>1. /\ w.addr \in Nat /\ w.size \in Nat /\ k \in Nat /\ k <= w.size /\ Len(f) \in Nat
      /\ e.addr \in Nat /\ e.size \in Nat
  BY DEF Writes, Interval
<1>2. ASSUME NEW i \in Units(e)
      PROVE  i <= Len(Written(f, w, k)) /\ Written(f, w, k)[i] = f[i]
  <2>1. i <= Len(f)
    BY DEF InFile
  <2>2. i \in 1 .. Len(f) /\ i \notin w.addr .. w.addr + k - 1
    BY <1>1, <2>1 DEF Units, End, Apart, Covers
  <2>3. Len(f) <= Len(Written(f, w, k))
    BY <1>1, WrittenIs
  <2>4. Len(Written(f, w, k)) \in Nat
    BY WrittenIs
  <2>5. QED
    BY <1>1, <2>1, <2>2, <2>3, <2>4, WrittenIs
<1>3. QED
  BY <1>2 DEF InFile

\* An object is in the file when it has been written.
LEMMA ObjectIsWritten ==
  ASSUME NEW f \in Seq(FileUnit), NEW x \in Names, NEW e \in Interval, e.size > 0,
         e.addr \in 1 .. Len(f) + 1,
         NEW w, w = Write(e.addr, e.size, x, e.size, "whole")
  PROVE  /\ InFile(Written(f, w, w.size), x, e)
         /\ End(e) <= Len(Written(f, w, w.size)) + 1
<1>1. /\ w \in Writes /\ WriteShape(w) /\ w.addr = e.addr /\ w.size = e.size
      /\ w.part = "whole" /\ w.of = x /\ w.len = e.size
  BY DEF Write, Writes, WriteShape, Interval
<1>2. e.addr \in Nat /\ e.size \in Nat /\ Len(f) \in Nat /\ w.size \in 0 .. w.size
  BY <1>1 DEF Interval
<1> DEFINE g == Written(f, w, w.size)
<1>3. /\ Len(g) = IF w.addr + w.size - 1 > Len(f) THEN w.addr + w.size - 1 ELSE Len(f)
      /\ \A i \in w.addr .. w.addr + w.size - 1 : g[i] = Image(f, w)[i - w.addr + 1]
  BY <1>1, <1>2, WrittenIs
<1> HIDE DEF g
<1>4. ASSUME NEW i \in Units(e) PROVE i <= Len(g) /\ g[i] = Record(x, e.size)[i - e.addr + 1]
  <2>1. i \in w.addr .. w.addr + w.size - 1 /\ i - e.addr + 1 \in 1 .. w.size
    BY <1>1, <1>2 DEF Units, End
  <2>2. Image(f, w)[i - e.addr + 1] = Record(x, e.size)[i - e.addr + 1]
    BY <1>1, <2>1, ImageTyped
  <2>3. QED
    BY <1>1, <1>2, <1>3, <2>1, <2>2
<1>5. InFile(g, x, e)
  BY <1>4 DEF InFile
<1>6. End(e) <= Len(g) + 1
  BY <1>1, <1>2, <1>3 DEF End
<1>7. QED
  BY <1>5, <1>6 DEF g

\* The writes that make a free record are db_write() calls of db5_write_free().
LEMMA FreeWriteShapes ==
  ASSUME NEW e \in Interval, e.size > 0
  PROVE  /\ FreeWrites(e) \in Seq(Writes)
         /\ \A k \in DOMAIN FreeWrites(e) : WriteShape(FreeWrites(e)[k])
<1>1. FreeWrites(e) \in Seq(Writes)
  BY FreeWritesWithin
<1>2. e.size \in Nat /\ Large \in Nat /\ Large >= 2
  BY StorageAssumption DEF Interval
<1>3. CASE e.size <= Large
  <2>1. FreeWrites(e) = <<Write(e.addr, e.size, Free, e.size, "whole")>>
    BY <1>3 DEF FreeWrites
  <2>2. WriteShape(Write(e.addr, e.size, Free, e.size, "whole"))
    BY DEF WriteShape, Write
  <2>3. QED
    BY <1>1, <2>1, <2>2
<1>4. CASE ~(e.size <= Large)
  <2> DEFINE h == Write(e.addr, 2, Free, e.size, "header")
             t == Write(e.addr + e.size - 1, 1, Free, e.size, "trailer")
  <2>1. FreeWrites(e) = <<h, t>>
    BY <1>4 DEF FreeWrites
  <2>2. e.size > 2
    BY <1>2, <1>4
  <2>3. WriteShape(h) /\ WriteShape(t)
    BY <2>2 DEF WriteShape, Write
  <2> HIDE DEF h, t
  <2>4. QED
    BY <1>1, <2>1, <2>3
<1>5. QED
  BY <1>3, <1>4

------------------------------------------------------------------------------
Kept == [Names -> Interval]

\* A step of a call that has storage e erased.
LEMMA EraseFiles ==
  ASSUME FileInv, up, ~readOnly, op.pc # "write", op'.pc # "write",
         NEW e \in Interval, e.size > 0, writes' = FreeWrites(e), eof' = eof,
         file' = file, kept' \in Kept, cut' = cut
  PROVE  FileInv'
<1>1. eof <= Len(file) + 1
  BY DEF FileInv
<1>2. \A k \in DOMAIN writes' : WriteShape(writes'[k])
  BY FreeWriteShapes
<1>3. QED
  BY <1>1, <1>2 DEF FileInv, Kept

\* A step of a call that writes the object into storage e.
LEMMA WriteFiles ==
  ASSUME FileInv, up, ~readOnly, op.pc # "write", eof \in Nat,
         NEW x \in Names, NEW e \in Interval, e.size > 0, WriteObject(x, e.size, e),
         eof' = eof \/ (e.addr = eof /\ eof' = End(e)),
         file' = file, kept' \in Kept, cut' = cut
  PROVE  FileInv'
<1> DEFINE w == Write(e.addr, e.size, x, e.size, "whole")
<1>1. eof <= Len(file) + 1
  BY DEF FileInv
<1>2. /\ writes' = <<w>>
      /\ op'.pc = "write" /\ op'.name = x /\ op'.size = e.size /\ op'.hold = e
  BY DEF WriteObject
<1>3. ObjectWrite' = w
  BY <1>2 DEF ObjectWrite
<1>4. WriteShape(w)
  BY DEF WriteShape, Write
<1> HIDE DEF w
<1>5. \A k \in DOMAIN writes' : WriteShape(writes'[k])
  BY <1>2, <1>4
<1>6. writes' = <<ObjectWrite'>> /\ writes' # <<>>
  BY <1>2, <1>3
<1>7. eof' <= Len(file') + 1 \/ (op'.hold.addr <= Len(file') + 1 /\ End(op'.hold) = eof')
  BY <1>1, <1>2
<1>8. QED
  BY <1>2, <1>5, <1>6, <1>7 DEF FileInv, Kept

\* The tail of db5_realloc().
LEMMA ObtainShape ==
  ASSUME dir \in Dir, NEW x \in Names, NEW n, Obtain(x, n, freep)
  PROVE  /\ op'.name = x /\ op'.pc \in {"write", "surplus"}
         /\ \A y \in Names \ {x} : dir'[y] = dir[y]
<1>1. \E e : dir' = [dir EXCEPT ![x] = e]
  BY DEF Obtain
<1>2. op'.name = x /\ op'.pc \in {"write", "surplus"}
  BY DEF Obtain, WriteObject
<1>3. QED
  BY <1>1, <1>2 DEF Dir

LEMMA ObtainFiles ==
  ASSUME StorageInv, FileInv, up, ~readOnly, op.pc # "write",
         NEW x \in Names, NEW n \in Nat \ {0}, Obtain(x, n, freep),
         file' = file, kept' \in Kept, cut' = cut
  PROVE  FileInv'
<1>1. freep \in SUBSET Interval /\ eof \in Nat
  BY DEF StorageInv, StorageTypeOK
<1>2. CASE Fitting(freep, n) = {}
  <2> DEFINE new == [addr |-> eof, size |-> n]
  <2>1. eof' = eof + n /\ WriteObject(x, n, new)
    BY <1>2 DEF Obtain
  <2>2. new \in Interval /\ new.size = n /\ new.addr = eof /\ End(new) = eof + n
    BY <1>1 DEF Interval, End
  <2> HIDE DEF new
  <2>3. WriteObject(x, new.size, new)
    BY <2>1, <2>2
  <2>4. QED
    BY <1>1, <2>1, <2>2, <2>3, WriteFiles
<1>3. CASE Fitting(freep, n) # {}
  <2> DEFINE m == BestFit(freep, n)
             surplus == [addr |-> m.addr + n, size |-> m.size - n]
  <2>1. m \in Interval /\ m.size >= n
    BY <1>1, <1>3, BestFitFits DEF Fitting
  <2>2. /\ eof' = eof
        /\ m.size = n => WriteObject(x, n, m)
        /\ m.size # n => op'.pc = "surplus" /\ writes' = FreeWrites(surplus)
    BY <1>3 DEF Obtain
  <2> HIDE DEF m
  <2>3. CASE m.size = n
    <3>1. WriteObject(x, m.size, m)
      BY <2>2, <2>3
    <3>2. QED
      BY <1>1, <2>1, <2>2, <2>3, <3>1, WriteFiles
  <2>4. CASE m.size # n
    <3>1. surplus \in Interval /\ surplus.size > 0
      BY <2>1, <2>4 DEF Interval
    <3> HIDE DEF surplus
    <3>2. op'.pc # "write"
      BY <2>2, <2>4
    <3>3. QED
      BY <2>2, <2>4, <3>1, <3>2, EraseFiles
  <2>5. QED
    BY <2>3, <2>4
<1>4. QED
  BY <1>2, <1>3

\* A call begins with its name, and changes no other entry.
LEMMA BeginShape ==
  ASSUME StorageInv, Begin
  PROVE  /\ up /\ ~readOnly /\ op = Idle /\ up' = up /\ readOnly' = readOnly
         /\ op'.name \in Names
         /\ \A y \in Names \ {op'.name} : dir'[y] = dir[y]
<1>0. dir \in Dir
  BY DEF StorageInv, StorageTypeOK, Dir
<1>1. ASSUME NEW x \in Names, PutSame(x) \/ Kill(x)
      PROVE  up /\ ~readOnly /\ op = Idle /\ up' = up /\ readOnly' = readOnly
             /\ op'.name = x /\ \A y \in Names \ {x} : dir'[y] = dir[y]
  BY <1>1 DEF PutSame, Kill, Ready, WriteObject
<1>2. ASSUME NEW x \in Names, NEW n \in Sizes, PutSmaller(x, n) \/ PutLarger(x, n)
      PROVE  up /\ ~readOnly /\ op = Idle /\ up' = up /\ readOnly' = readOnly
             /\ op'.name = x /\ \A y \in Names \ {x} : dir'[y] = dir[y]
  BY <1>0, <1>2 DEF PutSmaller, PutLarger, Ready, Dir
<1>3. ASSUME NEW x \in Names, NEW n \in Sizes, PutNew(x, n)
      PROVE  up /\ ~readOnly /\ op = Idle /\ up' = up /\ readOnly' = readOnly
             /\ op'.name = x /\ \A y \in Names \ {x} : dir'[y] = dir[y]
  BY <1>0, <1>3, ObtainShape DEF PutNew, Ready
<1>4. QED
  BY <1>1, <1>2, <1>3 DEF Begin

LEMMA GoOnShape ==
  ASSUME StorageInv, GoOn
  PROVE  /\ up /\ ~readOnly /\ op.pc # "idle" /\ up' = up /\ readOnly' = readOnly
         /\ op'.name = op.name
         /\ \A y \in Names \ {op.name} : dir'[y] = dir[y]
<1>1. op.pc \in {"front", "back", "release", "surplus", "erase"}
  BY DEF GoOn, FrontErased, BackErased, Released, SurplusErased, Erased, At
<1>2. up /\ ~readOnly /\ op.pc # "idle" /\ dir \in Dir /\ op.name \in Names
      /\ op \in [pc : Steps, name : Names \cup {Free}, size : Nat, hold : Interval]
  BY <1>1, InCall
<1>3. up' = up /\ readOnly' = readOnly
  BY DEF GoOn, FrontErased, BackErased, Released, SurplusErased, Erased
<1>4. CASE FrontErased \/ BackErased \/ SurplusErased \/ Erased
  <2>1. op'.name = op.name
    <3>1. CASE FrontErased
      BY <1>2, <3>1 DEF FrontErased
    <3>2. CASE SurplusErased
      <4>1. \E e : op' = [op EXCEPT !.pc = "erase", !.hold = e]
        BY <3>2, Zenon DEF SurplusErased
      <4>2. QED
        BY <1>2, <4>1
    <3>3. CASE BackErased \/ Erased
      <4>1. \E n, e : WriteObject(op.name, n, e)
        BY <3>3, Zenon DEF BackErased, Erased
      <4>2. QED
        BY <4>1 DEF WriteObject
    <3>4. QED
      BY <1>4, <3>1, <3>2, <3>3
  <2>2. (\E e : dir' = [dir EXCEPT ![op.name] = e]) \/ dir' = dir
    BY <1>4, Zenon DEF FrontErased, BackErased, SurplusErased, Erased
  <2>3. QED
    BY <1>2, <1>3, <2>1, <2>2 DEF Dir
<1>5. CASE Released
  BY <1>2, <1>3, <1>5, ObtainShape DEF Released
<1>6. QED
  BY <1>4, <1>5 DEF GoOn

LEMMA BeginKeeps ==
  ASSUME DataInv, Begin
  PROVE  FileInv' /\ KeptInv'
<1>0. /\ op = Idle /\ op.pc # "write" /\ up /\ ~readOnly /\ StorageInv /\ FileInv
      /\ file' = file /\ cut' = cut
      /\ kept' = [kept EXCEPT ![op'.name] = NoStorage]
      /\ op'.name \in Names /\ up' = up /\ readOnly' = readOnly
      /\ \A y \in Names \ {op'.name} : dir'[y] = dir[y]
  BY BeginShape DEF DataInv, Begin, Idle
<1>1. kept \in Kept /\ kept' \in Kept /\ kept'[op'.name].size = 0
      /\ \A y \in Names \ {op'.name} : kept'[y] = kept[y]
  BY <1>0 DEF FileInv, Kept, NoStorage, Interval
<1>2. KeptInv'
  BY <1>0, <1>1 DEF DataInv, KeptInv
<1>3. dir \in Dir /\ eof \in Nat
  BY <1>0 DEF StorageInv, StorageTypeOK, Dir
<1>4. ASSUME NEW x \in Names, PutSame(x) PROVE FileInv'
  <2>1. dir[x].size > 0 /\ WriteObject(x, dir[x].size, dir[x]) /\ eof' = eof
    BY <1>4 DEF PutSame
  <2>2. dir[x] \in Interval
    BY <1>3 DEF Dir
  <2>3. QED
    BY <1>0, <1>1, <1>3, <2>1, <2>2, WriteFiles
<1>5. ASSUME NEW x \in Names, Kill(x) PROVE FileInv'
  <2>1. dir[x].size > 0 /\ op'.pc = "kill" /\ writes' = FreeWrites(dir[x]) /\ eof' = eof
    BY <1>5 DEF Kill
  <2>2. dir[x] \in Interval
    BY <1>3 DEF Dir
  <2>3. QED
    BY <1>0, <1>1, <2>1, <2>2, EraseFiles
<1>6. ASSUME NEW x \in Names, NEW n \in Sizes, PutSmaller(x, n) PROVE FileInv'
  <2>1. op'.pc = "front" /\ writes' = FreeWrites(dir'[x]) /\ eof' = eof
        /\ dir' = [dir EXCEPT ![x].size = n]
    BY <1>6 DEF PutSmaller
  <2>2. dir'[x] \in Interval /\ dir'[x].size > 0
    BY <1>3, <2>1, StorageAssumption DEF Dir, Interval
  <2>3. QED
    BY <1>0, <1>1, <2>1, <2>2, EraseFiles
<1>7. ASSUME NEW x \in Names, NEW n \in Sizes, PutLarger(x, n) PROVE FileInv'
  <2>1. dir[x].size > 0 /\ op'.pc = "release" /\ writes' = FreeWrites(dir[x]) /\ eof' = eof
    BY <1>3, <1>7 DEF PutLarger, Dir, Interval
  <2>2. dir[x] \in Interval
    BY <1>3 DEF Dir
  <2>3. QED
    BY <1>0, <1>1, <2>1, <2>2, EraseFiles
<1>8. ASSUME NEW x \in Names, NEW n \in Sizes, PutNew(x, n) PROVE FileInv'
  <2>1. n \in Nat \ {0} /\ Obtain(x, n, freep)
    BY <1>8, StorageAssumption DEF PutNew
  <2>2. QED
    BY <1>0, <1>1, <2>1, ObtainFiles
<1>9. QED
  BY <1>2, <1>4, <1>5, <1>6, <1>7, <1>8 DEF Begin

LEMMA GoOnKeeps ==
  ASSUME DataInv, GoOn
  PROVE  FileInv' /\ KeptInv'
<1>0. /\ StorageInv /\ FileInv /\ KeptInv /\ file' = file /\ cut' = cut /\ kept' = kept
      /\ up /\ ~readOnly /\ op.pc # "idle" /\ up' = up /\ readOnly' = readOnly
      /\ op'.name = op.name
      /\ \A y \in Names \ {op.name} : dir'[y] = dir[y]
  BY GoOnShape DEF DataInv, GoOn
<1>1. kept' \in Kept /\ eof \in Nat /\ op.name \in Names
  BY <1>0, InCall DEF FileInv, Kept
<1>2. KeptInv'
  BY <1>0 DEF KeptInv
<1>3. op \in [pc : Steps, name : Names \cup {Free}, size : Nat, hold : Interval] /\ HeldInv
  BY <1>0, InCall
<1>4. CASE FrontErased
  <2>1. op.pc = "front" /\ op' = [op EXCEPT !.pc = "back"] /\ writes' = FreeWrites(BackHalf)
        /\ eof' = eof
    BY <1>4 DEF FrontErased, At
  <2>2. BackHalf \in Interval /\ BackHalf.size > 0
    BY <1>0, <2>1, Halves
  <2>3. op'.pc # "write" /\ op.pc # "write"
    BY <1>3, <2>1
  <2>4. QED
    BY <1>0, <1>1, <1>2, <2>1, <2>2, <2>3, EraseFiles
<1>5. CASE BackErased
  <2> DEFINE front == [addr |-> op.hold.addr, size |-> op.size]
  <2>1. op.pc = "back" /\ WriteObject(op.name, op.size, front) /\ eof' = eof
    BY <1>5 DEF BackErased, At
  <2>2. front \in Interval /\ front.size > 0 /\ front.size = op.size
    BY <1>0, <2>1, Halves
  <2> HIDE DEF front
  <2>3. WriteObject(op.name, front.size, front)
    BY <2>1, <2>2
  <2>4. QED
    BY <1>0, <1>1, <1>2, <2>1, <2>2, <2>3, WriteFiles
<1>6. CASE Released
  <2>1. op.pc = "release" /\ Obtain(op.name, op.size, freep)
    BY <1>6 DEF Released, At
  <2>2. op.size \in Nat \ {0}
    BY <1>3, <2>1 DEF HeldInv, BlockShape
  <2>3. QED
    BY <1>0, <1>1, <1>2, <2>1, <2>2, ObtainFiles
<1>7. CASE SurplusErased
  <2> DEFINE e == [addr |-> op.hold.addr, size |-> op.size]
  <2>1. op.pc = "surplus" /\ op' = [op EXCEPT !.pc = "erase", !.hold = e] /\ writes' = FreeWrites(e)
        /\ eof' = eof
    BY <1>7 DEF SurplusErased, At
  <2>2. e \in Interval /\ e.size > 0
    BY <1>0, <2>1, Halves
  <2>3. op'.pc # "write" /\ op.pc # "write"
    BY <1>3, <2>1
  <2> HIDE DEF e
  <2>4. QED
    BY <1>0, <1>1, <1>2, <2>1, <2>2, <2>3, EraseFiles
<1>8. CASE Erased
  <2>1. op.pc = "erase" /\ WriteObject(op.name, op.size, op.hold) /\ eof' = eof
    BY <1>8 DEF Erased, At
  <2>2. op.size = op.hold.size /\ op.hold \in Interval /\ op.hold.size > 0
    BY <1>3, <2>1 DEF HeldInv, BlockShape, Held, Clear
  <2>3. WriteObject(op.name, op.hold.size, op.hold)
    BY <2>1, <2>2
  <2>4. QED
    BY <1>0, <1>1, <1>2, <2>1, <2>2, <2>3, WriteFiles
<1>9. QED
  BY <1>2, <1>4, <1>5, <1>6, <1>7, <1>8 DEF GoOn

LEMMA FinishKeeps ==
  ASSUME DataInv, Finish
  PROVE  FileInv' /\ KeptInv'
<1>0. /\ StorageInv /\ FileInv /\ KeptInv /\ file' = file /\ cut' = cut
      /\ kept' = [kept EXCEPT ![op.name] = dir'[op.name]]
      /\ op.pc \in {"write", "kill"} /\ up' = up /\ readOnly' = readOnly /\ eof' = eof
      /\ writes = <<>> /\ writes' = writes /\ op' = Idle
  BY DEF DataInv, Finish, Stored, Killed, At
<1>1. /\ up /\ ~readOnly /\ op.name \in Names /\ HeldInv /\ dir \in Dir /\ kept \in Kept
      /\ op'.pc = "idle" /\ op'.name \notin Names
  BY <1>0, InCall, StorageAssumption DEF FileInv, Kept, Idle
<1>2. /\ dir'[op.name] \in Interval
      /\ dir'[op.name].size > 0 => /\ InFile(file, op.name, dir'[op.name])
                                   /\ dir'[op.name].addr > 0
      /\ \A y \in Names \ {op.name} : dir'[y] = dir[y]
  <2>1. CASE Stored
    <3>1. op.pc = "write" /\ dir' = dir
      BY <2>1 DEF Stored, At
    <3>2. dir[op.name] = op.hold /\ op.hold.addr > 0
      BY <1>1, <3>1 DEF HeldInv, BlockShape, Clear, Held
    <3>3. InFile(file, op.name, op.hold)
      BY <1>0, <3>1 DEF FileInv
    <3>4. QED
      BY <1>1, <3>1, <3>2, <3>3 DEF Dir
  <2>2. CASE Killed
    <3>1. dir' = [dir EXCEPT ![op.name] = NoStorage]
      BY <2>2 DEF Killed, ReleaseKilled
    <3>2. dir'[op.name] = NoStorage /\ \A y \in Names \ {op.name} : dir'[y] = dir[y]
      BY <1>1, <3>1 DEF Dir
    <3>3. QED
      BY <3>2 DEF NoStorage, Interval
  <2>3. QED
    BY <2>1, <2>2 DEF Finish
<1>3. kept' \in Kept /\ kept'[op.name] = dir'[op.name]
      /\ \A y \in Names \ {op.name} : kept'[y] = kept[y]
  BY <1>0, <1>1, <1>2 DEF Kept
<1>4. eof <= Len(file) + 1
  BY <1>0, <1>1 DEF FileInv
<1>5. FileInv'
  BY <1>0, <1>1, <1>3, <1>4 DEF FileInv, Kept
<1>6. KeptInv'
  BY <1>0, <1>1, <1>2, <1>3 DEF KeptInv
<1>7. QED
  BY <1>5, <1>6

\* The next write of a call.
LEMMA NextWrite ==
  ASSUME DataInv, writes # <<>>, NEW w, w = Head(writes)
  PROVE  /\ up /\ ~readOnly /\ w \in Writes /\ WriteShape(w)
         /\ w.addr \in 1 .. Len(file) + 1
         /\ w.part = "trailer" => w.addr <= Len(file)
         /\ op.pc = "write" => w = ObjectWrite /\ writes = <<w>>
         /\ op.pc # "write" => w.addr + w.size <= Len(file) + 1
         /\ Within(Covers(w), Held)
         /\ \A x \in Names : kept[x].size > 0 => Apart(Covers(w), kept[x])
<1>0. StorageInv /\ FileInv /\ KeptInv
  BY DEF DataInv
<1>1. op.pc # "idle"
  BY <1>0 DEF StorageInv
<1>2. up /\ ~readOnly /\ HeldInv /\ writes \in Seq(Writes) /\ eof \in Nat
  BY <1>0, <1>1, InCall
<1>3. 1 \in DOMAIN writes /\ w = writes[1] /\ w \in Writes
  BY <1>2
<1>4. WriteShape(w) /\ Within(Covers(w), Held)
  BY <1>0, <1>2, <1>3 DEF FileInv, HeldInv
<1>5. Held \in Interval /\ Held.addr > 0 /\ End(Held) <= eof /\ Held.size > 0
  BY <1>2 DEF HeldInv, Clear
<1>6. /\ w.addr \in Nat /\ w.size \in Nat /\ w.size > 0 /\ Held.addr \in Nat /\ Held.size \in Nat
      /\ Len(file) \in Nat /\ Held.addr <= w.addr /\ w.addr + w.size <= Held.addr + Held.size
      /\ Held.addr + Held.size <= eof
  BY <1>0, <1>3, <1>4, <1>5 DEF Writes, Interval, WriteShape, Within, Covers, End, FileInv
<1>7. op.pc = "write" => w = ObjectWrite /\ writes = <<w>> /\ Held = op.hold
  <2> SUFFICES ASSUME op.pc = "write" PROVE w = ObjectWrite /\ writes = <<w>> /\ Held = op.hold
    OBVIOUS
  <2>1. writes = <<ObjectWrite>>
    BY <1>0 DEF FileInv
  <2>2. QED
    BY <1>3, <2>1 DEF Held
<1>8. w.addr <= Len(file) + 1 /\ (op.pc # "write" => w.addr + w.size <= Len(file) + 1)
  <2>1. CASE eof <= Len(file) + 1
    BY <1>2, <1>6, <2>1
  <2>2. CASE op.pc = "write" /\ op.hold.addr <= Len(file) + 1
    BY <1>7, <2>2 DEF ObjectWrite, Write
  <2>3. QED
    BY <1>0, <1>2, <2>1, <2>2 DEF FileInv
<1>9. w.part = "trailer" => w.addr <= Len(file)
  <2> SUFFICES ASSUME w.part = "trailer" PROVE w.addr <= Len(file)
    OBVIOUS
  <2>1. op.pc # "write"
    BY <1>7 DEF ObjectWrite, Write
  <2>2. QED
    BY <1>6, <1>8, <2>1
<1>10. ASSUME NEW x \in Names, kept[x].size > 0 PROVE Apart(Covers(w), kept[x])
  <2>1. x # op.name /\ dir[x] = kept[x]
    BY <1>0, <1>2, <1>10 DEF KeptInv
  <2>2. QED
    BY <1>0, <1>3, <1>10, <2>1, HeldSpares DEF WritesSpareOthers
<1>11. QED
  BY <1>2, <1>3, <1>4, <1>5, <1>6, <1>7, <1>8, <1>9, <1>10

\* What any part of a write leaves in the file.
LEMMA AnyWrite ==
  ASSUME DataInv, writes # <<>>, NEW k \in 0 .. Head(writes).size,
         file' = Written(file, Head(writes), k)
  PROVE  /\ file' \in Seq(FileUnit) /\ Len(file) <= Len(file')
         /\ \A x \in Names : kept[x].size > 0 => InFile(file', x, kept[x])
<1> DEFINE w == Head(writes)
<1>1. /\ w \in Writes /\ WriteShape(w) /\ w.addr \in 1 .. Len(file) + 1
      /\ w.part = "trailer" => w.addr <= Len(file)
      /\ \A x \in Names : kept[x].size > 0 => Apart(Covers(w), kept[x])
  BY NextWrite
<1>2. file \in Seq(FileUnit) /\ kept \in Kept /\ k \in 0 .. w.size /\ file' = Written(file, w, k)
  BY DEF DataInv, FileInv, Kept
<1> HIDE DEF w
<1>3. file' \in Seq(FileUnit)
  BY <1>1, <1>2, WrittenIs
<1>4. Len(file) <= Len(file')
  <2>1. Len(file) \in Nat /\ k \in Int /\ w.addr \in Int
    BY <1>1, <1>2
  <2>2. Len(file') = IF k > 0 /\ w.addr + k - 1 > Len(file) THEN w.addr + k - 1 ELSE Len(file)
    BY <1>1, <1>2, WrittenIs
  <2>3. QED
    BY <2>1, <2>2
<1>5. ASSUME NEW x \in Names, kept[x].size > 0 PROVE InFile(file', x, kept[x])
  <2>1. kept[x] \in Interval /\ kept[x].addr > 0 /\ InFile(file, x, kept[x])
    BY <1>2, <1>5 DEF DataInv, KeptInv, Kept
  <2>2. QED
    BY <1>1, <1>2, <1>5, <2>1, OthersUntouched
<1>6. QED
  BY <1>3, <1>4, <1>5

LEMMA DbWriteKeeps ==
  ASSUME DataInv, DbWrite
  PROVE  FileInv' /\ KeptInv'
<1> DEFINE w == Head(writes)
<1>0. /\ StorageInv /\ FileInv /\ KeptInv /\ kept' = kept /\ cut' = cut
      /\ writes # <<>> /\ writes' = Tail(writes) /\ file' = Written(file, w, w.size)
      /\ UNCHANGED <<up, strays, dir, freep, eof, readOnly, op>>
  BY DEF DataInv, DbWrite, WriteDone
<1>1. /\ w \in Writes /\ WriteShape(w) /\ w.addr \in 1 .. Len(file) + 1 /\ up /\ ~readOnly
      /\ op.pc = "write" => w = ObjectWrite /\ writes = <<w>>
  BY <1>0, NextWrite
<1>2. w.size \in 0 .. w.size
  BY <1>1 DEF Writes
<1>3. /\ file' \in Seq(FileUnit) /\ Len(file) <= Len(file')
      /\ \A x \in Names : kept[x].size > 0 => InFile(file', x, kept[x])
  BY <1>0, <1>2, AnyWrite
<1>4. KeptInv'
  BY <1>0, <1>3 DEF KeptInv
<1>5. writes \in Seq(Writes) /\ eof \in Nat /\ op.pc # "idle" /\ HeldInv
  BY <1>0, InCall DEF StorageInv
<1>6. \A k \in DOMAIN writes' : WriteShape(writes'[k])
  <2>1. \A k \in DOMAIN writes' : k + 1 \in DOMAIN writes /\ writes'[k] = writes[k + 1]
    BY <1>0, <1>5
  <2>2. QED
    BY <1>0, <2>1 DEF FileInv
<1>7. op.pc = "write" => /\ writes' = <<>>
                         /\ InFile(file', op.name, op.hold)
                         /\ End(op.hold) <= Len(file') + 1
  <2> SUFFICES ASSUME op.pc = "write"
               PROVE  /\ writes' = <<>>
                      /\ InFile(file', op.name, op.hold)
                      /\ End(op.hold) <= Len(file') + 1
    OBVIOUS
  <2>1. w = ObjectWrite /\ writes = <<w>>
    BY <1>1
  <2>2. op.hold \in Interval /\ op.hold.size > 0 /\ op.size = op.hold.size /\ op.name \in Names
    BY <1>5 DEF HeldInv, BlockShape, Held, Clear
  <2>3. w = Write(op.hold.addr, op.hold.size, op.name, op.hold.size, "whole")
    BY <2>1, <2>2 DEF ObjectWrite
  <2>4. op.hold.addr \in 1 .. Len(file) + 1
    BY <1>1, <2>3 DEF Write
  <2>5. file \in Seq(FileUnit)
    BY <1>0 DEF FileInv
  <2>6. writes' = <<>>
    BY <1>0, <2>1
  <2> HIDE DEF w
  <2>7. QED
    BY <1>0, <2>2, <2>3, <2>4, <2>5, <2>6, ObjectIsWritten
<1>8. eof <= Len(file') + 1
  <2>1. Len(file) \in Nat /\ Len(file') \in Nat
    BY <1>0, <1>3 DEF FileInv
  <2>2. QED
    BY <1>0, <1>1, <1>3, <1>5, <1>7, <2>1 DEF FileInv
<1>9. FileInv'
  <2>1. op.pc = "write" => writes' = <<>> /\ InFile(file', op.name, op.hold)
    BY <1>7
  <2>2. kept' \in [Names -> Interval] /\ cut' \in Nat
    BY <1>0 DEF FileInv
  <2> HIDE DEF w
  <2>3. QED
    BY <1>0, <1>3, <1>6, <1>8, <2>1, <2>2 DEF FileInv
<1>10. QED
  BY <1>4, <1>9

LEMMA CutTyped ==
  ASSUME StorageInv, cut \in Nat
  PROVE  CutAt \in Nat
BY DEF StorageInv, StorageTypeOK, CutAt, Interval

\* A failed or interrupted write: memory is given up, or not written from again.
LEMMA BrokenOff ==
  ASSUME DataInv, file' \in Seq(FileUnit),
         \A x \in Names : kept[x].size > 0 => InFile(file', x, kept[x]),
         kept' = kept, cut' = CutAt, op' = Idle, writes' = <<>>, ~up' \/ readOnly'
  PROVE  FileInv' /\ KeptInv'
<1>1. kept' \in [Names -> Interval] /\ cut' \in Nat
  BY CutTyped DEF DataInv, FileInv
<1>2. op'.pc = "idle"
  BY DEF Idle
<1>3. QED
  BY <1>1, <1>2 DEF DataInv, FileInv, KeptInv

LEMMA DbWriteFailsKeeps ==
  ASSUME DataInv, DbWriteFails
  PROVE  FileInv' /\ KeptInv'
<1>1. /\ writes # <<>> /\ readOnly' = TRUE /\ op' = Idle /\ writes' = <<>>
      /\ kept' = kept /\ cut' = CutAt
  BY DEF DbWriteFails, WriteFails
<1>2. PICK k \in 0 .. Head(writes).size - 1 : file' = Written(file, Head(writes), k)
  BY DEF DbWriteFails
<1>3. k \in 0 .. Head(writes).size
  <2>1. Head(writes).size \in Nat
    BY <1>1, NextWrite DEF Writes
  <2>2. QED
    BY <1>2, <2>1
<1>4. QED
  BY <1>1, <1>2, <1>3, AnyWrite, BrokenOff

LEMMA StopKeeps ==
  ASSUME DataInv, Stop
  PROVE  FileInv' /\ KeptInv'
<1>1. up' = FALSE /\ op' = Idle /\ writes' = <<>> /\ kept' = kept /\ cut' = CutAt
  BY DEF Stop, Halt, Down
<1>2. CASE writes = <<>>
  <2>1. file' = file
    BY <1>2 DEF Stop
  <2>2. file' \in Seq(FileUnit) /\ \A x \in Names : kept[x].size > 0 => InFile(file', x, kept[x])
    BY <2>1 DEF DataInv, FileInv, KeptInv
  <2>3. QED
    BY <1>1, <2>2, BrokenOff
<1>3. CASE writes # <<>>
  <2>1. PICK k \in 0 .. Head(writes).size : file' = Written(file, Head(writes), k)
    BY <1>3 DEF Stop
  <2>2. QED
    BY <1>1, <1>3, <2>1, AnyWrite, BrokenOff
<1>4. QED
  BY <1>2, <1>3

\* Opening the file implements the abstract opening: what the scan gives is
\* well-formed.
LEMMA OpenReopens ==
  ASSUME FileInv, Open
  PROVE  Reopen
<1>1. file \in Seq(FileUnit)
  BY DEF FileInv
<1>2. /\ Directory(file) \in [Names -> Interval]
      /\ Strays(file) \in SUBSET Interval
      /\ FreeStorage(file) \in SUBSET Interval
      /\ EofFound(file) \in Nat
      /\ WellFormed(Directory(file), Strays(file), FreeStorage(file), EofFound(file))
  BY <1>1, ScanWellFormed
<1>3. ScanFails(file) \in BOOLEAN
  BY DEF ScanFails
<1>4. /\ ~up /\ up' = TRUE /\ UNCHANGED <<op, writes>>
      /\ dir' = Directory(file) /\ strays' = Strays(file) /\ freep' = FreeStorage(file)
      /\ readOnly' = ScanFails(file)
      /\ eof' = IF ScanFails(file) THEN 0 ELSE EofFound(file)
  BY DEF Open
<1>5. eof' \in Nat
  BY <1>2, <1>4
<1>6. ~readOnly' => WellFormed(dir', strays', freep', eof')
  BY <1>2, <1>4
<1>7. QED
  BY <1>2, <1>3, <1>4, <1>5, <1>6 DEF Reopen

LEMMA OpenKeeps ==
  ASSUME DataInv, Open
  PROVE  FileInv' /\ KeptInv'
<1>1. /\ ~up /\ up' = TRUE /\ UNCHANGED <<op, writes, file>>
      /\ dir' = Directory(file) /\ readOnly' = ScanFails(file)
      /\ eof' = IF ScanFails(file) THEN 0 ELSE EofFound(file)
      /\ kept' = [x \in Names |-> IF InFile(file, x, dir'[x]) THEN dir'[x] ELSE NoStorage]
      /\ cut' = Nowhere
  BY DEF Open
<1>2. op = Idle /\ writes = <<>> /\ file \in Seq(FileUnit)
  BY <1>1 DEF DataInv, StorageInv, FileInv
<1>3. /\ dir' \in [Names -> Interval]
      /\ EofFound(file) <= Len(file) + 1
      /\ \A x \in Names : dir'[x].size > 0 => dir'[x].addr > 0
  BY <1>1, <1>2, ScanWellFormed DEF WellFormed
<1>4. cut' \in Nat
  BY <1>1, StorageAssumption DEF Nowhere
<1>5. kept' \in [Names -> Interval]
  BY <1>1, <1>3 DEF NoStorage, Interval
<1>6. FileInv'
  <2>1. op'.pc = "idle" /\ writes' = <<>> /\ file' = file
    BY <1>1, <1>2 DEF Idle
  <2>2. ~readOnly' => eof' <= Len(file') + 1
    BY <1>1, <1>3, <2>1
  <2>3. QED
    BY <1>2, <1>4, <1>5, <2>1, <2>2 DEF FileInv
<1>7. KeptInv'
  <2> SUFFICES ASSUME NEW x \in Names, kept'[x].size > 0
               PROVE  InFile(file', x, kept'[x]) /\ kept'[x].addr > 0
                      /\ x # op'.name /\ dir'[x] = kept'[x]
    BY DEF KeptInv
  <2>1. kept'[x] = IF InFile(file, x, dir'[x]) THEN dir'[x] ELSE NoStorage
    BY <1>1
  <2>2. InFile(file, x, dir'[x]) /\ kept'[x] = dir'[x]
    BY <2>1 DEF NoStorage
  <2>3. op'.name = Free
    BY <1>1, <1>2 DEF Idle
  <2>4. QED
    BY <1>1, <1>3, <2>2, <2>3, StorageAssumption
<1>8. QED
  BY <1>6, <1>7

------------------------------------------------------------------------------
\* Every step of the database is one of what a process keeps of it.
LEMMA StepIsStorage ==
  ASSUME DataInv, [Next]_vars
  PROVE  [StorageNext]_storageVars
<1>1. CASE Begin
  BY <1>1 DEF Begin, StorageNext, StorageStep
<1>2. CASE GoOn
  BY <1>2 DEF GoOn, StorageNext, StorageStep
<1>3. CASE Finish
  BY <1>3 DEF Finish, StorageNext, StorageStep
<1>4. CASE DbWrite \/ DbWriteFails \/ Stop
  BY <1>4 DEF DbWrite, DbWriteFails, Stop, StorageNext, StorageStep
<1>5. CASE Open
  BY <1>5, OpenReopens DEF DataInv, StorageNext
<1>6. CASE UNCHANGED vars
  BY <1>6 DEF vars
<1>7. QED
  BY <1>1, <1>2, <1>3, <1>4, <1>5, <1>6 DEF Next

LEMMA DataStutter ==
  ASSUME DataInv, UNCHANGED vars
  PROVE  FileInv' /\ KeptInv'
<1>1. /\ up' = up /\ dir' = dir /\ eof' = eof /\ readOnly' = readOnly /\ op' = op
      /\ writes' = writes /\ file' = file /\ kept' = kept /\ cut' = cut
  BY DEF vars, storageVars
<1>2. ObjectWrite' = ObjectWrite
  BY <1>1 DEF ObjectWrite
<1>3. QED
  BY <1>1, <1>2 DEF DataInv, FileInv, KeptInv

\* What holds of memory and file at every step.
LEMMA DataInvariant == Spec => []DataInv
<1>1. Init => DataInv
  <2> SUFFICES ASSUME Init PROVE DataInv
    OBVIOUS
  <2>1. StorageInv
    BY InitKeeps DEF Init
  <2>2. /\ up = FALSE /\ op = Idle /\ writes = <<>> /\ cut = Nowhere /\ file \in InitialFiles
        /\ kept = [x \in Names |-> NoStorage]
    BY DEF Init, StorageInit, Down
  <2>3. file \in Seq(FileUnit) /\ cut \in Nat /\ op.pc = "idle"
    BY <2>2, FilesAssumption, StorageAssumption DEF Nowhere, Idle
  <2>4. kept \in [Names -> Interval] /\ \A x \in Names : ~(kept[x].size > 0)
    BY <2>2 DEF NoStorage, Interval
  <2>5. QED
    BY <2>1, <2>2, <2>3, <2>4 DEF DataInv, FileInv, KeptInv
<1>2. DataInv /\ [Next]_vars => DataInv'
  <2> SUFFICES ASSUME DataInv, [Next]_vars PROVE DataInv'
    OBVIOUS
  <2>1. StorageInv'
    BY StepIsStorage, StorageInvStep DEF DataInv
  <2>2. FileInv' /\ KeptInv'
    BY BeginKeeps, GoOnKeeps, FinishKeeps, DbWriteKeeps, DbWriteFailsKeeps, StopKeeps,
       OpenKeeps, DataStutter DEF Next
  <2>3. QED
    BY <2>1, <2>2 DEF DataInv
<1>3. QED
  BY <1>1, <1>2, PTL DEF Spec

\* The file and the process keep their types: no write leaves a gap behind the
\* end of the file, and no scan or call makes up an address or a size.
THEOREM DatabaseTypeCorrect == Spec => []TypeOK
<1>1. DataInv => TypeOK
  BY DEF DataInv, StorageInv, FileInv, TypeOK
<1>2. QED
  BY <1>1, DataInvariant, PTL

\* Opening a file, damaged or not, by db5_scan() and every call after it are
\* steps of the abstract storage, which takes any well-formed directory and map.
THEOREM StorageImplemented == Spec => StorageSpec
<1>1. Init => StorageInit
  BY DEF Init
<1>2. DataInv /\ [Next]_vars => [StorageNext]_storageVars
  BY StepIsStorage
<1>3. QED
  BY <1>1, <1>2, DataInvariant, PTL DEF Spec, StorageSpec

\* With a real file: no write of a call touches the storage of another object.
THEOREM FileWritesSpareOthers == Spec => []WritesSpareOthers
BY StorageImplemented, WritesSpareTheOthers, PTL

\* An object that no call is about stays in the file, whole, through every write,
\* failed or interrupted write, stop and restart.
THEOREM OthersAreKept == Spec => []OthersStayWhole
<1>1. DataInv => OthersStayWhole
  BY DEF DataInv, KeptInv, OthersStayWhole
<1>2. QED
  BY <1>1, DataInvariant, PTL

\* After a failed write nothing is written until the file is opened again
\* (db_write(): "File forced read-only").
THEOREM FailedFileIsLeft == Spec => FailedFileLeftAlone
<1>1. DataInv /\ [Next]_vars => (up /\ readOnly => file' = file)
  <2> SUFFICES ASSUME DataInv, [Next]_vars, up, readOnly PROVE file' = file
    OBVIOUS
  <2>1. writes = <<>>
    BY DEF DataInv, StorageInv
  <2>2. QED
    BY <2>1 DEF Next, Begin, GoOn, Finish, DbWrite, DbWriteFails, WriteDone, WriteFails,
            Stop, Open, vars
<1>2. DataInv /\ [Next]_vars => [up /\ readOnly => file' = file]_vars
  BY <1>1
<1>3. QED
  BY <1>2, DataInvariant, PTL DEF Spec, FailedFileLeftAlone

------------------------------------------------------------------------------
(***************************************************************************)
(* 4. Records one behind the other: a file as a tiling.                    *)
(***************************************************************************)
\* A block that lies in the units of a merged map lies in one of its intervals.
LEMMA ContiguousInOne ==
  ASSUME NEW g \in SUBSET Interval, Separated(g), NEW i \in Interval, i.size > 0,
         Units(i) \subseteq UnitsOf(g)
  PROVE  \E j \in g : Within(i, j)
<1>1. i.addr \in Nat /\ i.size \in Nat /\ i.addr \in Units(i)
  BY DEF Interval, Units, End
<1>2. PICK j \in g : i.addr \in Units(j)
  BY <1>1 DEF UnitsOf
<1>3. j.addr \in Nat /\ j.size \in Nat /\ j.addr <= i.addr /\ i.addr < End(j) /\ End(j) \in Nat
  BY <1>1, <1>2 DEF Interval, Units, End
<1>4. SUFFICES ASSUME ~(End(i) <= End(j)) PROVE FALSE
  BY <1>2, <1>3 DEF Within
<1>5. End(j) \in Units(i)
  BY <1>1, <1>3, <1>4 DEF Units, End
<1>6. PICK k \in g : End(j) \in Units(k)
  BY <1>5 DEF UnitsOf
<1>7. k.addr \in Nat /\ k.size \in Nat /\ k.addr <= End(j) /\ End(j) < End(k)
  BY <1>3, <1>6 DEF Interval, Units, End
<1>8. k # j
  BY <1>3, <1>7
<1>9. End(j) < k.addr \/ End(k) < j.addr
  BY <1>8 DEF Separated
<1>10. QED
  BY <1>3, <1>7, <1>9 DEF End

LEMMA UnitsGiveMap ==
  ASSUME NEW f \in SUBSET Interval, NEW g \in SUBSET Interval, Separated(f), Separated(g),
         UnitsOf(f) = UnitsOf(g)
  PROVE  f \subseteq g
<1> SUFFICES ASSUME NEW i \in f PROVE i \in g
  OBVIOUS
<1>1. i \in Interval /\ i.size > 0 /\ Units(i) \subseteq UnitsOf(g)
  BY DEF Separated, UnitsOf
<1>2. PICK j \in g : Within(i, j)
  BY <1>1, ContiguousInOne
<1>3. j \in Interval /\ j.size > 0 /\ Units(j) \subseteq UnitsOf(f)
  BY DEF Separated, UnitsOf
<1>4. PICK k \in f : Within(j, k)
  BY <1>3, ContiguousInOne
<1>5. i.addr \in Units(i) /\ i.addr \in Units(k)
  BY <1>1, <1>2, <1>3, <1>4 DEF Within, Units, End, Interval
<1>6. i = k
  BY <1>5, OneIntervalPerUnit
<1>7. i.addr = j.addr /\ i.size = j.size
  BY <1>1, <1>2, <1>3, <1>4, <1>6 DEF Within, End, Interval
<1>8. i = j
  BY <1>1, <1>3, <1>7 DEF Interval
<1>9. QED
  BY <1>8

\* A merged map is known by its units.
LEMMA SameUnitsSameMap ==
  ASSUME NEW f \in SUBSET Interval, NEW g \in SUBSET Interval, Separated(f), Separated(g),
         UnitsOf(f) = UnitsOf(g)
  PROVE  f = g
<1>1. f \subseteq g
  BY UnitsGiveMap
<1>2. g \subseteq f
  BY UnitsGiveMap
<1>3. QED
  BY <1>1, <1>2

------------------------------------------------------------------------------
\* The file f is records that start at the units T, one behind the other, and
\* what is in the gap g.
Tiling(f, T, g) ==
  /\ T \in SUBSET (1 .. Len(f))
  /\ \A t \in T : Get(f, t) = "record" /\ Apart(RecordAt(f, t), g)
  /\ \A t, u \in T : t < u => t + f[t].len <= u
  /\ \A i \in 1 .. Len(f) : i \in Units(g) \/ \E t \in T : i \in RecordUnits(f, t)

\* The units of interval e are a record of that length and owner.
IsRecord(f, e, of) == Get(f, e.addr) = "record" /\ f[e.addr].len = e.size /\ f[e.addr].of = of

\* A record lies in the file.
LEMMA TileTyped ==
  ASSUME NEW f \in Seq(FileUnit), NEW t \in 1 .. Len(f), Get(f, t) = "record"
  PROVE  /\ Len(f) \in Nat /\ t \in Nat /\ t > 0 /\ f[t] \in FileUnit /\ f[t].len \in Nat
         /\ f[t].len > 0 /\ t + f[t].len <= Len(f) + 1 /\ f[t + f[t].len - 1].last
         /\ RecordAt(f, t) \in Interval /\ RecordAt(f, t).addr = t /\ RecordAt(f, t).size = f[t].len
         /\ End(RecordAt(f, t)) = t + f[t].len
         /\ Units(RecordAt(f, t)) = RecordUnits(f, t)
<1>1. Len(f) \in Nat /\ t \in 1 .. Len(f) + 1
  OBVIOUS
<1>2. /\ f[t] \in FileUnit /\ f[t].len \in Nat /\ f[t].len > 0
      /\ t + f[t].len \in t + 1 .. Len(f) + 1 /\ f[t + f[t].len - 1].last
  BY <1>1, RecordFits
<1>3. t + f[t].len <= Len(f) + 1 /\ t \in Nat /\ t > 0
  BY <1>1, <1>2
<1>4. QED
  BY <1>1, <1>2, <1>3 DEF RecordAt, Interval, End, Units, RecordUnits

\* What makes a record: its length, that the file goes so far, its last byte.
LEMMA MakesRecord ==
  ASSUME NEW f \in Seq(FileUnit), NEW t \in 1 .. Len(f), NEW n \in Nat, n > 0,
         f[t].len = n, t + n <= Len(f) + 1, f[t + n - 1].last
  PROVE  Get(f, t) = "record"
<1>1. Len(f) \in Nat /\ t \in Nat /\ t <= Len(f) /\ t + n - 1 <= Len(f)
  OBVIOUS
<1>2. QED
  BY <1>1 DEF Get

\* A record none of whose units changes stays one.
LEMMA SameRecord ==
  ASSUME NEW f \in Seq(FileUnit), NEW t \in 1 .. Len(f), Get(f, t) = "record",
         NEW h \in Seq(FileUnit), Len(f) <= Len(h),
         \A i \in RecordUnits(f, t) : i \in 1 .. Len(f) => h[i] = f[i]
  PROVE  /\ Get(h, t) = "record" /\ h[t] = f[t] /\ RecordAt(h, t) = RecordAt(f, t)
         /\ RecordUnits(h, t) = RecordUnits(f, t) /\ t \in 1 .. Len(h)
<1>1. /\ Len(f) \in Nat /\ t \in Nat /\ t > 0 /\ f[t].len \in Nat
      /\ f[t].len > 0 /\ t + f[t].len <= Len(f) + 1 /\ f[t + f[t].len - 1].last
  BY TileTyped
<1> DEFINE n == f[t].len
<1>2. t \in RecordUnits(f, t) /\ t + n - 1 \in RecordUnits(f, t) /\ t + n - 1 \in 1 .. Len(f)
  BY <1>1 DEF RecordUnits
<1>3. h[t] = f[t] /\ h[t + n - 1].last
  BY <1>1, <1>2
<1>4. Len(h) \in Nat
  OBVIOUS
<1>5. t \in 1 .. Len(h) /\ t + n <= Len(h) + 1
  BY <1>1, <1>4
<1>6. Get(h, t) = "record"
  BY <1>1, <1>3, <1>5, MakesRecord
<1>7. QED
  BY <1>3, <1>5, <1>6 DEF RecordAt, RecordUnits

\* Writing into the gap, or behind the end of the file where the gap goes on.
LEMMA GapStays ==
  ASSUME NEW f \in Seq(FileUnit), NEW T, NEW g \in Interval, Tiling(f, T, g),
         NEW h \in Seq(FileUnit), Len(f) <= Len(h),
         \A i \in 1 .. Len(f) : i \notin Units(g) => h[i] = f[i],
         \A i \in 1 .. Len(h) : i > Len(f) => i \in Units(g)
  PROVE  /\ Tiling(h, T, g)
         /\ \A t \in T : h[t] = f[t] /\ RecordAt(h, t) = RecordAt(f, t)
<1>1. /\ T \in SUBSET (1 .. Len(f))
      /\ \A t \in T : Get(f, t) = "record" /\ Apart(RecordAt(f, t), g)
      /\ \A t, u \in T : t < u => t + f[t].len <= u
      /\ \A i \in 1 .. Len(f) : i \in Units(g) \/ \E t \in T : i \in RecordUnits(f, t)
  BY DEF Tiling
<1>2. ASSUME NEW t \in T
      PROVE  /\ Get(h, t) = "record" /\ h[t] = f[t] /\ RecordAt(h, t) = RecordAt(f, t)
             /\ RecordUnits(h, t) = RecordUnits(f, t) /\ t \in 1 .. Len(h)
  <2>1. t \in 1 .. Len(f) /\ Get(f, t) = "record" /\ Apart(RecordAt(f, t), g)
    BY <1>1
  <2>2. \A i \in RecordUnits(f, t) : i \notin Units(g)
    <3>1. RecordAt(f, t) \in Interval /\ Units(RecordAt(f, t)) = RecordUnits(f, t)
      BY <2>1, TileTyped
    <3>2. \A i \in Units(RecordAt(f, t)) : i \notin Units(g)
      BY <2>1, <3>1 DEF Apart, Units, End, Interval
    <3>3. QED
      BY <3>1, <3>2
  <2>3. QED
    BY <2>1, <2>2, SameRecord
<1>3. Len(f) \in Nat /\ Len(h) \in Nat
  OBVIOUS
<1>4. ASSUME NEW i \in 1 .. Len(h), i \notin Units(g) PROVE \E t \in T : i \in RecordUnits(h, t)
  <2>1. i \in 1 .. Len(f)
    BY <1>3, <1>4
  <2>2. PICK t \in T : i \in RecordUnits(f, t)
    BY <1>1, <1>4, <2>1
  <2>3. QED
    BY <1>2, <2>2
<1>5. \A t, u \in T : t < u => t + h[t].len <= u
  BY <1>1, <1>2
<1>6. T \in SUBSET (1 .. Len(h))
  BY <1>2
<1>7. Tiling(h, T, g)
  BY <1>1, <1>2, <1>4, <1>5, <1>6 DEF Tiling
<1>8. QED
  BY <1>2, <1>7

\* Records that fill a block may be taken out.
LEMMA OpenGap ==
  ASSUME NEW f \in Seq(FileUnit), NEW T, Tiling(f, T, NoStorage), NEW e \in Interval, e.size > 0,
         \A t \in T : Within(RecordAt(f, t), e) \/ Apart(RecordAt(f, t), e)
  PROVE  Tiling(f, {t \in T : Apart(RecordAt(f, t), e)}, e)
<1> DEFINE S == {t \in T : Apart(RecordAt(f, t), e)}
<1>1. /\ T \in SUBSET (1 .. Len(f))
      /\ \A t \in T : Get(f, t) = "record"
      /\ \A t, u \in T : t < u => t + f[t].len <= u
      /\ \A i \in 1 .. Len(f) : i \in Units(NoStorage) \/ \E t \in T : i \in RecordUnits(f, t)
  BY DEF Tiling
<1>2. Units(NoStorage) = {}
  BY DEF Units, NoStorage, End
<1>3. ASSUME NEW i \in 1 .. Len(f), i \notin Units(e) PROVE \E t \in S : i \in RecordUnits(f, t)
  <2>1. PICK t \in T : i \in RecordUnits(f, t)
    BY <1>1, <1>2
  <2>2. RecordAt(f, t) \in Interval /\ Units(RecordAt(f, t)) = RecordUnits(f, t)
    BY <1>1, TileTyped
  <2>3. ~Within(RecordAt(f, t), e)
    BY <1>3, <2>1, <2>2 DEF Within, Units, End, Interval
  <2>4. QED
    BY <2>1, <2>3
<1>4. QED
  BY <1>1, <1>3 DEF Tiling

\* A record fills the gap, or all of it but the gap h.
LEMMA FillGap ==
  ASSUME NEW f \in Seq(FileUnit), NEW T, NEW g \in Interval, Tiling(f, T, g),
         NEW e \in Interval, e.addr \in 1 .. Len(f), Get(f, e.addr) = "record",
         f[e.addr].len = e.size, Within(e, g),
         NEW h \in Interval, Apart(e, h), h = NoStorage \/ Within(h, g),
         Units(g) \subseteq Units(e) \cup Units(h)
  PROVE  Tiling(f, T \cup {e.addr}, h)
<1> DEFINE S == T \cup {e.addr}
<1>1. /\ T \in SUBSET (1 .. Len(f))
      /\ \A t \in T : Get(f, t) = "record" /\ Apart(RecordAt(f, t), g)
      /\ \A t, u \in T : t < u => t + f[t].len <= u
      /\ \A i \in 1 .. Len(f) : i \in Units(g) \/ \E t \in T : i \in RecordUnits(f, t)
  BY DEF Tiling
<1>2. RecordAt(f, e.addr) = e /\ RecordUnits(f, e.addr) = Units(e)
  BY DEF RecordAt, Interval, RecordUnits, Units, End
<1>3. e.addr \in Nat /\ e.size \in Nat /\ e.size > 0 /\ g.addr \in Nat /\ g.size \in Nat
      /\ h.addr \in Nat /\ h.size \in Nat /\ g.addr <= e.addr /\ e.addr + e.size <= g.addr + g.size
  BY TileTyped DEF Interval, Within, End
<1>4. \A t \in T : /\ RecordAt(f, t) \in Interval /\ t \in Nat /\ f[t].len \in Nat
                   /\ RecordAt(f, t).addr = t /\ RecordAt(f, t).size = f[t].len
  BY <1>1, TileTyped
<1>5. ASSUME NEW t \in T
      PROVE  (t < e.addr => t + f[t].len <= e.addr) /\ (e.addr < t => e.addr + e.size <= t)
             /\ Apart(RecordAt(f, t), h)
  <2>1. t + f[t].len <= g.addr \/ g.addr + g.size <= t
    BY <1>1, <1>4 DEF Apart, End
  <2>2. h = NoStorage \/ (g.addr <= h.addr /\ h.addr + h.size <= g.addr + g.size)
    BY DEF Within, End
  <2>3. Apart(RecordAt(f, t), h)
    <3>1. CASE h = NoStorage
      BY <1>4, <3>1 DEF NoStorage, Apart, End
    <3>2. CASE g.addr <= h.addr /\ h.addr + h.size <= g.addr + g.size
      BY <1>3, <1>4, <2>1, <3>2 DEF Apart, End
    <3>3. QED
      BY <2>2, <3>1, <3>2
  <2>4. QED
    BY <1>3, <1>4, <2>1, <2>3
<1>6. \A t \in S : Get(f, t) = "record" /\ Apart(RecordAt(f, t), h)
  BY <1>1, <1>2, <1>5
<1>7. ASSUME NEW t \in S, NEW u \in S, t < u PROVE t + f[t].len <= u
  <2>1. CASE t = e.addr
    <3>1. u \in T
      BY <1>3, <1>7, <2>1
    <3>2. QED
      BY <1>5, <1>7, <2>1, <3>1
  <2>2. CASE t # e.addr
    <3>1. CASE u = e.addr
      BY <1>5, <1>7, <2>2, <3>1
    <3>2. CASE u # e.addr
      BY <1>1, <1>7, <2>2, <3>2
    <3>3. QED
      BY <3>1, <3>2
  <2>3. QED
    BY <2>1, <2>2
<1>8. ASSUME NEW i \in 1 .. Len(f) PROVE i \in Units(h) \/ \E t \in S : i \in RecordUnits(f, t)
  <2>1. CASE i \in Units(e)
    BY <1>2, <2>1
  <2>2. CASE i \notin Units(e)
    BY <1>1, <2>2
  <2>3. QED
    BY <2>1, <2>2
<1>9. S \in SUBSET (1 .. Len(f))
  BY <1>1
<1> HIDE DEF S
<1>10. Tiling(f, S, h)
  BY <1>6, <1>7, <1>8, <1>9 DEF Tiling
<1>11. QED
  BY <1>10 DEF S

\* Storage behind the end of the file is a gap.
LEMMA GapBehind ==
  ASSUME NEW f \in Seq(FileUnit), NEW T, Tiling(f, T, NoStorage),
         NEW g \in Interval, g.addr = Len(f) + 1
  PROVE  Tiling(f, T, g)
<1>1. /\ T \in SUBSET (1 .. Len(f))
      /\ \A t \in T : Get(f, t) = "record"
      /\ \A i \in 1 .. Len(f) : i \in Units(NoStorage) \/ \E t \in T : i \in RecordUnits(f, t)
  BY DEF Tiling
<1>2. Units(NoStorage) = {}
  BY DEF Units, NoStorage, End
<1>3. \A t \in T : Apart(RecordAt(f, t), g)
  BY <1>1, TileTyped DEF Apart
<1>4. QED
  BY <1>1, <1>2, <1>3 DEF Tiling

------------------------------------------------------------------------------
\* The scan gets to every record in front of the gap,
LEMMA TilesAreScanned ==
  ASSUME NEW f \in Seq(FileUnit), NEW T, NEW g \in Interval, Tiling(f, T, g)
  PROVE  \A t \in T : g.size = 0 \/ t < g.addr => t \in Scan(f).at
<1> DEFINE M == {t \in T : (g.size = 0 \/ t < g.addr) /\ t \notin Scan(f).at}
<1>1. /\ T \in SUBSET (1 .. Len(f)) /\ Len(f) \in Nat
      /\ \A t \in T : Get(f, t) = "record"
      /\ \A t, u \in T : t < u => t + f[t].len <= u
      /\ \A i \in 1 .. Len(f) : i \in Units(g) \/ \E t \in T : i \in RecordUnits(f, t)
  BY DEF Tiling
<1>2. /\ Get(f, Scan(f).stop) # "record"
      /\ 1 \in Scan(f).at \cup {Scan(f).stop}
      /\ \A b \in Scan(f).at : b + f[b].len \in Scan(f).at \cup {Scan(f).stop}
  BY ScanChains DEF Chain
<1>3. SUFFICES ASSUME M # {} PROVE FALSE
  OBVIOUS
<1>4. M \in SUBSET Nat
  BY <1>1
<1>5. PICK m \in M : \A y \in M : m <= y
  BY <1>3, <1>4, Least
<1>6. /\ m \in T /\ m \in 1 .. Len(f) /\ m \notin Scan(f).at /\ Get(f, m) = "record"
      /\ g.size = 0 \/ m < g.addr
  BY <1>1, <1>5
<1>7. m # 1
  BY <1>2, <1>6
<1>8. m - 1 \in 1 .. Len(f) /\ m - 1 \notin Units(g)
  BY <1>1, <1>6, <1>7 DEF Units, End, Interval
<1>9. PICK t \in T : m - 1 \in RecordUnits(f, t)
  BY <1>1, <1>8
<1>10. t \in Nat /\ f[t].len \in Nat /\ m \in Nat /\ t < m /\ t + f[t].len >= m
  BY <1>1, <1>6, <1>9, TileTyped DEF RecordUnits
<1>11. t + f[t].len = m
  BY <1>1, <1>6, <1>10
<1>12. t \in Scan(f).at
  <2>1. t \notin M
    BY <1>5, <1>10
  <2>2. g.size = 0 \/ t < g.addr
    BY <1>6, <1>10 DEF Interval
  <2>3. QED
    BY <2>1, <2>2
<1>13. QED
  BY <1>2, <1>6, <1>11, <1>12

\* and of a file without a gap it reads exactly the records.
LEMMA WholeFileScanned ==
  ASSUME NEW f \in Seq(FileUnit), NEW T, Tiling(f, T, NoStorage)
  PROVE  Scan(f).at = T /\ Scan(f).stop = Len(f) + 1
<1>1. /\ T \in SUBSET (1 .. Len(f)) /\ Len(f) \in Nat
      /\ \A t \in T : Get(f, t) = "record"
      /\ \A i \in 1 .. Len(f) : i \in Units(NoStorage) \/ \E t \in T : i \in RecordUnits(f, t)
  BY DEF Tiling
<1>2. Units(NoStorage) = {} /\ NoStorage \in Interval /\ NoStorage.size = 0
  BY DEF Units, NoStorage, End, Interval
<1>3. T \subseteq Scan(f).at
  BY <1>2, TilesAreScanned
<1>4. /\ Scan(f).stop \in 1 .. Len(f) + 1
      /\ \A b \in Scan(f).at : b \in 1 .. Scan(f).stop - 1 /\ b + f[b].len <= Scan(f).stop
      /\ \A b, c \in Scan(f).at : b < c => b + f[b].len <= c
  BY ScanChains DEF Chain
<1>5. ASSUME NEW b \in Scan(f).at PROVE b \in T
  <2>1. b \in 1 .. Len(f)
    BY <1>1, <1>4
  <2>2. PICK u \in T : b \in RecordUnits(f, u)
    BY <1>1, <1>2, <2>1
  <2>3. u \in Nat /\ f[u].len \in Nat /\ u <= b /\ b < u + f[u].len
    BY <1>1, <2>2, TileTyped DEF RecordUnits
  <2>4. u = b
    BY <1>3, <1>4, <2>1, <2>3
  <2>5. QED
    BY <2>4
<1>6. Scan(f).stop = Len(f) + 1
  <2> SUFFICES ASSUME Scan(f).stop # Len(f) + 1 PROVE FALSE
    OBVIOUS
  <2>1. Scan(f).stop \in 1 .. Len(f)
    BY <1>1, <1>4
  <2>2. PICK u \in T : Scan(f).stop \in RecordUnits(f, u)
    BY <1>1, <1>2, <2>1
  <2>3. u \in Nat /\ f[u].len \in Nat /\ Scan(f).stop < u + f[u].len
    BY <1>1, <2>2, TileTyped DEF RecordUnits
  <2>4. u + f[u].len <= Scan(f).stop
    BY <1>3, <1>4
  <2>5. QED
    BY <2>1, <2>3, <2>4
<1>7. QED
  BY <1>3, <1>5, <1>6

\* A file the scan reads to its end is one without a gap.
LEMMA ScanTiles ==
  ASSUME NEW f \in Seq(FileUnit), Scan(f).stop = Len(f) + 1
  PROVE  Tiling(f, Scan(f).at, NoStorage)
<1>1. /\ \A b \in Scan(f).at : b \in 1 .. Scan(f).stop - 1 /\ Get(f, b) = "record"
      /\ \A b, c \in Scan(f).at : b < c => b + f[b].len <= c
      /\ \A u \in 1 .. Scan(f).stop - 1 : \E b \in Scan(f).at : u \in RecordUnits(f, b)
  BY ScanChains DEF Chain
<1>2. Len(f) \in Nat /\ Scan(f).stop - 1 = Len(f)
  OBVIOUS
<1>3. \A b \in Scan(f).at : Apart(RecordAt(f, b), NoStorage)
  BY RecordTyped DEF Apart, NoStorage, End
<1>4. QED
  BY <1>1, <1>2, <1>3 DEF Tiling

------------------------------------------------------------------------------
(***************************************************************************)
(* Free records in the making.                                             *)
(***************************************************************************)
\* The last of the two writes of a large free record.
Trailer(e) == Write(e.addr + e.size - 1, 1, Free, e.size, "trailer")

\* What the writes still to be made of db5_write_free(), ws, say of the file:
\* the header is there after the first, the record after the last.
Erasing(f, e, ws) ==
  \/ ws = FreeWrites(e)
  \/ e.size > Large /\ ws = <<Trailer(e)>> /\ f[e.addr].of = Free /\ f[e.addr].len = e.size
  \/ ws = <<>> /\ IsRecord(f, e, Free)

\* The storage e lies in the file.
InTheFile(f, e) == e \in Interval /\ e.size > 0 /\ e.addr > 0 /\ End(e) <= Len(f) + 1

LEMMA InTheFileTyped ==
  ASSUME NEW f \in Seq(FileUnit), NEW e, InTheFile(f, e)
  PROVE  /\ e.addr \in Nat /\ e.size \in Nat /\ Len(f) \in Nat /\ e.addr \in 1 .. Len(f)
         /\ e.addr + e.size - 1 \in 1 .. Len(f) /\ e.addr + e.size <= Len(f) + 1
BY DEF InTheFile, Interval, End

\* A write into storage of the file changes nothing else, and not its length.
LEMMA WriteInside ==
  ASSUME NEW f \in Seq(FileUnit), NEW e, InTheFile(f, e),
         NEW w \in Writes, WriteShape(w), Within(Covers(w), e), NEW k \in 0 .. w.size
  PROVE  /\ Written(f, w, k) \in Seq(FileUnit) /\ Len(Written(f, w, k)) = Len(f)
         /\ \A i \in 1 .. Len(f) : i \notin Units(e) => Written(f, w, k)[i] = f[i]
         /\ \A i \in w.addr .. w.addr + k - 1 :
              i \in 1 .. Len(f) /\ Written(f, w, k)[i] = Image(f, w)[i - w.addr + 1]
         /\ \A i \in 1 .. Len(f) :
              i \notin w.addr .. w.addr + k - 1 => Written(f, w, k)[i] = f[i]
         /\ w.addr \in 1 .. Len(f)
<1>1. /\ e.addr \in Nat /\ e.size \in Nat /\ Len(f) \in Nat /\ e.addr > 0
      /\ e.addr + e.size <= Len(f) + 1
  BY InTheFileTyped DEF InTheFile
<1>2. /\ w.addr \in Nat /\ w.size \in Nat /\ w.size > 0 /\ k \in Nat /\ k <= w.size
      /\ e.addr <= w.addr /\ w.addr + w.size <= e.addr + e.size
  BY DEF Writes, WriteShape, Within, Covers, End
<1>3. w.addr \in 1 .. Len(f) /\ w.addr \in 1 .. Len(f) + 1 /\ w.addr <= Len(f)
      /\ w.addr + k - 1 <= Len(f)
  BY <1>1, <1>2
<1>4. /\ Written(f, w, k) \in Seq(FileUnit)
      /\ Len(Written(f, w, k)) = IF k > 0 /\ w.addr + k - 1 > Len(f)
                                 THEN w.addr + k - 1 ELSE Len(f)
      /\ \A i \in w.addr .. w.addr + k - 1 :
           Written(f, w, k)[i] = Image(f, w)[i - w.addr + 1]
      /\ \A i \in 1 .. Len(f) :
           i \notin w.addr .. w.addr + k - 1 => Written(f, w, k)[i] = f[i]
  BY <1>3, WrittenIs
<1>5. \A i \in w.addr .. w.addr + k - 1 : i \in 1 .. Len(f) /\ i \in Units(e)
  BY <1>1, <1>2, <1>3 DEF Units, End
<1>6. Len(Written(f, w, k)) = Len(f)
  BY <1>1, <1>2, <1>3, <1>4
<1>7. QED
  BY <1>3, <1>4, <1>5, <1>6

\* The first and the last unit of a record.
LEMMA RecordEnds ==
  ASSUME NEW of \in Names \cup {Free}, NEW n \in Nat, n > 0
  PROVE  /\ Record(of, n)[1].of = of /\ Record(of, n)[1].len = n
         /\ Record(of, n)[n].last
         /\ \A i \in 1 .. n : Record(of, n)[i].len # 0
<1>1. \A i \in 1 .. n : Record(of, n)[i] = Unit(of, IF i = 1 THEN n ELSE NoHeader, i = n)
  BY RecordIs
<1>2. 1 \in 1 .. n /\ n \in 1 .. n
  OBVIOUS
<1>3. \A i \in 1 .. n : /\ Record(of, n)[i].of = of
                        /\ Record(of, n)[i].len = (IF i = 1 THEN n ELSE NoHeader)
                        /\ i = n => Record(of, n)[i].last
  <2> SUFFICES ASSUME NEW i \in 1 .. n
               PROVE  /\ Record(of, n)[i].of = of
                      /\ Record(of, n)[i].len = (IF i = 1 THEN n ELSE NoHeader)
                      /\ i = n => Record(of, n)[i].last
    OBVIOUS
  <2> DEFINE m == IF i = 1 THEN n ELSE NoHeader
             r == Record(of, n)[i]
  <2>1. r = Unit(of, m, i = n)
    BY <1>1
  <2> HIDE DEF m, r
  <2>2. r.of = of /\ r.len = m
    BY <2>1 DEF Unit
  <2>3. i = n => r.last
    BY <2>1 DEF Unit
  <2>4. QED
    BY <2>2, <2>3 DEF m, r
<1>4. \A i \in 1 .. n : Record(of, n)[i].len # 0
  BY <1>3 DEF NoHeader
<1>5. QED
  BY <1>2, <1>3, <1>4

\* A write that begins a record of e, in whole or as its header.
LEMMA BeginsRecord ==
  ASSUME NEW f \in Seq(FileUnit), NEW e, InTheFile(f, e),
         NEW w \in Writes, WriteShape(w), Within(Covers(w), e),
         w.part \in {"whole", "header"}, w.addr = e.addr, w.len = e.size,
         NEW k \in 1 .. w.size
  PROVE  /\ Written(f, w, k)[e.addr].of = w.of /\ Written(f, w, k)[e.addr].len = e.size
         /\ f[e.addr + e.size - 1].last => Get(Written(f, w, k), e.addr) = "record"
         /\ w.part = "whole" /\ k = w.size => Get(Written(f, w, k), e.addr) = "record"
<1> DEFINE h == Written(f, w, k)
           E == e.addr + e.size - 1
<1>1. /\ e.addr \in Nat /\ e.size \in Nat /\ Len(f) \in Nat /\ e.addr \in 1 .. Len(f)
      /\ E \in 1 .. Len(f) /\ e.addr + e.size <= Len(f) + 1 /\ e.size > 0
  BY InTheFileTyped DEF InTheFile
<1>2. w.of \in Names \cup {Free} /\ w.size \in Nat /\ k \in Nat /\ k > 0 /\ k <= w.size
      /\ k \in 0 .. w.size /\ w.size > 0
  BY DEF Writes
<1>3. /\ h \in Seq(FileUnit) /\ Len(h) = Len(f)
      /\ \A i \in e.addr .. e.addr + k - 1 : h[i] = Image(f, w)[i - e.addr + 1]
      /\ \A i \in 1 .. Len(f) : i \notin e.addr .. e.addr + k - 1 => h[i] = f[i]
      /\ w.addr \in 1 .. Len(f)
  BY <1>2, WriteInside
<1>4. \A j \in 1 .. w.size : Image(f, w)[j] = Record(w.of, e.size)[j]
  BY <1>3, ImageTyped
<1>5. /\ Record(w.of, e.size)[1].of = w.of /\ Record(w.of, e.size)[1].len = e.size
      /\ Record(w.of, e.size)[e.size].last
  BY <1>1, <1>2, RecordEnds
<1> HIDE DEF h
<1>6. h[e.addr] = Record(w.of, e.size)[1]
  <2>1. e.addr \in e.addr .. e.addr + k - 1 /\ e.addr - e.addr + 1 = 1 /\ 1 \in 1 .. w.size
    BY <1>1, <1>2
  <2>2. QED
    BY <1>3, <1>4, <2>1
<1>7. h[E].last => Get(h, e.addr) = "record"
  <2>1. h[e.addr].len = e.size
    BY <1>5, <1>6
  <2>2. e.addr \in 1 .. Len(h) /\ e.addr + e.size <= Len(h) + 1
    BY <1>1, <1>3
  <2>3. QED
    BY <1>1, <1>3, <2>1, <2>2, MakesRecord
<1>8. E \in e.addr .. e.addr + k - 1 => h[E].last
  <2> SUFFICES ASSUME E \in e.addr .. e.addr + k - 1 PROVE h[E].last
    OBVIOUS
  <2>1. w.size >= e.size /\ E - e.addr + 1 = e.size /\ e.size \in 1 .. w.size
    BY <1>1, <1>2
  <2>2. h[E] = Image(f, w)[E - e.addr + 1]
    BY <1>3
  <2>3. h[E] = Record(w.of, e.size)[e.size]
    BY <1>4, <2>1, <2>2
  <2>4. QED
    BY <1>5, <2>3
<1>9. f[E].last => Get(h, e.addr) = "record"
  BY <1>1, <1>3, <1>7, <1>8
<1>10. w.part = "whole" /\ k = w.size => Get(h, e.addr) = "record"
  <2> SUFFICES ASSUME w.part = "whole", k = w.size PROVE E \in e.addr .. e.addr + k - 1
    BY <1>7, <1>8
  <2>1. w.size = e.size
    BY DEF WriteShape
  <2>2. QED
    BY <1>1, <2>1
<1>11. QED
  BY <1>5, <1>6, <1>9, <1>10 DEF h

\* A write of the last byte.
LEMMA EndsRecord ==
  ASSUME NEW f \in Seq(FileUnit), NEW e, InTheFile(f, e), e.size > 2,
         NEW w, w = Trailer(e), NEW k \in 0 .. 1
  PROVE  /\ Written(f, w, k)[e.addr] = f[e.addr]
         /\ f[e.addr].len = e.size /\ (k = 1 \/ f[e.addr + e.size - 1].last)
              => Get(Written(f, w, k), e.addr) = "record"
<1> DEFINE h == Written(f, w, k)
           E == e.addr + e.size - 1
<1>1. /\ e.addr \in Nat /\ e.size \in Nat /\ Len(f) \in Nat /\ e.addr \in 1 .. Len(f)
      /\ E \in 1 .. Len(f) /\ e.addr + e.size <= Len(f) + 1 /\ e.size > 0 /\ E # e.addr
  BY InTheFileTyped DEF InTheFile
<1>2. /\ w.addr = E /\ w.size = 1 /\ w.part = "trailer" /\ w.of = Free /\ w.len = e.size
  BY DEF Trailer, Write
<1>3. w \in Writes /\ WriteShape(w)
  BY <1>1, <1>2 DEF Trailer, Write, Writes, WriteShape
<1>4. Within(Covers(w), e)
  BY <1>1, <1>2 DEF Within, Covers, End
<1>5. Image(f, w) = <<[f[E] EXCEPT !.last = TRUE]>>
  BY <1>2 DEF Image
<1>6. f[E] \in FileUnit
  BY <1>1
<1>7. Image(f, w)[1].last
  BY <1>5, <1>6 DEF FileUnit
<1>8. /\ h \in Seq(FileUnit) /\ Len(h) = Len(f)
      /\ \A i \in E .. E + k - 1 : h[i] = Image(f, w)[i - E + 1]
      /\ \A i \in 1 .. Len(f) : i \notin E .. E + k - 1 => h[i] = f[i]
  BY <1>2, <1>3, <1>4, WriteInside
<1> HIDE DEF h
<1>9. h[e.addr] = f[e.addr]
  <2>1. e.addr \in 1 .. Len(f) /\ e.addr \notin E .. E + k - 1
    BY <1>1
  <2> HIDE DEF E
  <2>2. QED
    BY <1>8, <2>1
<1>10. ASSUME k = 1 PROVE h[E].last
  <2>0. E \in Nat
    BY <1>1
  <2> HIDE DEF E
  <2>1. E \in E .. E + k - 1 /\ E - E + 1 = 1
    BY <1>10, <2>0
  <2>2. h[E] = Image(f, w)[E - E + 1]
    BY <1>8, <2>1
  <2>3. QED
    BY <1>7, <2>1, <2>2
<1>11. f[E].last => h[E].last
  BY <1>1, <1>8, <1>10
<1>12. ASSUME f[e.addr].len = e.size, k = 1 \/ f[E].last PROVE Get(h, e.addr) = "record"
  <2>1. h[E].last /\ h[e.addr].len = e.size
    BY <1>9, <1>10, <1>11, <1>12
  <2>2. e.addr \in 1 .. Len(h) /\ e.addr + e.size <= Len(h) + 1
    BY <1>1, <1>8
  <2>3. QED
    BY <1>1, <1>8, <2>1, <2>2, MakesRecord
<1>13. QED
  BY <1>9, <1>12 DEF h

\* The writes of db5_write_free() on storage of the file.
FreeWrite(e, w) ==
  \/ w = Write(e.addr, e.size, Free, e.size, "whole")
  \/ e.size > Large /\ w = Write(e.addr, 2, Free, e.size, "header")
  \/ e.size > Large /\ w = Trailer(e)

\* The next write of an erasure.
LEMMA ErasingHead ==
  ASSUME NEW f, NEW e \in Interval, e.size > 0, NEW ws, Erasing(f, e, ws), ws # <<>>
  PROVE  /\ FreeWrite(e, Head(ws))
         /\ Head(ws) \in Writes /\ WriteShape(Head(ws)) /\ Within(Covers(Head(ws)), e)
         /\ \/ Tail(ws) = <<>> /\ Head(ws) = Write(e.addr, e.size, Free, e.size, "whole")
            \/ e.size > Large /\ Tail(ws) = <<Trailer(e)>>
               /\ Head(ws) = Write(e.addr, 2, Free, e.size, "header")
            \/ e.size > Large /\ Tail(ws) = <<>> /\ Head(ws) = Trailer(e)
               /\ f[e.addr].of = Free /\ f[e.addr].len = e.size
<1> DEFINE a == Write(e.addr, e.size, Free, e.size, "whole")
           h == Write(e.addr, 2, Free, e.size, "header")
           t == Trailer(e)
<1>1. e.addr \in Nat /\ e.size \in Nat /\ Large \in Nat /\ Large >= 2
  BY StorageAssumption DEF Interval
<1>2. \/ ws = <<a>>
      \/ e.size > Large /\ ws = <<h, t>>
      \/ e.size > Large /\ ws = <<t>> /\ f[e.addr].of = Free /\ f[e.addr].len = e.size
  <2>1. CASE ws = FreeWrites(e)
    <3>1. CASE e.size <= Large
      BY <2>1, <3>1 DEF FreeWrites
    <3>2. CASE ~(e.size <= Large)
      <4>1. e.size > Large
        BY <1>1, <3>2
      <4>2. QED
        BY <2>1, <3>2, <4>1 DEF FreeWrites, Trailer
    <3>3. QED
      BY <3>1, <3>2
  <2>2. QED
    BY <2>1 DEF Erasing
<1>3. /\ a \in Writes /\ WriteShape(a) /\ Within(Covers(a), e)
      /\ e.size > Large => /\ h \in Writes /\ WriteShape(h) /\ Within(Covers(h), e)
                           /\ t \in Writes /\ WriteShape(t) /\ Within(Covers(t), e)
  BY <1>1 DEF Write, Writes, WriteShape, Within, Covers, End, Trailer
<1>4. FreeWrite(e, a) /\ (e.size > Large => FreeWrite(e, h) /\ FreeWrite(e, t))
  BY DEF FreeWrite
<1> HIDE DEF a, h, t
<1>5. CASE ws = <<a>>
  <2>1. Head(ws) = a /\ Tail(ws) = <<>>
    BY <1>5
  <2>2. QED
    BY <1>3, <1>4, <2>1, Zenon DEF a
<1>6. CASE e.size > Large /\ ws = <<h, t>>
  <2>1. Head(ws) = h /\ Tail(ws) = <<t>>
    BY <1>6
  <2>2. QED
    BY <1>3, <1>4, <1>6, <2>1, Zenon DEF h, t
<1>7. CASE e.size > Large /\ ws = <<t>> /\ f[e.addr].of = Free /\ f[e.addr].len = e.size
  <2>1. Head(ws) = t /\ Tail(ws) = <<>>
    BY <1>7
  <2>2. QED
    BY <1>3, <1>4, <1>7, <2>1, Zenon DEF t
<1>8. QED
  BY <1>2, <1>5, <1>6, <1>7, Zenon

\* Each write done takes the storage one step further to a free record.
LEMMA ErasingGoesOn ==
  ASSUME NEW f \in Seq(FileUnit), NEW e, InTheFile(f, e), NEW ws, Erasing(f, e, ws), ws # <<>>
  PROVE  Erasing(Written(f, Head(ws), Head(ws).size), e, Tail(ws))
<1> DEFINE w == Head(ws)
           h == Written(f, w, w.size)
<1>1. e \in Interval /\ e.size > 0 /\ e.addr \in Nat /\ e.size \in Nat
  BY DEF InTheFile, Interval
<1>2. /\ w \in Writes /\ WriteShape(w) /\ Within(Covers(w), e)
      /\ \/ Tail(ws) = <<>> /\ w = Write(e.addr, e.size, Free, e.size, "whole")
         \/ e.size > Large /\ Tail(ws) = <<Trailer(e)>>
            /\ w = Write(e.addr, 2, Free, e.size, "header")
         \/ e.size > Large /\ Tail(ws) = <<>> /\ w = Trailer(e)
            /\ f[e.addr].of = Free /\ f[e.addr].len = e.size
  BY <1>1, ErasingHead
<1>3. w.size \in 1 .. w.size
  BY <1>2 DEF Writes, WriteShape
<1> HIDE DEF w
<1>4. CASE Tail(ws) = <<>> /\ w = Write(e.addr, e.size, Free, e.size, "whole")
  <2>1. w.part = "whole" /\ w.addr = e.addr /\ w.len = e.size /\ w.of = Free
    BY <1>4 DEF Write
  <2>2. h[e.addr].of = Free /\ h[e.addr].len = e.size /\ Get(h, e.addr) = "record"
    BY <1>2, <1>3, <2>1, BeginsRecord
  <2>3. QED
    BY <1>4, <2>2 DEF Erasing, IsRecord, w
<1>5. CASE /\ e.size > Large /\ Tail(ws) = <<Trailer(e)>>
           /\ w = Write(e.addr, 2, Free, e.size, "header")
  <2>1. w.part = "header" /\ w.addr = e.addr /\ w.len = e.size /\ w.of = Free
    BY <1>5 DEF Write
  <2>2. h[e.addr].of = Free /\ h[e.addr].len = e.size
    BY <1>2, <1>3, <2>1, BeginsRecord
  <2>3. QED
    BY <1>5, <2>2 DEF Erasing, w
<1>6. CASE e.size > Large /\ Tail(ws) = <<>> /\ w = Trailer(e)
           /\ f[e.addr].of = Free /\ f[e.addr].len = e.size
  <2>1. w.size = 1 /\ e.size > 2
    BY <1>1, <1>6, StorageAssumption DEF Trailer, Write
  <2>2. h[e.addr] = f[e.addr] /\ Get(h, e.addr) = "record"
    BY <1>6, <2>1, EndsRecord
  <2>3. QED
    BY <1>6, <2>2 DEF Erasing, IsRecord, w
<1>7. QED
  BY <1>2, <1>4, <1>5, <1>6

\* A record stays one of its length while it is erased, wherever that stops.
LEMMA ErasedInPlace ==
  ASSUME NEW f \in Seq(FileUnit), NEW e, InTheFile(f, e),
         Get(f, e.addr) = "record", f[e.addr].len = e.size,
         NEW w, FreeWrite(e, w), NEW k \in 0 .. w.size
  PROVE  Get(Written(f, w, k), e.addr) = "record" /\ Written(f, w, k)[e.addr].len = e.size
<1> DEFINE h == Written(f, w, k)
<1>1. /\ e \in Interval /\ e.addr \in Nat /\ e.size \in Nat /\ e.size > 0 /\ e.addr \in 1 .. Len(f)
      /\ f[e.addr + e.size - 1].last
  <2>1. e.addr \in 1 .. Len(f)
    BY InTheFileTyped
  <2>2. QED
    BY <2>1, InTheFileTyped, TileTyped DEF InTheFile
<1>2. Large \in Nat /\ Large >= 2
  BY StorageAssumption
<1>3. CASE w.part \in {"whole", "header"}
  <2>1. /\ w.addr = e.addr /\ w.len = e.size /\ w \in Writes /\ WriteShape(w)
        /\ Within(Covers(w), e)
    BY <1>1, <1>2, <1>3 DEF FreeWrite, Write, Writes, WriteShape, Within, Covers, End, Trailer
  <2>2. CASE k = 0
    <3>1. h \in Seq(FileUnit) /\ Len(h) = Len(f) /\ \A i \in 1 .. Len(f) : h[i] = f[i]
      <4>1. \A i \in 1 .. Len(f) : i \notin w.addr .. w.addr + k - 1
        BY <1>1, <2>1, <2>2
      <4>2. QED
        BY <2>1, <4>1, WriteInside
    <3>2. Len(f) <= Len(h)
      BY <3>1
    <3> HIDE DEF h
    <3>3. Get(h, e.addr) = "record" /\ h[e.addr] = f[e.addr]
      BY <1>1, <3>1, <3>2, SameRecord
    <3>4. QED
      BY <3>3 DEF h
  <2>3. CASE k # 0
    <3>1. k \in 1 .. w.size
      BY <2>1, <2>3 DEF Writes
    <3>2. QED
      BY <1>1, <1>3, <2>1, <3>1, BeginsRecord
  <2>4. QED
    BY <2>2, <2>3
<1>4. CASE w.part = "trailer"
  <2>1. e.size > Large /\ w = Trailer(e)
    BY <1>4 DEF FreeWrite, Write
  <2>2. w.size = 1 /\ e.size > 2
    BY <1>1, <1>2, <2>1 DEF Trailer, Write
  <2>3. QED
    BY <1>1, <2>1, <2>2, EndsRecord
<1>5. QED
  BY <1>3, <1>4 DEF FreeWrite, Write, Trailer

------------------------------------------------------------------------------
(***************************************************************************)
(* What the process takes the records for.                                 *)
(***************************************************************************)
\* What the record at t is to the process: in the block e of the call in
\* progress, free storage of the map m, or storage of the directory d or of a
\* second record in s.
Accounted(f, t, d, s, m, e) ==
  \/ Within(RecordAt(f, t), e)
  \/ f[t].of = Free /\ RecordUnits(f, t) \subseteq UnitsOf(m)
  \/ f[t].of # Free /\ RecordAt(f, t) \in InUse(d, s)

\* The records at the units T are the file but for the gap g, and they are
\* what the process takes them for.
Holding(f, T, g, d, s, m, e) ==
  /\ Tiling(f, T, g)
  /\ \A t \in T : Accounted(f, t, d, s, m, e)
  /\ \A y \in Names : d[y].size > 0 => d[y].addr \in T /\ IsRecord(f, d[y], y)
  /\ \A i \in s : i.addr \in T /\ RecordAt(f, i.addr) = i /\ f[i.addr].of # Free

LEMMA HoldingTyped ==
  ASSUME NEW f \in Seq(FileUnit), NEW T, NEW g, NEW d, NEW s, NEW m, NEW e,
         Holding(f, T, g, d, s, m, e), NEW t \in T
  PROVE  /\ t \in 1 .. Len(f) /\ Len(f) \in Nat /\ t \in Nat /\ t > 0
         /\ Get(f, t) = "record" /\ Apart(RecordAt(f, t), g)
         /\ f[t].len \in Nat /\ f[t].len > 0 /\ t + f[t].len <= Len(f) + 1
         /\ RecordAt(f, t) \in Interval /\ RecordAt(f, t).addr = t /\ RecordAt(f, t).size = f[t].len
         /\ End(RecordAt(f, t)) = t + f[t].len
         /\ Units(RecordAt(f, t)) = RecordUnits(f, t)
<1>1. t \in 1 .. Len(f) /\ Get(f, t) = "record" /\ Apart(RecordAt(f, t), g)
  BY DEF Holding, Tiling
<1>2. QED
  BY <1>1, TileTyped

\* Nothing lies in no storage.
LEMMA WithinNothing ==
  ASSUME NEW i \in Interval, i.size > 0
  PROVE  ~Within(i, NoStorage)
BY DEF Within, NoStorage, End, Interval

\* The map may grow, and a call may take a block that no record is lost by.
LEMMA HoldingGrows ==
  ASSUME NEW f \in Seq(FileUnit), NEW T, NEW g, NEW d, NEW s, NEW m, NEW e, NEW n, NEW h,
         Holding(f, T, g, d, s, m, e), UnitsOf(m) \subseteq UnitsOf(n), e = h \/ e = NoStorage
  PROVE  Holding(f, T, g, d, s, n, h)
<1> SUFFICES ASSUME NEW t \in T PROVE Accounted(f, t, d, s, n, h)
  BY DEF Holding
<1>1. Accounted(f, t, d, s, m, e)
  BY DEF Holding
<1>2. RecordAt(f, t) \in Interval /\ RecordAt(f, t).size > 0
  BY HoldingTyped
<1>3. Within(RecordAt(f, t), e) => Within(RecordAt(f, t), h)
  BY <1>2, WithinNothing
<1>4. QED
  BY <1>1, <1>3 DEF Accounted

\* A call begins with the storage of a name.
LEMMA TakeName ==
  ASSUME NEW f \in Seq(FileUnit), NEW T, NEW d \in Dir, NEW s, NEW m,
         Holding(f, T, NoStorage, d, s, m, NoStorage), NEW x \in Names, d[x].size > 0
  PROVE  /\ Holding(f, T, NoStorage, Without(d, x), s, m, d[x])
         /\ d[x].addr \in T /\ f[d[x].addr].len = d[x].size
<1>1. \A y \in Names \ {x} : Without(d, x)[y] = d[y]
  BY DEF Without
<1>2. ~(Without(d, x)[x].size > 0)
  BY DEF Without, NoStorage
<1>3. ASSUME NEW t \in T PROVE Accounted(f, t, Without(d, x), s, m, d[x])
  <2>0. RecordAt(f, t) \in Interval /\ RecordAt(f, t).size > 0
    BY HoldingTyped
  <2>1. Accounted(f, t, d, s, m, NoStorage) /\ ~Within(RecordAt(f, t), NoStorage)
    BY <2>0, WithinNothing DEF Holding
  <2>2. ASSUME RecordAt(f, t) \in InUse(d, s), RecordAt(f, t) # d[x]
        PROVE  RecordAt(f, t) \in InUse(Without(d, x), s)
    BY <1>1, <2>2 DEF InUse
  <2>3. Within(d[x], d[x])
    <3>1. d[x] \in Interval
      BY DEF Dir
    <3>2. QED
      BY <3>1 DEF Within, Interval, End
  <2>4. QED
    BY <2>1, <2>2, <2>3 DEF Accounted
<1>4. \A y \in Names : Without(d, x)[y].size > 0 =>
        Without(d, x)[y].addr \in T /\ IsRecord(f, Without(d, x)[y], y)
  BY <1>1, <1>2 DEF Holding
<1>5. QED
  BY <1>3, <1>4 DEF Holding, IsRecord

\* An interval of the map leaves it: the free records in it are the call's.
LEMMA TakeFreeTiles ==
  ASSUME NEW f \in Seq(FileUnit), NEW T, NEW d, NEW s,
         NEW m \in SUBSET Interval, Separated(m), NEW i \in m,
         Holding(f, T, NoStorage, d, s, m, NoStorage)
  PROVE  Holding(f, T, NoStorage, d, s, m \ {i}, i)
<1> SUFFICES ASSUME NEW t \in T PROVE Accounted(f, t, d, s, m \ {i}, i)
  BY DEF Holding
<1> DEFINE r == RecordAt(f, t)
<1>1. r \in Interval /\ r.size > 0 /\ Units(r) = RecordUnits(f, t)
  BY HoldingTyped
<1>2. Accounted(f, t, d, s, m, NoStorage) /\ ~Within(r, NoStorage)
  BY <1>1, WithinNothing DEF Holding
<1>3. ASSUME RecordUnits(f, t) \subseteq UnitsOf(m), ~Within(r, i)
      PROVE  RecordUnits(f, t) \subseteq UnitsOf(m \ {i})
  <2> HIDE DEF r
  <2>1. PICK j \in m : Within(r, j)
    BY <1>1, <1>3, ContiguousInOne
  <2>2. j \in m \ {i}
    BY <1>3, <2>1
  <2>3. Units(r) \subseteq Units(j)
    BY <1>1, <2>1 DEF Within, Units, End, Interval
  <2>4. QED
    BY <1>1, <2>2, <2>3 DEF UnitsOf
<1>4. QED
  BY <1>2, <1>3 DEF Accounted

\* The records that fill the block e are taken out.
LEMMA OpenBlock ==
  ASSUME NEW f \in Seq(FileUnit), NEW T, NEW d, NEW s, NEW m, NEW e \in Interval, e.size > 0,
         Holding(f, T, NoStorage, d, s, m, e),
         \A t \in T : Within(RecordAt(f, t), e) \/ Apart(RecordAt(f, t), e),
         \A y \in Names : d[y].size > 0 => d[y] \in Interval /\ Apart(e, d[y]),
         \A i \in s : i \in Interval /\ Apart(e, i)
  PROVE  Holding(f, {t \in T : Apart(RecordAt(f, t), e)}, e, d, s, m, e)
<1> DEFINE S == {t \in T : Apart(RecordAt(f, t), e)}
<1>1. Tiling(f, S, e)
  BY OpenGap DEF Holding
<1>2. \A t \in S : Accounted(f, t, d, s, m, e)
  BY DEF Holding
<1>3. ASSUME NEW y \in Names, d[y].size > 0 PROVE d[y].addr \in S /\ IsRecord(f, d[y], y)
  <2>1. d[y].addr \in T /\ IsRecord(f, d[y], y) /\ d[y] \in Interval /\ Apart(d[y], e)
    BY <1>3, ApartSymmetric DEF Holding
  <2>2. RecordAt(f, d[y].addr) = d[y]
    BY <2>1 DEF RecordAt, IsRecord, Interval
  <2>3. QED
    BY <2>1, <2>2
<1>4. ASSUME NEW i \in s PROVE i.addr \in S /\ RecordAt(f, i.addr) = i /\ f[i.addr].of # Free
  <2>1. i.addr \in T /\ RecordAt(f, i.addr) = i /\ f[i.addr].of # Free /\ Apart(i, e)
    BY ApartSymmetric DEF Holding
  <2>2. QED
    BY <2>1
<1> HIDE DEF S
<1>5. Holding(f, S, e, d, s, m, e)
  BY <1>1, <1>2, <1>3, <1>4 DEF Holding
<1>6. QED
  BY <1>5 DEF S

\* No record reaches into a block apart from all storage but the call's.
LEMMA WithinOrApart ==
  ASSUME NEW f \in Seq(FileUnit), NEW T, NEW g, NEW d, NEW s, NEW m \in SUBSET Interval,
         NEW end, NEW e, Holding(f, T, g, d, s, m, e), Clear(e, d, s, m, end), NEW t \in T
  PROVE  Within(RecordAt(f, t), e) \/ Apart(RecordAt(f, t), e)
<1> DEFINE r == RecordAt(f, t)
<1>1. r \in Interval /\ r.size > 0 /\ Units(r) = RecordUnits(f, t) /\ e \in Interval /\ e.size > 0
  BY HoldingTyped DEF Clear
<1>2. Accounted(f, t, d, s, m, e)
  BY DEF Holding
<1>3. ASSUME RecordUnits(f, t) \subseteq UnitsOf(m) PROVE Apart(r, e)
  <2>1. \A i \in m : \A u \in Units(i) : u \notin Units(e)
    BY DEF Clear, Apart, Units, End, Interval
  <2>2. Units(r) \cap Units(e) = {}
    BY <1>1, <1>3, <2>1 DEF UnitsOf
  <2>3. QED
    BY <1>1, <2>2, DisjointApart
<1>4. ASSUME r \in InUse(d, s) PROVE Apart(r, e)
  <2>1. Apart(e, r)
    BY <1>4 DEF InUse, Clear
  <2>2. QED
    BY <1>1, <2>1, ApartSymmetric
<1>5. QED
  BY <1>2, <1>3, <1>4 DEF Accounted

\* A block apart from all other storage may be opened,
LEMMA OpenClear ==
  ASSUME NEW f \in Seq(FileUnit), NEW T, NEW d \in Dir, NEW s \in SUBSET Interval,
         NEW m \in SUBSET Interval, NEW end, NEW e,
         Holding(f, T, NoStorage, d, s, m, e), Clear(e, d, s, m, end)
  PROVE  Holding(f, {t \in T : Apart(RecordAt(f, t), e)}, e, d, s, m, e)
<1>1. e \in Interval /\ e.size > 0
  BY DEF Clear
<1>2. \A t \in T : Within(RecordAt(f, t), e) \/ Apart(RecordAt(f, t), e)
  BY WithinOrApart
<1>3. \A y \in Names : d[y].size > 0 => d[y] \in Interval /\ Apart(e, d[y])
  BY DEF Clear, Dir
<1>4. \A i \in s : i \in Interval /\ Apart(e, i)
  BY DEF Clear
<1>5. QED
  BY <1>1, <1>2, <1>3, <1>4, OpenBlock

\* A block that is one record: every other record is apart from it.
LEMMA OneRecordBlock ==
  ASSUME NEW f \in Seq(FileUnit), NEW T, NEW g, NEW d, NEW s, NEW m,
         NEW e \in Interval, NEW h, e.size > 0,
         Holding(f, T, g, d, s, m, h), e.addr \in T, f[e.addr].len = e.size, NEW t \in T
  PROVE  /\ RecordAt(f, e.addr) = e
         /\ t # e.addr => Apart(RecordAt(f, t), e) /\ ~Within(RecordAt(f, t), e)
<1>1. RecordAt(f, e.addr) = e
  BY DEF RecordAt, Interval
<1>2. t \in Nat /\ f[t].len \in Nat /\ f[t].len > 0 /\ RecordAt(f, t).addr = t
      /\ End(RecordAt(f, t)) = t + f[t].len
  BY HoldingTyped
<1>3. \A u, v \in T : u < v => u + f[u].len <= v
  BY DEF Holding, Tiling
<1>4. t # e.addr => t + f[t].len <= e.addr \/ e.addr + e.size <= t
  BY <1>2, <1>3 DEF Interval
<1>5. QED
  BY <1>1, <1>2, <1>4 DEF Apart, Within, End, Interval

\* and so may a block that is one record.
LEMMA OpenRecord ==
  ASSUME NEW f \in Seq(FileUnit), NEW T, NEW d \in Dir, NEW s \in SUBSET Interval,
         NEW m, NEW n, NEW end, NEW e,
         Holding(f, T, NoStorage, d, s, m, e), Clear(e, d, s, n, end),
         e.addr \in T, f[e.addr].len = e.size
  PROVE  Holding(f, {t \in T : Apart(RecordAt(f, t), e)}, e, d, s, m, e)
<1>1. e \in Interval /\ e.size > 0
  BY DEF Clear
<1>2. ASSUME NEW t \in T PROVE Within(RecordAt(f, t), e) \/ Apart(RecordAt(f, t), e)
  <2>1. RecordAt(f, e.addr) = e /\ (t # e.addr => Apart(RecordAt(f, t), e))
    BY <1>1, OneRecordBlock
  <2>2. Within(e, e)
    BY <1>1 DEF Within, End, Interval
  <2>3. QED
    BY <2>1, <2>2
<1>3. \A y \in Names : d[y].size > 0 => d[y] \in Interval /\ Apart(e, d[y])
  BY DEF Clear, Dir
<1>4. \A i \in s : i \in Interval /\ Apart(e, i)
  BY DEF Clear
<1>5. QED
  BY <1>1, <1>2, <1>3, <1>4, OpenBlock

\* The file changes in the gap, or behind its end where the gap goes on.
LEMMA GapWritten ==
  ASSUME NEW f \in Seq(FileUnit), NEW T, NEW g \in Interval, NEW d, NEW s, NEW m, NEW e,
         Holding(f, T, g, d, s, m, e),
         NEW h \in Seq(FileUnit), Len(f) <= Len(h),
         \A i \in 1 .. Len(f) : i \notin Units(g) => h[i] = f[i],
         \A i \in 1 .. Len(h) : i > Len(f) => i \in Units(g)
  PROVE  Holding(h, T, g, d, s, m, e)
<1>1. /\ Tiling(h, T, g)
      /\ \A t \in T : h[t] = f[t] /\ RecordAt(h, t) = RecordAt(f, t)
  BY GapStays DEF Holding
<1>2. ASSUME NEW t \in T PROVE Accounted(h, t, d, s, m, e)
  <2>1. Accounted(f, t, d, s, m, e)
    BY DEF Holding
  <2>2. RecordUnits(h, t) = RecordUnits(f, t)
    BY <1>1 DEF RecordUnits
  <2>3. QED
    BY <1>1, <2>1, <2>2 DEF Accounted
<1>3. \A t \in T : Get(h, t) = "record"
  BY <1>1 DEF Tiling
<1>4. \A y \in Names : d[y].size > 0 => d[y].addr \in T /\ IsRecord(h, d[y], y)
  BY <1>1, <1>3 DEF Holding, IsRecord
<1>5. \A i \in s : i.addr \in T /\ RecordAt(h, i.addr) = i /\ h[i.addr].of # Free
  BY <1>1 DEF Holding
<1>6. QED
  BY <1>1, <1>2, <1>4, <1>5 DEF Holding

\* A record fills the gap, all of it or but for the gap h: it is free storage
\* of the map, or in the block h the call is left with.
LEMMA GapFilled ==
  ASSUME NEW f \in Seq(FileUnit), NEW T, NEW g \in Interval, NEW d, NEW s, NEW m, NEW n,
         Holding(f, T, g, d, s, m, g), UnitsOf(m) \subseteq UnitsOf(n),
         NEW e \in Interval, e.addr \in 1 .. Len(f), Get(f, e.addr) = "record",
         f[e.addr].len = e.size, Within(e, g),
         NEW h \in Interval, Apart(e, h), h = NoStorage \/ Within(h, g),
         Units(g) \subseteq Units(e) \cup Units(h),
         NEW b, Within(e, b) \/ (f[e.addr].of = Free /\ Units(e) \subseteq UnitsOf(n))
  PROVE  Holding(f, T \cup {e.addr}, h, d, s, n, b)
<1> DEFINE S == T \cup {e.addr}
<1>1. Tiling(f, S, h)
  BY FillGap DEF Holding
<1>2. RecordAt(f, e.addr) = e /\ RecordUnits(f, e.addr) = Units(e)
  BY DEF RecordAt, Interval, RecordUnits, Units, End
<1>3. Accounted(f, e.addr, d, s, n, b)
  BY <1>2 DEF Accounted
<1>4. ASSUME NEW t \in T PROVE Accounted(f, t, d, s, n, b)
  <2>1. Accounted(f, t, d, s, m, g) /\ Apart(RecordAt(f, t), g)
    BY DEF Holding, Tiling
  <2>2. RecordAt(f, t) \in Interval /\ RecordAt(f, t).size > 0
    BY HoldingTyped
  <2>3. ~Within(RecordAt(f, t), g)
    BY <2>1, <2>2 DEF Apart, Within, End, Interval
  <2>4. QED
    BY <2>1, <2>3 DEF Accounted
<1>5. \A t \in S : Accounted(f, t, d, s, n, b)
  BY <1>3, <1>4
<1>6. /\ \A y \in Names : d[y].size > 0 => d[y].addr \in S /\ IsRecord(f, d[y], y)
      /\ \A i \in s : i.addr \in S /\ RecordAt(f, i.addr) = i /\ f[i.addr].of # Free
  BY DEF Holding
<1> HIDE DEF S
<1>7. Holding(f, S, h, d, s, n, b)
  BY <1>1, <1>5, <1>6 DEF Holding
<1>8. QED
  BY <1>7 DEF S

\* A record fills the block of the call that was opened.
LEMMA BlockFilled ==
  ASSUME NEW f \in Seq(FileUnit), NEW T, NEW d, NEW s, NEW m, NEW e \in Interval,
         Holding(f, T, e, d, s, m, e), e.addr \in 1 .. Len(f), Get(f, e.addr) = "record",
         f[e.addr].len = e.size
  PROVE  Holding(f, T \cup {e.addr}, NoStorage, d, s, m, e)
<1>1. Within(e, e)
  BY DEF Within, End, Interval
<1>2. NoStorage \in Interval /\ Apart(e, NoStorage)
  BY DEF NoStorage, Interval, Apart, End
<1>3. Units(e) \subseteq Units(e) \cup Units(NoStorage)
  OBVIOUS
<1>4. QED
  BY <1>1, <1>2, <1>3, GapFilled

\* Storage behind the end of the file is a gap.
LEMMA BlockBehind ==
  ASSUME NEW f \in Seq(FileUnit), NEW T, NEW d, NEW s, NEW m, NEW e,
         Holding(f, T, NoStorage, d, s, m, e), NEW g \in Interval, g.addr = Len(f) + 1
  PROVE  Holding(f, T, g, d, s, m, e)
BY GapBehind DEF Holding

\* The block of the call is a free record: its storage is free.
LEMMA ReleaseBlock ==
  ASSUME NEW f \in Seq(FileUnit), NEW T, NEW g, NEW d, NEW s, NEW m, NEW n,
         NEW e \in Interval, e.size > 0,
         Holding(f, T, g, d, s, m, e), e.addr \in T, IsRecord(f, e, Free),
         UnitsOf(m) \subseteq UnitsOf(n), Units(e) \subseteq UnitsOf(n)
  PROVE  Holding(f, T, g, d, s, n, NoStorage)
<1> SUFFICES ASSUME NEW t \in T PROVE Accounted(f, t, d, s, n, NoStorage)
  BY DEF Holding
<1>1. Accounted(f, t, d, s, m, e)
  BY DEF Holding
<1>2. f[e.addr].len = e.size /\ f[e.addr].of = Free
  BY DEF IsRecord
<1>3. RecordAt(f, e.addr) = e /\ (t # e.addr => ~Within(RecordAt(f, t), e))
  BY <1>2, OneRecordBlock
<1>4. RecordUnits(f, e.addr) = Units(e)
  BY <1>2 DEF RecordUnits, Units, End, Interval
<1>5. QED
  BY <1>1, <1>2, <1>3, <1>4 DEF Accounted

\* The block of the call is the record of its object.
LEMMA StoreBlock ==
  ASSUME NEW f \in Seq(FileUnit), NEW T, NEW g, NEW d \in Dir, NEW s, NEW m,
         NEW x \in Names, d[x].size > 0,
         Holding(f, T, g, Without(d, x), s, m, d[x]), d[x].addr \in T, IsRecord(f, d[x], x)
  PROVE  Holding(f, T, g, d, s, m, NoStorage)
<1>1. \A y \in Names \ {x} : Without(d, x)[y] = d[y]
  BY DEF Without
<1>2. d[x] \in Interval /\ f[d[x].addr].len = d[x].size /\ f[d[x].addr].of = x /\ x # Free
  BY StorageAssumption DEF Dir, IsRecord
<1>3. InUse(Without(d, x), s) \subseteq InUse(d, s) /\ d[x] \in InUse(d, s)
  <2>1. \A y \in Names : Without(d, x)[y].size > 0 => y # x
    BY DEF Without, NoStorage
  <2>2. QED
    BY <1>1, <2>1 DEF InUse
<1>4. ASSUME NEW t \in T PROVE Accounted(f, t, d, s, m, NoStorage)
  <2>1. Accounted(f, t, Without(d, x), s, m, d[x])
    BY DEF Holding
  <2>2. RecordAt(f, d[x].addr) = d[x] /\ (t # d[x].addr => ~Within(RecordAt(f, t), d[x]))
    BY <1>2, OneRecordBlock
  <2>3. QED
    BY <1>2, <1>3, <2>1, <2>2 DEF Accounted
<1>5. \A y \in Names : d[y].size > 0 => d[y].addr \in T /\ IsRecord(f, d[y], y)
  BY <1>1 DEF Holding
<1>6. QED
  BY <1>4, <1>5 DEF Holding

------------------------------------------------------------------------------
(***************************************************************************)
(* 5. The file and the process agree.                                      *)
(***************************************************************************)
\* Every header has a possible length.
NoZero(f) == \A i \in 1 .. Len(f) : f[i].len # 0

\* The block that has no record while it is cut in two.
Gap == IF Cutting THEN op.hold ELSE NoStorage

\* What is kept of a block that is cut in two, and what the call is erasing.
Front == [addr |-> op.hold.addr, size |-> op.size]
Target ==
  CASE op.pc = "front" -> Front
    [] op.pc \in {"back", "surplus"} -> BackHalf
    [] op.pc \in {"erase", "kill", "release"} -> Held

\* The records at the units T are the file, and what the process takes them for.
Memory(T) ==
  /\ Holding(file, T, Gap, Others, strays, freep, Held)
  /\ op.pc \in {"kill", "release"} \/ (op.pc = "write" /\ writes = <<>>)
       => Held.addr \in T /\ file[Held.addr].len = Held.size

\* The scan gets to the objects in front of unit c that no call is about.
Reached(f, c) == \A x \in Names : kept[x].size > 0 /\ kept[x].addr < c => kept[x].addr \in Scan(f).at

\* The file goes up to where the process takes it to end; when it grows, the
\* write that takes it there is the next.
EndsAtEof ==
  \/ eof = Len(file) + 1
  \/ /\ op.pc = "write" /\ writes = <<ObjectWrite>>
     /\ op.hold.addr = Len(file) + 1 /\ End(op.hold) = eof

OpenInv ==
  /\ \E T : Memory(T)
  /\ \A y \in Names : Others[y].size > 0 \/ Others[y] = NoStorage
  /\ op.pc \notin {"idle", "write"} => Erasing(file, Target, writes)
  /\ op.pc = "back" => IsRecord(file, Front, Free)
  /\ op.pc = "release" => Units(Held) \subseteq UnitsOf(freep)
  /\ EndsAtEof

TileInv ==
  /\ NoZero(file)
  /\ up /\ ~readOnly => OpenInv
  /\ ~up \/ readOnly => Reached(file, cut)

FullInv == DataInv /\ TileInv

------------------------------------------------------------------------------
\* No write puts a header of length 0 into the file.
LEMMA NoZeroWritten ==
  ASSUME NEW f \in Seq(FileUnit), NoZero(f),
         NEW w \in Writes, WriteShape(w), NEW k \in 0 .. w.size,
         w.addr \in 1 .. Len(f) + 1, w.part = "trailer" => w.addr <= Len(f)
  PROVE  NoZero(Written(f, w, k))
<1> DEFINE h == Written(f, w, k)
<1>1. /\ w.addr \in Nat /\ w.size \in Nat /\ k \in Nat /\ k <= w.size /\ Len(f) \in Nat
      /\ w.of \in Names \cup {Free} /\ w.len \in Nat /\ w.len > 0
      /\ w.size <= w.len \/ w.part = "trailer"
  BY DEF Writes, WriteShape
<1>2. /\ Len(h) = IF k > 0 /\ w.addr + k - 1 > Len(f) THEN w.addr + k - 1 ELSE Len(f)
      /\ \A i \in w.addr .. w.addr + k - 1 : h[i] = Image(f, w)[i - w.addr + 1]
      /\ \A i \in 1 .. Len(f) : i \notin w.addr .. w.addr + k - 1 => h[i] = f[i]
  BY WrittenIs
<1>3. ASSUME NEW j \in 1 .. w.size PROVE Image(f, w)[j].len # 0
  <2>1. CASE w.part \in {"whole", "header"}
    <3>1. Image(f, w)[j] = Record(w.of, w.len)[j]
      BY <1>1, <2>1, ImageTyped
    <3>2. j \in 1 .. w.len
      BY <1>1, <2>1
    <3>3. \A i \in 1 .. w.len : Record(w.of, w.len)[i].len # 0
      BY <1>1, RecordEnds
    <3>4. QED
      BY <3>1, <3>2, <3>3
  <2>2. CASE w.part = "trailer"
    <3> DEFINE u == f[w.addr]
    <3>1. w.addr \in 1 .. Len(f) /\ j = 1
      BY <1>1, <2>2 DEF WriteShape
    <3>2. u \in FileUnit /\ u.len # 0
      BY <3>1 DEF NoZero
    <3>3. Image(f, w) = <<[u EXCEPT !.last = TRUE]>>
      BY <2>2 DEF Image
    <3> DEFINE v == [u EXCEPT !.last = TRUE]
    <3> HIDE DEF u
    <3>4. v.len = u.len
      BY <3>2 DEF FileUnit
    <3>5. Image(f, w)[1] = v
      BY <3>3
    <3> HIDE DEF v
    <3>6. QED
      BY <3>1, <3>2, <3>4, <3>5
  <2>3. QED
    BY <2>1, <2>2 DEF Writes
<1> HIDE DEF h
<1>4. ASSUME NEW i \in 1 .. Len(h) PROVE h[i].len # 0
  <2>1. CASE i \in w.addr .. w.addr + k - 1
    <3>1. i - w.addr + 1 \in 1 .. w.size
      BY <1>1, <2>1
    <3>2. QED
      BY <1>2, <1>3, <2>1, <3>1
  <2>2. CASE i \notin w.addr .. w.addr + k - 1
    <3>1. i \in 1 .. Len(f)
      BY <1>1, <1>2, <2>2
    <3>2. QED
      BY <1>2, <2>2, <3>1 DEF NoZero
  <2>3. QED
    BY <2>1, <2>2
<1>5. QED
  BY <1>4 DEF NoZero, h

\* Between calls the records are what the directory and the map say.
LEMMA Settled ==
  ASSUME DataInv, OpenInv, up, ~readOnly, op.pc = "idle"
  PROVE  /\ \E T : Holding(file, T, NoStorage, dir, strays, freep, NoStorage)
         /\ \A y \in Names : dir[y].size > 0 \/ dir[y] = NoStorage
         /\ eof = Len(file) + 1 /\ file \in Seq(FileUnit)
         /\ dir \in Dir /\ strays \in SUBSET Interval /\ freep \in SUBSET Interval
         /\ eof \in Nat /\ WellFormed(dir, strays, freep, eof) /\ op = Idle
<1>1. op = Idle /\ StorageInv /\ FileInv
  BY DEF DataInv, StorageInv
<1>2. dir \in Dir /\ strays \in SUBSET Interval /\ freep \in SUBSET Interval /\ eof \in Nat
      /\ file \in Seq(FileUnit)
  BY <1>1 DEF StorageInv, StorageTypeOK, FileInv, Dir
<1>3. Others = dir
  <2>1. op.name \notin Names
    BY <1>1, StorageAssumption DEF Idle
  <2>2. QED
    BY <1>2, <2>1, WithoutNobody DEF Others
<1>4. Held = NoStorage /\ Gap = NoStorage /\ op.pc # "write"
  BY <1>1 DEF Held, Idle, Gap, Cutting
<1>5. PICK T : Memory(T)
  BY DEF OpenInv
<1>6. Holding(file, T, NoStorage, dir, strays, freep, NoStorage)
  BY <1>3, <1>4, <1>5 DEF Memory
<1>7. WellFormed(dir, strays, freep, eof)
  BY <1>1, <1>3 DEF StorageInv
<1>8. QED
  BY <1>1, <1>2, <1>3, <1>4, <1>6, <1>7 DEF OpenInv, EndsAtEof

\* Storage apart from the map is added to it, whole.
LEMMA ReleasedUnits ==
  ASSUME NEW m \in SUBSET Interval, Separated(m), NEW e \in Interval, e.size > 0,
         \A i \in m : Apart(e, i)
  PROVE  UnitsOf(MemFree(m, e.size, e.addr)) = UnitsOf(m) \cup Units(e)
<1>1. e.addr \in Nat /\ e.size \in Nat /\ e = [addr |-> e.addr, size |-> e.size]
  BY DEF Interval
<1>2. ~Refused(m, e.size, e.addr)
  BY <1>1, RefusedIff
<1>3. Units(e) = e.addr .. (e.addr + e.size - 1)
  BY <1>1 DEF Units, End
<1>4. QED
  BY <1>1, <1>2, <1>3, MemFreeUnits

\* The tail of db5_realloc().
LEMMA ObtainOpens ==
  ASSUME StorageInv', FileInv', up', ~readOnly',
         NEW T, NEW x \in Names, NEW n \in Nat \ {0}, Obtain(x, n, freep),
         dir \in Dir, strays \in SUBSET Interval, freep \in SUBSET Interval, Separated(freep),
         Holding(file, T, NoStorage, Without(dir, x), strays, freep, NoStorage),
         \A y \in Names : Without(dir, x)[y].size > 0 \/ Without(dir, x)[y] = NoStorage,
         eof \in Nat, eof = Len(file) + 1, file' = file, file \in Seq(FileUnit), strays' = strays
  PROVE  OpenInv'
<1> DEFINE d == Without(dir, x)
<1>1. op'.name = x /\ op'.pc \in {"write", "surplus"} /\ \A y \in Names \ {x} : dir'[y] = dir[y]
  BY ObtainShape
<1>2. dir' \in Dir /\ freep' \in SUBSET Interval
  BY DEF StorageInv, StorageTypeOK, Dir
<1>3. Others' = d
  BY <1>1, <1>2, WithoutIgnores DEF Others
<1>4. d \in Dir
  BY WithoutType
<1>5. Held' = op'.hold
  BY <1>1 DEF Held
<1> HIDE DEF d
<1>6. CASE Fitting(freep, n) = {}
  <2> DEFINE new == [addr |-> eof, size |-> n]
  <2>1. freep' = freep /\ eof' = eof + n /\ WriteObject(x, n, new)
    BY <1>6 DEF Obtain
  <2>2. op'.hold = new /\ op'.pc = "write" /\ op'.size = n
        /\ writes' = <<Write(eof, n, x, n, "whole")>>
    BY <2>1 DEF WriteObject
  <2>3. Gap' = NoStorage
    BY <2>2 DEF Gap, Cutting
  <2>4. Holding(file, T, NoStorage, d, strays, freep, new)
    BY HoldingGrows DEF d
  <2>5. ObjectWrite' = Write(eof, n, x, n, "whole")
    BY <1>1, <2>2 DEF ObjectWrite
  <2>6. op'.hold.addr = eof /\ End(op'.hold) = eof'
    BY <2>1, <2>2 DEF End
  <2>7. EndsAtEof'
    BY <2>2, <2>5, <2>6 DEF EndsAtEof
  <2>8. writes' # <<>>
    BY <2>2
  <2> HIDE DEF new
  <2>9. Memory(T)'
    BY <1>3, <1>5, <2>1, <2>2, <2>3, <2>4, <2>8 DEF Memory
  <2>10. QED
    BY <1>3, <2>2, <2>7, <2>9 DEF OpenInv, d
<1>7. CASE Fitting(freep, n) # {}
  <2> DEFINE m == BestFit(freep, n)
             surplus == [addr |-> m.addr + n, size |-> m.size - n]
  <2>1. m \in freep /\ m \in Interval /\ m.size >= n
    BY <1>7, BestFitFits DEF Fitting
  <2>2. /\ eof' = eof /\ freep' = freep \ {m}
        /\ m.size = n => WriteObject(x, n, m)
        /\ m.size # n => /\ op' = [pc |-> "surplus", name |-> x, size |-> n, hold |-> m]
                         /\ writes' = FreeWrites(surplus)
    BY <1>7 DEF Obtain
  <2> HIDE DEF m
  <2>3. Holding(file, T, NoStorage, d, strays, freep', m)
    BY <2>1, <2>2, TakeFreeTiles DEF d
  <2>4. CASE m.size = n
    <3>0. WriteObject(x, n, m)
      BY <2>2, <2>4
    <3>1. op'.hold = m /\ op'.pc = "write" /\ writes' # <<>>
      BY <3>0 DEF WriteObject
    <3>2. Gap' = NoStorage
      BY <3>1 DEF Gap, Cutting
    <3>3. Memory(T)'
      BY <1>3, <1>5, <2>3, <3>1, <3>2 DEF Memory
    <3>4. EndsAtEof'
      BY <2>2 DEF EndsAtEof
    <3>5. QED
      BY <1>3, <3>1, <3>3, <3>4 DEF OpenInv, d
  <2>5. CASE m.size # n
    <3>1. op'.hold = m /\ op'.pc = "surplus" /\ op'.size = n /\ writes' = FreeWrites(surplus)
      BY <2>2, <2>5
    <3>2. Gap' = m /\ Held' = m
      BY <1>5, <3>1 DEF Gap, Cutting
    <3>3. Clear(m, d, strays, freep', eof')
      BY <1>3, <3>1, <3>2 DEF StorageInv, HeldInv, FreeElsewhere
    <3>4. PICK S : Holding(file, S, m, d, strays, freep', m)
      BY <1>2, <1>4, <2>3, <3>3, OpenClear
    <3>5. Memory(S)'
      BY <1>3, <3>1, <3>2, <3>4 DEF Memory
    <3>6. EndsAtEof'
      BY <2>2 DEF EndsAtEof
    <3>7. Target' = surplus
      BY <3>1 DEF Target, BackHalf
    <3>8. Erasing(file', Target', writes')
      BY <3>1, <3>7 DEF Erasing
    <3>9. QED
      BY <1>3, <3>1, <3>5, <3>6, <3>8 DEF OpenInv, d
  <2>6. QED
    BY <2>4, <2>5
<1>8. QED
  BY <1>6, <1>7

\* A call that begins with the storage of a name.
LEMMA BeginOpens ==
  ASSUME DataInv, OpenInv, DataInv', Begin
  PROVE  OpenInv'
<1>1. /\ up /\ ~readOnly /\ op.pc = "idle" /\ up' /\ ~readOnly' /\ file' = file
      /\ op'.name \in Names /\ \A y \in Names \ {op'.name} : dir'[y] = dir[y]
  <2>1. op = Idle /\ file' = file
    BY BeginShape DEF DataInv, Begin
  <2>2. QED
    BY <2>1, BeginShape DEF DataInv, Idle
<1>2. /\ \E T : Holding(file, T, NoStorage, dir, strays, freep, NoStorage)
      /\ \A y \in Names : dir[y].size > 0 \/ dir[y] = NoStorage
      /\ eof = Len(file) + 1 /\ file \in Seq(FileUnit)
      /\ dir \in Dir /\ strays \in SUBSET Interval /\ freep \in SUBSET Interval
      /\ eof \in Nat /\ WellFormed(dir, strays, freep, eof)
  BY <1>1, Settled
<1>3. PICK T : Holding(file, T, NoStorage, dir, strays, freep, NoStorage)
  BY <1>2
<1>4. StorageInv' /\ FileInv'
  BY DEF DataInv
<1>5. dir' \in Dir
  BY <1>4 DEF StorageInv, StorageTypeOK, Dir
<1>6. \A x \in Names : op'.name = x => Others' = Without(dir, x)
  BY <1>1, <1>2, <1>5, WithoutIgnores DEF Others
<1>7. \A x, y \in Names : Without(dir, x)[y].size > 0 \/ Without(dir, x)[y] = NoStorage
  BY <1>2 DEF Without
<1>8. \A x \in Names : dir[x].size > 0 =>
        /\ Holding(file, T, NoStorage, Without(dir, x), strays, freep, dir[x])
        /\ dir[x].addr \in T /\ file[dir[x].addr].len = dir[x].size /\ dir[x] \in Interval
  <2> SUFFICES ASSUME NEW x \in Names, dir[x].size > 0
               PROVE  /\ Holding(file, T, NoStorage, Without(dir, x), strays, freep, dir[x])
                      /\ dir[x].addr \in T /\ file[dir[x].addr].len = dir[x].size
                      /\ dir[x] \in Interval
    OBVIOUS
  <2>1. dir[x] \in Interval
    BY <1>2 DEF Dir
  <2>2. QED
    BY <1>2, <1>3, <2>1, TakeName
<1>9. ASSUME NEW x \in Names, PutSame(x) PROVE OpenInv'
  <2>1. /\ dir[x].size > 0 /\ op'.pc = "write" /\ op'.name = x /\ op'.hold = dir[x]
        /\ writes' # <<>> /\ UNCHANGED <<strays, dir, freep, eof>>
    BY <1>9 DEF PutSame, WriteObject
  <2>2. Held' = dir[x] /\ Gap' = NoStorage
    BY <2>1 DEF Held, Gap, Cutting
  <2>3. Memory(T)'
    BY <1>1, <1>6, <1>8, <2>1, <2>2 DEF Memory
  <2>4. EndsAtEof'
    BY <1>1, <1>2, <2>1 DEF EndsAtEof
  <2>5. QED
    BY <1>6, <1>7, <2>1, <2>3, <2>4 DEF OpenInv
<1>10. ASSUME NEW x \in Names, Kill(x) PROVE OpenInv'
  <2>1. /\ dir[x].size > 0 /\ op'.pc = "kill" /\ op'.name = x /\ op'.hold = dir[x]
        /\ writes' = FreeWrites(dir[x]) /\ UNCHANGED <<strays, dir, freep, eof>>
    BY <1>10 DEF Kill
  <2>2. Held' = dir[x] /\ Gap' = NoStorage /\ Target' = dir[x]
    BY <2>1 DEF Held, Gap, Cutting, Target
  <2>3. Memory(T)'
    BY <1>1, <1>6, <1>8, <2>1, <2>2 DEF Memory
  <2>4. EndsAtEof'
    BY <1>1, <1>2, <2>1 DEF EndsAtEof
  <2>5. Erasing(file', Target', writes')
    BY <2>1, <2>2 DEF Erasing
  <2>6. QED
    BY <1>6, <1>7, <2>1, <2>3, <2>4, <2>5 DEF OpenInv
<1>11. ASSUME NEW x \in Names, NEW n \in Sizes, PutSmaller(x, n) PROVE OpenInv'
  <2>1. /\ n < dir[x].size /\ op' = [pc |-> "front", name |-> x, size |-> n, hold |-> dir[x]]
        /\ dir' = [dir EXCEPT ![x].size = n]
        /\ writes' = FreeWrites(dir'[x]) /\ UNCHANGED <<strays, freep, eof>>
    BY <1>11 DEF PutSmaller
  <2>2. n \in Nat /\ dir[x] \in Interval
    BY <1>2, StorageAssumption DEF Dir
  <2>3. dir[x].size > 0
    BY <2>1, <2>2 DEF Interval
  <2>4. op'.pc = "front" /\ op'.name = x /\ op'.hold = dir[x] /\ op'.size = n
    BY <2>1
  <2>5. dir'[x] = [addr |-> dir[x].addr, size |-> n]
    BY <1>2, <2>1, <2>2 DEF Dir, Interval
  <2>6. Held' = dir[x] /\ Gap' = dir[x] /\ Target' = dir'[x]
    BY <2>4, <2>5 DEF Held, Gap, Cutting, Target, Front
  <2>7. Clear(dir[x], Without(dir, x), strays, freep, eof')
    BY <1>4, <1>6, <2>1, <2>4, <2>6 DEF StorageInv, HeldInv, FreeElsewhere
  <2>8. Without(dir, x) \in Dir
    BY <1>2, WithoutType
  <2>9. PICK S : Holding(file, S, dir[x], Without(dir, x), strays, freep, dir[x])
    BY <1>2, <1>8, <2>3, <2>7, <2>8, OpenClear
  <2>10. Memory(S)'
    BY <1>1, <1>6, <2>1, <2>4, <2>6, <2>9 DEF Memory
  <2>11. EndsAtEof'
    BY <1>1, <1>2, <2>1 DEF EndsAtEof
  <2>12. Erasing(file', Target', writes')
    BY <2>1, <2>6 DEF Erasing
  <2>13. QED
    BY <1>6, <1>7, <2>4, <2>10, <2>11, <2>12 DEF OpenInv
<1>12. ASSUME NEW x \in Names, NEW n \in Sizes, PutLarger(x, n) PROVE OpenInv'
  <2>1. /\ dir[x].size > 0 /\ op'.pc = "release" /\ op'.name = x
        /\ freep' = MemFree(freep, dir[x].size, dir[x].addr)
        /\ writes' = FreeWrites(dir[x]) /\ UNCHANGED <<strays, dir, eof>>
    BY <1>2, <1>12 DEF PutLarger, Dir, Interval
  <2>2. dir[x] \in Interval /\ Separated(freep) /\ \A i \in freep : Apart(dir[x], i)
    BY <1>2, <2>1 DEF Dir, WellFormed
  <2>3. UnitsOf(freep') = UnitsOf(freep) \cup Units(dir[x])
    BY <1>2, <2>1, <2>2, ReleasedUnits
  <2>4. Held' = dir[x] /\ Gap' = NoStorage /\ Target' = dir[x]
    BY <2>1 DEF Held, Gap, Cutting, Target
  <2>5. Holding(file, T, NoStorage, Without(dir, x), strays, freep', dir[x])
    BY <1>2, <1>8, <2>1, <2>3, HoldingGrows
  <2>6. Memory(T)'
    BY <1>1, <1>6, <1>8, <2>1, <2>4, <2>5 DEF Memory
  <2>7. EndsAtEof'
    BY <1>1, <1>2, <2>1 DEF EndsAtEof
  <2>8. Erasing(file', Target', writes')
    BY <2>1, <2>4 DEF Erasing
  <2>9. Units(Held') \subseteq UnitsOf(freep')
    BY <2>3, <2>4
  <2>10. QED
    BY <1>6, <1>7, <2>1, <2>6, <2>7, <2>8, <2>9 DEF OpenInv
<1>13. ASSUME NEW x \in Names, NEW n \in Sizes, PutNew(x, n) PROVE OpenInv'
  <2>1. n \in Nat \ {0} /\ Obtain(x, n, freep) /\ dir[x] = NoStorage /\ strays' = strays
    BY <1>13, StorageAssumption DEF PutNew
  <2>2. Without(dir, x) = dir
    BY <1>2, <2>1 DEF Without, Dir
  <2>3. Separated(freep)
    BY <1>2 DEF WellFormed
  <2>4. QED
    BY <1>1, <1>2, <1>3, <1>4, <2>1, <2>2, <2>3, ObtainOpens
<1>14. QED
  BY <1>9, <1>10, <1>11, <1>12, <1>13 DEF Begin

\* Erasing is done when no write is left.
LEMMA ErasedDone ==
  ASSUME NEW f, NEW e \in Interval, e.size > 0, Erasing(f, e, <<>>)
  PROVE  IsRecord(f, e, Free)
<1>1. FreeWrites(e) # <<>>
  BY DEF FreeWrites
<1>2. QED
  BY <1>1 DEF Erasing

\* A block cut in two, whose back half is a free record and is given back.
LEMMA HalfGivenBack ==
  ASSUME DataInv, OpenInv, op.pc \in {"back", "surplus"}, writes = <<>>,
         NEW T, Memory(T), freep' = MemFree(freep, BackHalf.size, BackHalf.addr)
  PROVE  Holding(file, T \cup {BackHalf.addr}, Front, Others, strays, freep', Front)
<1>1. /\ Front \in Interval /\ Front.size > 0 /\ Within(Front, op.hold)
      /\ BackHalf \in Interval /\ BackHalf.size > 0 /\ Within(BackHalf, op.hold)
      /\ Apart(Front, BackHalf)
      /\ Clear(BackHalf, Others, strays, freep, eof)
  BY Halves DEF DataInv, Front
<1>2. /\ strays \in SUBSET Interval /\ freep \in SUBSET Interval /\ eof \in Nat /\ Others \in Dir
      /\ WellFormed(Others, strays, freep, eof) /\ HeldInv
      /\ op \in [pc : Steps, name : Names \cup {Free}, size : Nat, hold : Interval]
  BY InCall DEF DataInv
<1>3. eof = Len(file) + 1 /\ file \in Seq(FileUnit)
  BY DEF OpenInv, EndsAtEof, DataInv, FileInv
<1>4. Held = op.hold /\ Gap = op.hold /\ Target = BackHalf
  BY DEF Held, Gap, Cutting, Target
<1>5. IsRecord(file, BackHalf, Free)
  BY <1>1, <1>4, ErasedDone DEF OpenInv
<1>6. UnitsOf(freep') = UnitsOf(freep) \cup Units(BackHalf)
  BY <1>1, <1>2, ReleasedUnits DEF WellFormed, Clear
<1>7. Holding(file, T, op.hold, Others, strays, freep, op.hold)
  BY <1>4 DEF Memory
<1>8. Units(op.hold) \subseteq Units(BackHalf) \cup Units(Front)
  BY <1>1, <1>2 DEF BackHalf, Front, Units, End, Interval
<1>9. BackHalf.addr \in 1 .. Len(file)
  <2>1. BackHalf.addr > 0 /\ End(BackHalf) <= Len(file) + 1 /\ Len(file) \in Nat
    BY <1>1, <1>3 DEF Clear
  <2>2. QED
    BY <1>1, <2>1 DEF End, Interval
<1>10. Apart(BackHalf, Front)
  BY <1>1, ApartSymmetric
<1>11. op.hold \in Interval
  BY <1>2
<1>12. QED
  BY <1>1, <1>3, <1>5, <1>6, <1>7, <1>8, <1>9, <1>10, <1>11, GapFilled DEF IsRecord

\* A call goes on between two writes.
LEMMA GoOnOpens ==
  ASSUME DataInv, OpenInv, DataInv', GoOn
  PROVE  OpenInv'
<1>1. /\ up /\ ~readOnly /\ op.pc # "idle" /\ up' /\ ~readOnly' /\ file' = file
      /\ op'.name = op.name /\ \A y \in Names \ {op.name} : dir'[y] = dir[y]
      /\ StorageInv /\ StorageInv' /\ FileInv'
  BY GoOnShape DEF DataInv, GoOn
<1>2. /\ strays \in SUBSET Interval /\ freep \in SUBSET Interval /\ eof \in Nat /\ Others \in Dir
      /\ WellFormed(Others, strays, freep, eof) /\ HeldInv /\ dir \in Dir /\ op.name \in Names
      /\ op \in [pc : Steps, name : Names \cup {Free}, size : Nat, hold : Interval]
      /\ file \in Seq(FileUnit)
  BY <1>1, InCall DEF DataInv, FileInv
<1>3. dir' \in Dir
  BY <1>1 DEF StorageInv, StorageTypeOK, Dir
<1>4. Others' = Others
  BY <1>1, <1>2, <1>3, WithoutIgnores DEF Others
<1>5. PICK T : Memory(T)
  BY DEF OpenInv
<1>6. \A y \in Names : Others'[y].size > 0 \/ Others'[y] = NoStorage
  BY <1>4 DEF OpenInv
<1>7. op.pc # "write" /\ writes = <<>> /\ strays' = strays /\ eof = Len(file) + 1
  BY <1>2 DEF GoOn, FrontErased, BackErased, Released, SurplusErased, Erased, At, OpenInv,
              EndsAtEof
<1>8. CASE FrontErased
  <2>1. /\ op.pc = "front" /\ op' = [op EXCEPT !.pc = "back"] /\ writes' = FreeWrites(BackHalf)
        /\ freep' = freep /\ eof' = eof
    BY <1>8 DEF FrontErased, At
  <2>2. op'.pc = "back" /\ op'.hold = op.hold /\ op'.size = op.size
    BY <1>2, <2>1
  <2>3. /\ Held' = Held /\ Gap' = Gap /\ Front' = Front /\ Target' = BackHalf
        /\ Target = Front
    BY <2>1, <2>2 DEF Held, Gap, Cutting, Front, Target, BackHalf
  <2>4. Memory(T)'
    BY <1>1, <1>4, <1>5, <1>7, <2>1, <2>2, <2>3 DEF Memory
  <2>5. Front \in Interval /\ Front.size > 0
    BY <1>1, <2>1, Halves DEF Front
  <2>6. IsRecord(file, Front, Free)
    BY <1>7, <2>1, <2>3, <2>5, ErasedDone DEF OpenInv
  <2>7. Erasing(file', Target', writes')
    BY <2>1, <2>3 DEF Erasing
  <2>8. EndsAtEof'
    BY <1>1, <1>7, <2>1 DEF EndsAtEof
  <2>9. QED
    BY <1>1, <1>6, <2>2, <2>3, <2>4, <2>6, <2>7, <2>8 DEF OpenInv
<1>9. CASE BackErased
  <2>1. /\ op.pc = "back" /\ WriteObject(op.name, op.size, Front)
        /\ freep' = MemFree(freep, BackHalf.size, BackHalf.addr) /\ eof' = eof
    BY <1>9 DEF BackErased, At, Front
  <2>2. op'.pc = "write" /\ op'.hold = Front /\ writes' # <<>>
    BY <2>1 DEF WriteObject
  <2>3. Held' = Front /\ Gap' = NoStorage
    BY <2>2 DEF Held, Gap, Cutting
  <2>4. PICK S : Holding(file, S, Front, Others, strays, freep', Front)
    BY <1>5, <1>7, <2>1, HalfGivenBack
  <2>5. Front \in Interval /\ Front.size > 0 /\ Clear(Front, Others, strays, freep, eof)
    BY <1>1, <2>1, Halves DEF Front
  <2>6. Front.addr \in 1 .. Len(file)
    BY <1>2, <1>7, <2>5 DEF Clear, Interval, End
  <2>7. IsRecord(file, Front, Free)
    BY <2>1 DEF OpenInv
  <2>8. PICK U : Holding(file, U, NoStorage, Others, strays, freep', Front)
    BY <1>2, <2>4, <2>5, <2>6, <2>7, BlockFilled DEF IsRecord
  <2>9. Memory(U)'
    BY <1>1, <1>4, <1>7, <2>2, <2>3, <2>8 DEF Memory
  <2>10. EndsAtEof'
    BY <1>1, <1>7, <2>1 DEF EndsAtEof
  <2>11. QED
    BY <1>6, <2>2, <2>9, <2>10 DEF OpenInv
<1>10. CASE SurplusErased
  <2>1. /\ op.pc = "surplus" /\ op' = [op EXCEPT !.pc = "erase", !.hold = Front]
        /\ freep' = MemFree(freep, dir[op.name].size, dir[op.name].addr)
        /\ writes' = FreeWrites(Front) /\ eof' = eof
    BY <1>10 DEF SurplusErased, At, Front
  <2>2. op'.pc = "erase" /\ op'.hold = Front
    BY <1>2, <2>1
  <2>3. dir[op.name] = BackHalf
    BY <1>2, <2>1 DEF HeldInv, BlockShape
  <2>4. Held' = Front /\ Gap' = Front /\ Target' = Front
    BY <2>2 DEF Held, Gap, Cutting, Target
  <2>5. PICK S : Holding(file, S, Front, Others, strays, freep', Front)
    BY <1>5, <1>7, <2>1, <2>3, HalfGivenBack
  <2>6. Memory(S)'
    BY <1>1, <1>4, <1>7, <2>2, <2>4, <2>5 DEF Memory
  <2>7. Erasing(file', Target', writes')
    BY <2>1, <2>4 DEF Erasing
  <2>8. EndsAtEof'
    BY <1>1, <1>7, <2>1 DEF EndsAtEof
  <2>9. QED
    BY <1>6, <2>2, <2>6, <2>7, <2>8 DEF OpenInv
<1>11. CASE Erased
  <2>1. /\ op.pc = "erase" /\ WriteObject(op.name, op.size, op.hold)
        /\ freep' = freep /\ eof' = eof
    BY <1>11 DEF Erased, At
  <2>2. op'.pc = "write" /\ op'.hold = op.hold /\ writes' # <<>>
    BY <2>1 DEF WriteObject
  <2>3. /\ Held' = op.hold /\ Gap' = NoStorage /\ Held = op.hold /\ Gap = op.hold
        /\ Target = op.hold
    BY <2>1, <2>2 DEF Held, Gap, Cutting, Target
  <2>4. /\ op.hold \in Interval /\ op.hold.size > 0 /\ op.hold.addr > 0
        /\ End(op.hold) <= Len(file) + 1
    BY <1>2, <1>7, <2>3 DEF HeldInv, Clear
  <2>5. IsRecord(file, op.hold, Free)
    BY <1>7, <2>1, <2>3, <2>4, ErasedDone DEF OpenInv
  <2>6. op.hold.addr \in 1 .. Len(file)
    BY <1>2, <2>4 DEF Interval, End
  <2>7. Holding(file, T, op.hold, Others, strays, freep, op.hold)
    BY <1>5, <2>3 DEF Memory
  <2>8. PICK S : Holding(file, S, NoStorage, Others, strays, freep, op.hold)
    BY <1>2, <2>4, <2>5, <2>6, <2>7, BlockFilled DEF IsRecord
  <2>9. Memory(S)'
    BY <1>1, <1>4, <1>7, <2>1, <2>2, <2>3, <2>8 DEF Memory
  <2>10. EndsAtEof'
    BY <1>1, <1>7, <2>1 DEF EndsAtEof
  <2>11. QED
    BY <1>6, <2>2, <2>9, <2>10 DEF OpenInv
<1>12. CASE Released
  <2>1. op.pc = "release" /\ Obtain(op.name, op.size, freep)
    BY <1>12 DEF Released, At
  <2>2. op.size \in Nat \ {0} /\ Separated(freep)
    BY <1>2, <2>1 DEF HeldInv, BlockShape, WellFormed
  <2>3. Gap = NoStorage /\ Target = Held
    BY <2>1 DEF Gap, Cutting, Target
  <2>4. Held \in Interval /\ Held.size > 0
    BY <1>2 DEF HeldInv, Clear
  <2>5. IsRecord(file, Held, Free)
    BY <1>7, <2>1, <2>3, <2>4, ErasedDone DEF OpenInv
  <2>6. Holding(file, T, NoStorage, Others, strays, freep, Held) /\ Held.addr \in T
    BY <1>5, <2>1, <2>3 DEF Memory
  <2>7. Units(Held) \subseteq UnitsOf(freep)
    BY <2>1 DEF OpenInv
  <2>8. Holding(file, T, NoStorage, Others, strays, freep, NoStorage)
    BY <1>2, <2>4, <2>5, <2>6, <2>7, ReleaseBlock
  <2>9. Others = Without(dir, op.name)
    BY DEF Others
  <2>10. \A y \in Names : Others[y].size > 0 \/ Others[y] = NoStorage
    BY DEF OpenInv
  <2>11. QED
    BY <1>1, <1>2, <1>7, <2>1, <2>2, <2>8, <2>9, <2>10, ObtainOpens
<1>13. QED
  BY <1>8, <1>9, <1>10, <1>11, <1>12 DEF GoOn

\* A call returns: its block is the record of its object, or free.
LEMMA FinishOpens ==
  ASSUME DataInv, OpenInv, DataInv', Finish
  PROVE  OpenInv'
<1>1. /\ op.pc \in {"write", "kill"} /\ file' = file /\ eof' = eof /\ strays' = strays
      /\ writes = <<>> /\ op' = Idle /\ StorageInv
  BY DEF DataInv, Finish, Stored, Killed, At
<1>2. /\ strays \in SUBSET Interval /\ freep \in SUBSET Interval /\ eof \in Nat
      /\ WellFormed(Others, strays, freep, eof) /\ HeldInv /\ dir \in Dir /\ op.name \in Names
      /\ op \in [pc : Steps, name : Names \cup {Free}, size : Nat, hold : Interval]
      /\ file \in Seq(FileUnit)
  BY <1>1, InCall DEF DataInv, FileInv
<1>3. dir' \in Dir
  BY DEF DataInv, StorageInv, StorageTypeOK, Dir
<1>4. op'.pc = "idle" /\ op'.name = Free /\ op'.hold = NoStorage
  BY <1>1 DEF Idle
<1>5. Others' = dir'
  BY <1>3, <1>4, WithoutNobody, StorageAssumption DEF Others
<1>6. Held' = NoStorage /\ Gap' = NoStorage
  BY <1>4 DEF Held, Gap, Cutting
<1>7. EndsAtEof'
  BY <1>1 DEF OpenInv, EndsAtEof
<1>8. PICK T : Memory(T)
  BY DEF OpenInv
<1>9. Gap = NoStorage /\ Held = op.hold
  BY <1>1 DEF Gap, Cutting, Held
<1>10. /\ Holding(file, T, NoStorage, Others, strays, freep, op.hold)
       /\ op.hold.addr \in T /\ file[op.hold.addr].len = op.hold.size
       /\ op.hold \in Interval /\ op.hold.size > 0 /\ Clear(op.hold, Others, strays, freep, eof)
  BY <1>1, <1>2, <1>8, <1>9 DEF Memory, HeldInv, Clear, FreeElsewhere
<1>11. SUFFICES /\ Holding(file, T, NoStorage, dir', strays, freep', NoStorage)
                /\ \A y \in Names : dir'[y].size > 0 \/ dir'[y] = NoStorage
  <2>1. Memory(T)'
    BY <1>1, <1>4, <1>5, <1>6, <1>11 DEF Memory
  <2>2. QED
    BY <1>4, <1>5, <1>7, <1>11, <2>1 DEF OpenInv
<1>12. CASE Stored
  <2>1. op.pc = "write" /\ dir' = dir /\ freep' = freep
    BY <1>12 DEF Stored, At
  <2>2. dir[op.name] = op.hold /\ InFile(file, op.name, op.hold)
    BY <1>1, <1>2, <2>1 DEF HeldInv, BlockShape, DataInv, FileInv
  <2>3. Get(file, op.hold.addr) = "record"
    BY <1>2, <1>10, HoldingTyped
  <2>4. file[op.hold.addr].of = op.name
    <3>1. op.hold.addr \in Units(op.hold) /\ op.hold.addr - op.hold.addr + 1 = 1
      BY <1>10 DEF Units, End, Interval
    <3>2. file[op.hold.addr] = Record(op.name, op.hold.size)[1]
      BY <2>2, <3>1 DEF InFile
    <3>3. Record(op.name, op.hold.size)[1].of = op.name
      BY <1>2, <1>10, RecordEnds DEF Interval
    <3>4. QED
      BY <3>2, <3>3
  <2>5. IsRecord(file, op.hold, op.name)
    BY <1>10, <2>3, <2>4 DEF IsRecord
  <2>6. Holding(file, T, NoStorage, dir, strays, freep, NoStorage)
    BY <1>2, <1>10, <2>2, <2>5, StoreBlock DEF Others
  <2>7. \A y \in Names : dir[y].size > 0 \/ dir[y] = NoStorage
    BY <1>10, <2>2 DEF OpenInv, Others, Without
  <2>8. QED
    BY <2>1, <2>6, <2>7
<1>13. CASE Killed
  <2>1. /\ op.pc = "kill" /\ freep' = MemFree(freep, op.hold.size, op.hold.addr)
        /\ dir' = [dir EXCEPT ![op.name] = NoStorage]
    BY <1>13 DEF Killed, At, ReleaseKilled
  <2>2. dir' = Others
    BY <1>2, <2>1 DEF Others, Without, Dir
  <2>3. UnitsOf(freep') = UnitsOf(freep) \cup Units(op.hold)
    BY <1>2, <1>10, <2>1, ReleasedUnits DEF WellFormed, Clear
  <2>4. IsRecord(file, op.hold, Free)
    <3>1. Target = op.hold
      BY <1>9, <2>1 DEF Target
    <3>2. Erasing(file, op.hold, <<>>)
      BY <1>1, <2>1, <3>1 DEF OpenInv
    <3>3. QED
      BY <1>10, <3>2, ErasedDone
  <2>5. Holding(file, T, NoStorage, Others, strays, freep', NoStorage)
    BY <1>2, <1>10, <2>3, <2>4, ReleaseBlock
  <2>6. QED
    BY <2>2, <2>5 DEF OpenInv
<1>14. QED
  BY <1>12, <1>13 DEF Finish

------------------------------------------------------------------------------
\* The block of a call, and what it erases of it, but for new storage at the end.
LEMMA BlockIs ==
  ASSUME DataInv, OpenInv, op.pc # "idle"
  PROVE  /\ Clear(Held, Others, strays, FreeElsewhere, eof)
         /\ Held \in Interval /\ Held.size > 0 /\ Held.addr \in Nat /\ Held.addr > 0
         /\ Others \in Dir /\ strays \in SUBSET Interval /\ freep \in SUBSET Interval /\ eof \in Nat
         /\ file \in Seq(FileUnit) /\ op.pc \in Steps /\ up /\ ~readOnly /\ op.name \in Names
         /\ eof = Len(file) + 1 => InTheFile(file, Held)
         /\ op.pc # "write" => eof = Len(file) + 1
<1>1. /\ strays \in SUBSET Interval /\ freep \in SUBSET Interval /\ eof \in Nat /\ Others \in Dir
      /\ HeldInv /\ op.pc \in Steps /\ file \in Seq(FileUnit) /\ up /\ ~readOnly /\ op.name \in Names
  BY InCall DEF DataInv, FileInv
<1>2. /\ Clear(Held, Others, strays, FreeElsewhere, eof) /\ Held \in Interval /\ Held.size > 0
      /\ Held.addr > 0 /\ End(Held) <= eof
  BY <1>1 DEF HeldInv, Clear
<1>3. Held.addr \in Nat
  BY <1>2 DEF Interval
<1>4. QED
  BY <1>1, <1>2, <1>3 DEF InTheFile, OpenInv, EndsAtEof

\* What a call erases lies in its block.
LEMMA TargetIs ==
  ASSUME DataInv, OpenInv, op.pc \notin {"idle", "write"}
  PROVE  /\ InTheFile(file, Target) /\ Target \in Interval /\ Target.size > 0
         /\ op.pc \in {"kill", "release", "erase"} => Target = Held
         /\ op.pc = "back" => Apart(Front, Target) /\ Front \in Interval
         /\ Cutting \/ op.pc \in {"kill", "release"}
<1>1. /\ op.pc \in {"front", "back", "surplus", "erase", "kill", "release"}
      /\ eof = Len(file) + 1 /\ InTheFile(file, Held) /\ Held \in Interval /\ Held.size > 0
  BY BlockIs DEF Steps
<1>2. CASE op.pc \in {"kill", "release", "erase"}
  <2>1. Target = Held
    BY <1>2 DEF Target
  <2>2. QED
    BY <1>1, <1>2, <2>1 DEF Cutting
<1>3. CASE op.pc \in {"front", "back", "surplus"}
  <2>1. /\ Front \in Interval /\ Front.size > 0 /\ BackHalf \in Interval /\ BackHalf.size > 0
        /\ Apart(Front, BackHalf)
        /\ Front.addr > 0 /\ End(Front) <= eof /\ BackHalf.addr > 0 /\ End(BackHalf) <= eof
    BY <1>3, Halves DEF DataInv, Front, Clear
  <2>2. Target = IF op.pc = "front" THEN Front ELSE BackHalf
    BY <1>3 DEF Target
  <2>3. QED
    BY <1>1, <1>3, <2>1, <2>2 DEF InTheFile, Cutting
<1>4. QED
  BY <1>1, <1>2, <1>3

\* Any part of a write while a block is cut in two is in the block.
LEMMA CutWritten ==
  ASSUME DataInv, OpenInv, Cutting, writes # <<>>, NEW T, Memory(T),
         NEW k \in 0 .. Head(writes).size
  PROVE  /\ Holding(Written(file, Head(writes), k), T, Held, Others, strays, freep, Held)
         /\ Gap = Held
<1> DEFINE w == Head(writes)
           h == Written(file, w, k)
<1>1. op.pc # "idle" /\ op.pc # "write" /\ op.pc # "release"
  BY DEF Cutting
<1>2. InTheFile(file, Held) /\ Held \in Interval /\ file \in Seq(FileUnit)
  BY <1>1, BlockIs
<1>3. w \in Writes /\ WriteShape(w) /\ Within(Covers(w), Held)
  BY NextWrite
<1>4. Held = op.hold /\ Gap = Held
  BY <1>1 DEF Held, Gap
<1>5. Holding(file, T, Held, Others, strays, freep, Held)
  BY <1>4 DEF Memory
<1>6. /\ h \in Seq(FileUnit) /\ Len(h) = Len(file)
      /\ \A i \in 1 .. Len(file) : i \notin Units(Held) => h[i] = file[i]
  BY <1>2, <1>3, WriteInside
<1> HIDE DEF w, h
<1>7. Len(file) <= Len(h) /\ \A i \in 1 .. Len(h) : ~(i > Len(file))
  BY <1>2, <1>6
<1>8. Holding(h, T, Held, Others, strays, freep, Held)
  BY <1>2, <1>5, <1>6, <1>7, GapWritten
<1>9. QED
  BY <1>4, <1>8 DEF h, w

\* Any part of a write while a whole block is erased leaves it a record.
LEMMA ErasingWritten ==
  ASSUME DataInv, OpenInv, op.pc \in {"kill", "release"}, writes # <<>>, NEW T, Memory(T),
         NEW k \in 0 .. Head(writes).size
  PROVE  \E U : /\ Holding(Written(file, Head(writes), k), U, NoStorage, Others, strays, freep, Held)
                /\ Held.addr \in U
                /\ Written(file, Head(writes), k)[Held.addr].len = Held.size
<1> DEFINE w == Head(writes)
           h == Written(file, w, k)
           S == {t \in T : Apart(RecordAt(file, t), Held)}
<1>1. /\ InTheFile(file, Held) /\ Held \in Interval /\ Held.size > 0 /\ file \in Seq(FileUnit)
      /\ Clear(Held, Others, strays, FreeElsewhere, eof) /\ Others \in Dir
      /\ strays \in SUBSET Interval /\ Held.addr \in 1 .. Len(file)
  BY BlockIs, InTheFileTyped
<1>2. w \in Writes /\ WriteShape(w) /\ Within(Covers(w), Held)
  BY NextWrite
<1>3. /\ Holding(file, T, NoStorage, Others, strays, freep, Held)
      /\ Held.addr \in T /\ file[Held.addr].len = Held.size
  BY DEF Memory, Gap, Cutting
<1>4. Get(file, Held.addr) = "record"
  BY <1>1, <1>3, HoldingTyped
<1>5. FreeWrite(Held, w)
  <2>1. Target = Held
    BY TargetIs
  <2>2. Erasing(file, Held, writes)
    BY <2>1 DEF OpenInv
  <2>3. QED
    BY <1>1, <2>2, ErasingHead
<1>6. Get(h, Held.addr) = "record" /\ h[Held.addr].len = Held.size
  BY <1>1, <1>3, <1>4, <1>5, ErasedInPlace
<1>7. /\ h \in Seq(FileUnit) /\ Len(h) = Len(file)
      /\ \A i \in 1 .. Len(file) : i \notin Units(Held) => h[i] = file[i]
  BY <1>1, <1>2, WriteInside
<1> HIDE DEF w, h
<1>8. Len(file) <= Len(h) /\ (\A i \in 1 .. Len(h) : ~(i > Len(file)))
      /\ Held.addr \in 1 .. Len(h)
  BY <1>1, <1>7
<1>9. Holding(file, S, Held, Others, strays, freep, Held)
  BY <1>1, <1>3, OpenRecord
<1> HIDE DEF S
<1>10. Holding(h, S, Held, Others, strays, freep, Held)
  BY <1>1, <1>7, <1>8, <1>9, GapWritten
<1>11. Holding(h, S \cup {Held.addr}, NoStorage, Others, strays, freep, Held)
  BY <1>1, <1>6, <1>7, <1>8, <1>10, BlockFilled
<1>12. QED
  BY <1>6, <1>11 DEF h, w

\* The last unit of a block that is whole records ends one.
LEMMA BlockEnds ==
  ASSUME NEW f \in Seq(FileUnit), NEW T, NEW d, NEW s, NEW m \in SUBSET Interval, NEW end, NEW e,
         Holding(f, T, NoStorage, d, s, m, e), Clear(e, d, s, m, end), InTheFile(f, e)
  PROVE  f[e.addr + e.size - 1].last
<1> DEFINE E == e.addr + e.size - 1
<1>1. /\ e.addr \in Nat /\ e.size \in Nat /\ e.size > 0 /\ Len(f) \in Nat /\ E \in 1 .. Len(f)
  BY InTheFileTyped DEF InTheFile
<1>2. Units(NoStorage) = {}
  BY DEF Units, NoStorage, End
<1>3. PICK t \in T : E \in RecordUnits(f, t)
  BY <1>1, <1>2 DEF Holding, Tiling
<1>4. /\ t \in 1 .. Len(f) /\ Get(f, t) = "record" /\ t \in Nat /\ f[t].len \in Nat
      /\ RecordAt(f, t).addr = t /\ End(RecordAt(f, t)) = t + f[t].len
  BY HoldingTyped
<1>5. Within(RecordAt(f, t), e) \/ Apart(RecordAt(f, t), e)
  BY WithinOrApart
<1>6. t <= E /\ E <= t + f[t].len - 1
  BY <1>1, <1>3, <1>4 DEF RecordUnits
<1>7. t + f[t].len - 1 = E
  <2> DEFINE r == RecordAt(f, t)
  <2>1. r.addr = t /\ End(r) = t + f[t].len /\ End(e) = e.addr + e.size
    BY <1>4 DEF End
  <2>2. Within(r, e) => t + f[t].len <= e.addr + e.size
    BY <2>1 DEF Within
  <2>3. Apart(r, e) => t + f[t].len <= e.addr \/ e.addr + e.size <= t
    BY <2>1 DEF Apart
  <2> HIDE DEF r
  <2>4. t + f[t].len <= e.addr + e.size \/ t + f[t].len <= e.addr \/ e.addr + e.size <= t
    BY <1>5, <2>2, <2>3 DEF r
  <2> DEFINE n == f[t].len
  <2>5. n \in Nat /\ t \in Nat /\ e.addr \in Nat /\ e.size \in Nat /\ e.size > 0
    BY <1>1, <1>4
  <2>6. /\ t <= e.addr + e.size - 1 /\ e.addr + e.size - 1 <= t + n - 1
        /\ t + n <= e.addr + e.size \/ t + n <= e.addr \/ e.addr + e.size <= t
    BY <1>6, <2>4
  <2> HIDE DEF n
  <2>7. t + n - 1 = e.addr + e.size - 1
    BY <2>5, <2>6
  <2>8. QED
    BY <2>7 DEF n
<1>8. f[t + f[t].len - 1].last
  BY <1>4, TileTyped
<1>9. QED
  BY <1>7, <1>8

\* The write of the object is the only one left.
LEMMA ObjectIs ==
  ASSUME DataInv, OpenInv, op.pc = "write", writes # <<>>
  PROVE  /\ Head(writes) = Write(Held.addr, Held.size, op.name, Held.size, "whole")
         /\ writes = <<Head(writes)>> /\ Held = op.hold /\ Gap = NoStorage
         /\ Clear(Held, Others, strays, freep, eof)
         /\ Head(writes).size = Held.size
         /\ eof = Len(file) + 1 \/ (Held.addr = Len(file) + 1 /\ End(Held) = eof)
<1>1. Head(writes) = ObjectWrite /\ writes = <<Head(writes)>>
  BY NextWrite
<1>2. Held = op.hold /\ Gap = NoStorage
  BY DEF Held, Gap, Cutting
<1>3. op.size = op.hold.size
  BY InCall DEF DataInv, HeldInv, BlockShape
<1>4. Head(writes) = Write(Held.addr, Held.size, op.name, Held.size, "whole")
  BY <1>1, <1>2, <1>3 DEF ObjectWrite
<1>5. Clear(Held, Others, strays, freep, eof)
  BY BlockIs DEF FreeElsewhere
<1>6. Head(writes).size = Held.size
  BY <1>4 DEF Write
<1>7. QED
  BY <1>1, <1>2, <1>4, <1>5, <1>6 DEF OpenInv, EndsAtEof

\* Any part of the write of an object into storage of the file leaves whole records.
LEMMA ObjectInside ==
  ASSUME DataInv, OpenInv, op.pc = "write", writes # <<>>, NEW T, Memory(T),
         eof = Len(file) + 1, NEW k \in 0 .. Held.size
  PROVE  /\ \E U : Holding(Written(file, Head(writes), k), U, NoStorage, Others, strays, freep, Held)
         /\ k = Held.size =>
              \E U : /\ Holding(Written(file, Head(writes), k), U, NoStorage, Others, strays,
                                freep, Held)
                     /\ Held.addr \in U
                     /\ Written(file, Head(writes), k)[Held.addr].len = Held.size
         /\ Len(Written(file, Head(writes), k)) = Len(file)
<1> DEFINE w == Head(writes)
           h == Written(file, w, k)
           S == {t \in T : Apart(RecordAt(file, t), Held)}
<1>1. /\ InTheFile(file, Held) /\ Held \in Interval /\ Held.size > 0 /\ file \in Seq(FileUnit)
      /\ Clear(Held, Others, strays, freep, eof) /\ Others \in Dir
      /\ strays \in SUBSET Interval /\ freep \in SUBSET Interval /\ Held.addr \in 1 .. Len(file)
      /\ Held.size \in Nat
  BY BlockIs, InTheFileTyped, ObjectIs
<1>2. /\ w \in Writes /\ WriteShape(w) /\ Within(Covers(w), Held)
      /\ w.part = "whole" /\ w.addr = Held.addr /\ w.len = Held.size /\ w.size = Held.size
  <2>1. w \in Writes /\ WriteShape(w) /\ Within(Covers(w), Held)
    BY NextWrite
  <2>2. w = Write(Held.addr, Held.size, op.name, Held.size, "whole")
    BY ObjectIs
  <2>3. QED
    BY <2>1, <2>2 DEF Write
<1>3. Holding(file, T, NoStorage, Others, strays, freep, Held)
  BY ObjectIs DEF Memory
<1>4. /\ h \in Seq(FileUnit) /\ Len(h) = Len(file)
      /\ \A i \in 1 .. Len(file) : i \notin Units(Held) => h[i] = file[i]
      /\ \A i \in 1 .. Len(file) : i \notin w.addr .. w.addr + k - 1 => h[i] = file[i]
  BY <1>1, <1>2, WriteInside
<1>5. Len(file) <= Len(h) /\ (\A i \in 1 .. Len(h) : ~(i > Len(file)))
      /\ Held.addr \in 1 .. Len(h) /\ Len(file) \in Nat
  BY <1>1, <1>4
<1>6. CASE k = 0
  <2>1. \A i \in 1 .. Len(file) : h[i] = file[i]
    <3>1. \A i \in 1 .. Len(file) : i \notin w.addr .. w.addr + k - 1
      BY <1>1, <1>2, <1>6
    <3>2. QED
      BY <1>4, <3>1
  <2> HIDE DEF w, h
  <2>2. NoStorage \in Interval
    BY DEF NoStorage, Interval
  <2>3. Holding(h, T, NoStorage, Others, strays, freep, Held)
    BY <1>1, <1>3, <1>4, <1>5, <2>1, <2>2, GapWritten
  <2>4. k # Held.size
    BY <1>1, <1>6
  <2>5. QED
    BY <1>4, <2>3, <2>4 DEF h, w
<1>7. CASE k # 0
  <2>1. k \in 1 .. w.size
    BY <1>1, <1>2, <1>7
  <2>2. file[Held.addr + Held.size - 1].last
    BY <1>1, <1>3, BlockEnds
  <2>3. Get(h, Held.addr) = "record" /\ h[Held.addr].len = Held.size
    BY <1>1, <1>2, <2>1, <2>2, BeginsRecord
  <2> HIDE DEF w, h
  <2>4. Holding(file, S, Held, Others, strays, freep, Held)
    BY <1>1, <1>3, OpenClear
  <2> HIDE DEF S
  <2>5. Holding(h, S, Held, Others, strays, freep, Held)
    BY <1>1, <1>4, <1>5, <2>4, GapWritten
  <2> DEFINE U == S \cup {Held.addr}
  <2>6. Holding(h, U, NoStorage, Others, strays, freep, Held) /\ Held.addr \in U
    BY <1>1, <1>4, <1>5, <2>3, <2>5, BlockFilled
  <2> HIDE DEF U
  <2>7. QED
    BY <1>4, <2>3, <2>6 DEF h, w
<1>8. QED
  BY <1>6, <1>7

\* Any part of the write of an object behind the end of the file leaves the
\* records as they are; all of it makes one record more.
LEMMA ObjectBehind ==
  ASSUME DataInv, OpenInv, op.pc = "write", writes # <<>>, NEW T, Memory(T),
         Held.addr = Len(file) + 1, End(Held) = eof, NEW k \in 0 .. Held.size
  PROVE  /\ Holding(Written(file, Head(writes), k), T, Held, Others, strays, freep, Held)
         /\ \A t \in T : t < Held.addr
         /\ k = Held.size =>
              /\ \E U : /\ Holding(Written(file, Head(writes), k), U, NoStorage, Others, strays,
                                   freep, Held)
                        /\ Held.addr \in U
                        /\ Written(file, Head(writes), k)[Held.addr].len = Held.size
              /\ eof = Len(Written(file, Head(writes), k)) + 1
<1> DEFINE w == Head(writes)
           h == Written(file, w, k)
           E == Held.addr + Held.size - 1
<1>1. /\ Held \in Interval /\ Held.size > 0 /\ file \in Seq(FileUnit) /\ Held.size \in Nat
      /\ Held.addr \in Nat /\ Len(file) \in Nat /\ op.name \in Names /\ Held.addr > 0
  BY BlockIs DEF Interval
<1>2. /\ w \in Writes /\ WriteShape(w) /\ w.part = "whole" /\ w.addr = Held.addr
      /\ w.len = Held.size /\ w.size = Held.size
      /\ w = Write(Held.addr, Held.size, op.name, Held.size, "whole")
  <2>1. w \in Writes /\ WriteShape(w)
    BY NextWrite
  <2>2. w = Write(Held.addr, Held.size, op.name, Held.size, "whole")
    BY ObjectIs
  <2>3. QED
    BY <2>1, <2>2 DEF Write
<1>3. /\ h \in Seq(FileUnit)
      /\ Len(h) = IF k > 0 /\ w.addr + k - 1 > Len(file) THEN w.addr + k - 1 ELSE Len(file)
      /\ \A i \in 1 .. Len(file) : i \notin w.addr .. w.addr + k - 1 => h[i] = file[i]
  BY <1>1, <1>2, WrittenIs
<1>4. Holding(file, T, Held, Others, strays, freep, Held)
  BY <1>1, ObjectIs, BlockBehind DEF Memory
<1>5. /\ Len(h) = Len(file) + k /\ Len(file) <= Len(h)
      /\ \A i \in 1 .. Len(file) : h[i] = file[i]
  BY <1>1, <1>2, <1>3
<1>6. \A i \in 1 .. Len(h) : i > Len(file) => i \in Units(Held)
  BY <1>1, <1>5 DEF Units, End
<1>7. k = Held.size => InFile(h, op.name, Held)
  BY <1>1, <1>2, ObjectIsWritten
<1> HIDE DEF w, h
<1>8. Holding(h, T, Held, Others, strays, freep, Held)
  BY <1>1, <1>3, <1>4, <1>5, <1>6, GapWritten
<1>9. \A t \in T : t < Held.addr
  BY <1>1, <1>4 DEF Holding, Tiling
<1>10. ASSUME k = Held.size
       PROVE  /\ \E U : /\ Holding(h, U, NoStorage, Others, strays, freep, Held)
                        /\ Held.addr \in U /\ h[Held.addr].len = Held.size
              /\ eof = Len(h) + 1
  <2>1. InFile(h, op.name, Held)
    BY <1>7, <1>10
  <2>2. Held.addr \in Units(Held) /\ E \in Units(Held) /\ Held.addr - Held.addr + 1 = 1
        /\ E - Held.addr + 1 = Held.size
    BY <1>1 DEF Units, End
  <2>3. h[Held.addr] = Record(op.name, Held.size)[1] /\ h[E] = Record(op.name, Held.size)[Held.size]
    <3> HIDE DEF E
    <3>1. QED
      BY <2>1, <2>2 DEF InFile
  <2>4. h[Held.addr].len = Held.size /\ h[E].last
    BY <1>1, <2>3, RecordEnds
  <2>5. Held.addr \in 1 .. Len(h) /\ Held.addr + Held.size <= Len(h) + 1
    BY <1>1, <1>5, <1>10
  <2>6. Get(h, Held.addr) = "record"
    BY <1>1, <1>3, <2>4, <2>5, MakesRecord
  <2>7. Holding(h, T \cup {Held.addr}, NoStorage, Others, strays, freep, Held)
    BY <1>1, <1>3, <1>8, <2>4, <2>5, <2>6, BlockFilled
  <2>8. eof = Len(h) + 1
    <3>1. eof = Held.addr + Held.size /\ Held.addr = Len(file) + 1
      BY DEF End
    <3>2. Len(h) = Len(file) + Held.size
      BY <1>5, <1>10
    <3>3. QED
      BY <1>1, <3>1, <3>2
  <2>9. Held.addr \in T \cup {Held.addr}
    OBVIOUS
  <2>10. QED
    BY <2>4, <2>7, <2>8, <2>9
<1>11. QED
  BY <1>8, <1>9, <1>10 DEF h, w

\* db_write() succeeds.
LEMMA DbWriteOpens ==
  ASSUME DataInv, OpenInv, DbWrite
  PROVE  OpenInv'
<1> DEFINE w == Head(writes)
<1>1. /\ writes # <<>> /\ writes' = Tail(writes) /\ file' = Written(file, w, w.size)
      /\ UNCHANGED <<up, strays, dir, freep, eof, readOnly, op>>
  BY DEF DbWrite, WriteDone
<1>2. op.pc # "idle"
  BY <1>1 DEF DataInv, StorageInv
<1>3. /\ Others' = Others /\ Held' = Held /\ Gap' = Gap /\ Front' = Front
      /\ (op.pc \notin {"idle", "write"} => Target' = Target)
  <2>1. Others' = Others /\ Held' = Held /\ Gap' = Gap /\ Front' = Front
    BY <1>1 DEF Others, Held, Gap, Cutting, Front
  <2>2. Target' = Target
    BY <1>1, <2>1 DEF Target, BackHalf
  <2>3. QED
    BY <2>1, <2>2
<1>4. /\ file \in Seq(FileUnit) /\ op.pc \in Steps
      /\ op.pc # "write" => eof = Len(file) + 1
  BY <1>2, BlockIs
<1>5. w \in Writes /\ WriteShape(w) /\ w.size \in 0 .. w.size /\ Within(Covers(w), Held)
  <2>1. w \in Writes /\ WriteShape(w) /\ Within(Covers(w), Held)
    BY <1>1, NextWrite
  <2>2. QED
    BY <2>1 DEF Writes
<1>6. PICK T : Memory(T)
  BY DEF OpenInv
<1>7. \A y \in Names : Others'[y].size > 0 \/ Others'[y] = NoStorage
  BY <1>3 DEF OpenInv
<1>8. CASE op.pc = "write"
  <2>1. /\ w.size = Held.size /\ writes' = <<>> /\ Gap = NoStorage
        /\ eof = Len(file) + 1 \/ (Held.addr = Len(file) + 1 /\ End(Held) = eof)
    <3>1. /\ w.size = Held.size /\ writes = <<w>> /\ Gap = NoStorage
          /\ eof = Len(file) + 1 \/ (Held.addr = Len(file) + 1 /\ End(Held) = eof)
      BY <1>1, <1>8, ObjectIs
    <3>2. \A v : Tail(<<v>>) = <<>>
      OBVIOUS
    <3>3. writes' = <<>>
      BY <1>1, <3>1, <3>2, Zenon
    <3>4. QED
      BY <3>1, <3>3
  <2>2. Held.size \in 0 .. Held.size
    BY <1>5, <2>1
  <2>3. /\ \E U : /\ Holding(file', U, NoStorage, Others, strays, freep, Held)
                  /\ Held.addr \in U /\ file'[Held.addr].len = Held.size
        /\ eof = Len(file') + 1
    <3>1. CASE eof = Len(file) + 1
      BY <1>1, <1>6, <1>8, <2>1, <2>2, <3>1, ObjectInside
    <3>2. CASE Held.addr = Len(file) + 1 /\ End(Held) = eof
      BY <1>1, <1>6, <1>8, <2>1, <2>2, <3>2, ObjectBehind
    <3>3. QED
      BY <2>1, <3>1, <3>2
  <2>4. PICK U : /\ Holding(file', U, NoStorage, Others, strays, freep, Held)
                 /\ Held.addr \in U /\ file'[Held.addr].len = Held.size
    BY <2>3
  <2>5. Memory(U)'
    BY <1>1, <1>3, <2>1, <2>4 DEF Memory
  <2>6. EndsAtEof'
    BY <1>1, <2>3 DEF EndsAtEof
  <2>7. QED
    BY <1>1, <1>7, <1>8, <2>5, <2>6 DEF OpenInv
<1>9. CASE op.pc # "write"
  <2>1. /\ InTheFile(file, Target) /\ Target \in Interval /\ Target.size > 0
        /\ op.pc = "back" => Apart(Front, Target) /\ Front \in Interval
        /\ Cutting \/ op.pc \in {"kill", "release"}
    BY <1>2, <1>9, TargetIs
  <2>2. Erasing(file, Target, writes)
    BY <1>2, <1>9 DEF OpenInv
  <2>3. Erasing(file', Target', writes')
    BY <1>1, <1>2, <1>3, <1>4, <1>9, <2>1, <2>2, ErasingGoesOn
  <2>4. Within(Covers(w), Target)
    BY <1>1, <2>1, <2>2, ErasingHead
  <2>5. /\ file' \in Seq(FileUnit) /\ Len(file') = Len(file)
        /\ \A i \in 1 .. Len(file) : i \notin Units(Target) => file'[i] = file[i]
    BY <1>1, <1>4, <1>5, <2>1, <2>4, WriteInside
  <2>6. eof = Len(file') + 1 /\ eof' = eof
    BY <1>1, <1>4, <1>9, <2>5
  <2>7. op.pc = "back" => IsRecord(file', Front, Free)
    <3> SUFFICES ASSUME op.pc = "back" PROVE IsRecord(file', Front, Free)
      OBVIOUS
    <3>1. IsRecord(file, Front, Free) /\ Apart(Front, Target) /\ Front \in Interval
      BY <2>1 DEF OpenInv
    <3>2. Front.addr \in 1 .. Len(file)
      <4>1. Front.size > 0 /\ Front.addr > 0 /\ End(Front) <= eof /\ eof = Len(file) + 1
        BY <1>4, Halves DEF DataInv, Front, Clear
      <4>2. QED
        BY <1>4, <3>1, <4>1 DEF End, Interval
    <3>3. RecordUnits(file, Front.addr) = Units(Front)
      BY <3>1 DEF IsRecord, RecordUnits, Units, End, Interval
    <3>4. \A i \in Units(Front) : i \notin Units(Target)
      BY <2>1, <3>1 DEF Apart, Units, End, Interval
    <3>5. Get(file, Front.addr) = "record"
      BY <3>1 DEF IsRecord
    <3>6. \A i \in RecordUnits(file, Front.addr) : i \in 1 .. Len(file) => file'[i] = file[i]
      BY <2>5, <3>3, <3>4
    <3>7. Len(file) <= Len(file')
      BY <1>4, <2>5
    <3>8. Get(file', Front.addr) = "record" /\ file'[Front.addr] = file[Front.addr]
      BY <1>4, <2>5, <3>2, <3>5, <3>6, <3>7, SameRecord
    <3>9. QED
      BY <3>1, <3>8 DEF IsRecord
  <2>8. op.pc = "release" => Units(Held) \subseteq UnitsOf(freep)
    BY DEF OpenInv
  <2>9. EndsAtEof'
    BY <2>6 DEF EndsAtEof
  <2>10. \E U : Memory(U)'
    <3>1. CASE Cutting
      <4>1. Holding(file', T, Held, Others, strays, freep, Held) /\ Gap = Held
        BY <1>1, <1>5, <1>6, <3>1, CutWritten
      <4>2. op'.pc \notin {"kill", "release", "write"}
        BY <1>1, <3>1 DEF Cutting
      <4>3. Memory(T)'
        BY <1>1, <1>3, <4>1, <4>2 DEF Memory
      <4>4. QED
        BY <4>3
    <3>2. CASE op.pc \in {"kill", "release"}
      <4>1. PICK U : /\ Holding(file', U, NoStorage, Others, strays, freep, Held)
                     /\ Held.addr \in U /\ file'[Held.addr].len = Held.size
        BY <1>1, <1>5, <1>6, <3>2, ErasingWritten
      <4>2. Gap = NoStorage
        BY <3>2 DEF Gap, Cutting
      <4>3. Memory(U)'
        BY <1>1, <1>3, <4>1, <4>2 DEF Memory
      <4>4. QED
        BY <4>3
    <3>3. QED
      BY <2>1, <3>1, <3>2
  <2>11. (\E U : Memory(U))'
    BY <2>10
  <2>12. QED
    BY <1>1, <1>3, <1>7, <2>3, <2>7, <2>8, <2>9, <2>11 DEF OpenInv
<1>10. QED
  BY <1>8, <1>9

------------------------------------------------------------------------------
\* The scan gets to all objects no call is about but those behind the gap.
LEMMA TilesReached ==
  ASSUME DataInv, up, ~readOnly, NEW f \in Seq(FileUnit), NEW T, NEW g \in Interval, NEW c,
         Holding(f, T, g, Others, strays, freep, Held),
         \A t \in T : t < c => g.size = 0 \/ t < g.addr
  PROVE  Reached(f, c)
<1> SUFFICES ASSUME NEW x \in Names, kept[x].size > 0, kept[x].addr < c
             PROVE  kept[x].addr \in Scan(f).at
  BY DEF Reached
<1>1. x # op.name /\ dir[x] = kept[x]
  BY DEF DataInv, KeptInv
<1>2. Others[x] = kept[x]
  BY <1>1 DEF Others, Without
<1>3. kept[x].addr \in T
  BY <1>2 DEF Holding
<1>4. QED
  BY <1>3, TilesAreScanned DEF Holding

\* Where a call is broken off, the scan gets to all objects in front of where a
\* block was being cut.
LEMMA BrokenReached ==
  ASSUME DataInv, OpenInv, up, ~readOnly, writes # <<>>, NEW k \in 0 .. Head(writes).size
  PROVE  Reached(Written(file, Head(writes), k), CutAt)
<1> DEFINE w == Head(writes)
           h == Written(file, w, k)
<1>1. op.pc # "idle"
  BY DEF DataInv, StorageInv
<1>2. /\ op.pc \in Steps /\ Held \in Interval
  BY <1>1, BlockIs
<1>3. PICK T : Memory(T)
  BY DEF OpenInv
<1>4. NoStorage \in Interval /\ NoStorage.size = 0
  BY DEF NoStorage, Interval
<1>5. h \in Seq(FileUnit)
  <2>1. /\ w \in Writes /\ WriteShape(w) /\ w.addr \in 1 .. Len(file) + 1
        /\ w.part = "trailer" => w.addr <= Len(file)
    BY NextWrite
  <2>2. file \in Seq(FileUnit)
    BY DEF DataInv, FileInv
  <2>3. QED
    BY <2>1, <2>2, WrittenIs
<1>6. CASE Cutting
  <2>1. Holding(h, T, Held, Others, strays, freep, Held)
    BY <1>3, <1>6, CutWritten
  <2>2. CutAt = Held.addr
    BY <1>6 DEF CutAt, Held, Cutting
  <2> HIDE DEF h
  <2>3. Reached(h, CutAt)
    BY <1>2, <1>5, <2>1, <2>2, TilesReached
  <2>4. QED
    BY <2>3 DEF h, w
<1>7. CASE op.pc \in {"kill", "release"}
  <2>1. PICK U : Holding(h, U, NoStorage, Others, strays, freep, Held)
    BY <1>3, <1>7, ErasingWritten
  <2> HIDE DEF h
  <2>2. Reached(h, CutAt)
    BY <1>4, <1>5, <2>1, TilesReached
  <2>3. QED
    BY <2>2 DEF h, w
<1>8. CASE op.pc = "write"
  <2>1. /\ w.size = Held.size
        /\ eof = Len(file) + 1 \/ (Held.addr = Len(file) + 1 /\ End(Held) = eof)
    BY <1>8, ObjectIs
  <2>2. CASE eof = Len(file) + 1
    <3>1. PICK U : Holding(h, U, NoStorage, Others, strays, freep, Held)
      BY <1>3, <1>8, <2>1, <2>2, ObjectInside
    <3> HIDE DEF h
    <3>2. Reached(h, CutAt)
      BY <1>4, <1>5, <3>1, TilesReached
    <3>3. QED
      BY <3>2 DEF h, w
  <2>3. CASE Held.addr = Len(file) + 1 /\ End(Held) = eof
    <3>1. Holding(h, T, Held, Others, strays, freep, Held) /\ \A t \in T : t < Held.addr
      BY <1>3, <1>8, <2>1, <2>3, ObjectBehind
    <3> HIDE DEF h
    <3>2. Reached(h, CutAt)
      BY <1>2, <1>5, <3>1, TilesReached
    <3>3. QED
      BY <3>2 DEF h, w
  <2>4. QED
    BY <2>1, <2>2, <2>3
<1>9. QED
  BY <1>1, <1>2, <1>6, <1>7, <1>8 DEF Steps, Cutting

\* As the records are, the scan gets to all objects in front of the cut.
LEMMA NowReached ==
  ASSUME DataInv, OpenInv, up, ~readOnly
  PROVE  Reached(file, CutAt)
<1>1. PICK T : Memory(T)
  BY DEF OpenInv
<1>2. file \in Seq(FileUnit)
  BY DEF DataInv, FileInv
<1>3. CASE Cutting
  <2>1. op.pc # "idle" /\ Gap = Held /\ CutAt = Held.addr
    BY <1>3 DEF Cutting, Gap, Held, CutAt
  <2>2. Held \in Interval
    BY <2>1, BlockIs
  <2>3. Holding(file, T, Held, Others, strays, freep, Held)
    BY <1>1, <2>1 DEF Memory
  <2>4. QED
    BY <1>2, <2>1, <2>2, <2>3, TilesReached
<1>4. CASE ~Cutting
  <2>1. Gap = NoStorage
    BY <1>4 DEF Gap
  <2>2. NoStorage \in Interval /\ NoStorage.size = 0
    BY DEF NoStorage, Interval
  <2>3. Holding(file, T, NoStorage, Others, strays, freep, Held)
    BY <1>1, <2>1 DEF Memory
  <2>4. QED
    BY <1>2, <2>2, <2>3, TilesReached
<1>5. QED
  BY <1>3, <1>4

\* Nor does one that fails or is cut off.
LEMMA NoZeroAny ==
  ASSUME DataInv, NoZero(file), writes # <<>>, NEW k \in 0 .. Head(writes).size
  PROVE  NoZero(Written(file, Head(writes), k))
<1> DEFINE w == Head(writes)
<1>1. /\ w \in Writes /\ WriteShape(w) /\ w.addr \in 1 .. Len(file) + 1
      /\ w.part = "trailer" => w.addr <= Len(file)
  BY NextWrite
<1>2. file \in Seq(FileUnit)
  BY DEF DataInv, FileInv
<1> HIDE DEF w
<1>3. NoZero(Written(file, w, k))
  BY <1>1, <1>2, NoZeroWritten DEF w
<1>4. QED
  BY <1>3 DEF w

LEMMA HeadSize ==
  ASSUME DataInv, writes # <<>>
  PROVE  Head(writes).size \in Nat /\ Head(writes).size \in 0 .. Head(writes).size
         /\ up /\ ~readOnly
<1>1. Head(writes) \in Writes /\ up /\ ~readOnly
  BY NextWrite
<1>2. QED
  BY <1>1 DEF Writes

\* A call, or a write of it, that goes well.
LEMMA StepOpens ==
  ASSUME FullInv, DataInv', Begin \/ GoOn \/ Finish \/ DbWrite
  PROVE  TileInv'
<1>1. DataInv /\ TileInv
  BY DEF FullInv
<1>2. /\ up /\ ~readOnly /\ up' = up /\ readOnly' = readOnly
      /\ file' = file \/ DbWrite
  <2>1. CASE Begin
    BY <1>1, <2>1, BeginShape DEF DataInv, Begin
  <2>2. CASE GoOn
    BY <1>1, <2>2, GoOnShape DEF DataInv, GoOn
  <2>3. CASE Finish
    <3>1. op.pc # "idle" /\ up' = up /\ readOnly' = readOnly /\ file' = file
      BY <2>3 DEF Finish, Stored, Killed, At
    <3>2. QED
      BY <1>1, <3>1, InCall DEF DataInv
  <2>4. CASE DbWrite
    BY <1>1, <2>4, HeadSize DEF DbWrite, WriteDone
  <2>5. QED
    BY <2>1, <2>2, <2>3, <2>4
<1>3. OpenInv
  BY <1>1, <1>2 DEF TileInv
<1>4. OpenInv'
  BY <1>1, <1>3, BeginOpens, GoOnOpens, FinishOpens, DbWriteOpens
<1>5. NoZero(file')
  <2>1. CASE DbWrite
    BY <1>1, <2>1, HeadSize, NoZeroAny DEF DbWrite, WriteDone, TileInv
  <2>2. CASE file' = file
    BY <1>1, <2>2 DEF TileInv
  <2>3. QED
    BY <1>2, <2>1, <2>2
<1>6. QED
  BY <1>2, <1>4, <1>5 DEF TileInv

LEMMA FailTiles ==
  ASSUME FullInv, DbWriteFails
  PROVE  TileInv'
<1>1. DataInv /\ TileInv
  BY DEF FullInv
<1>2. writes # <<>> /\ readOnly' = TRUE /\ cut' = CutAt /\ kept' = kept
  BY DEF DbWriteFails, WriteFails
<1>3. Head(writes).size \in Nat /\ up /\ ~readOnly
  BY <1>1, <1>2, HeadSize
<1>4. PICK k \in 0 .. Head(writes).size - 1 : file' = Written(file, Head(writes), k)
  BY DEF DbWriteFails
<1>5. k \in 0 .. Head(writes).size
  BY <1>3, <1>4
<1>6. NoZero(file') /\ Reached(file', CutAt)
  BY <1>1, <1>2, <1>3, <1>4, <1>5, NoZeroAny, BrokenReached DEF TileInv
<1>7. QED
  BY <1>2, <1>6 DEF TileInv, Reached

LEMMA StopTiles ==
  ASSUME FullInv, Stop
  PROVE  TileInv'
<1>1. DataInv /\ TileInv
  BY DEF FullInv
<1>2. up /\ up' = FALSE /\ cut' = CutAt /\ kept' = kept
  BY DEF Stop, Halt, Down
<1>3. NoZero(file') /\ Reached(file', CutAt)
  <2>1. CASE writes # <<>>
    <3>1. PICK k \in 0 .. Head(writes).size : file' = Written(file, Head(writes), k)
      BY <2>1 DEF Stop
    <3>2. QED
      BY <1>1, <2>1, <3>1, HeadSize, NoZeroAny, BrokenReached DEF TileInv
  <2>2. CASE writes = <<>>
    <3>1. file' = file
      BY <2>2 DEF Stop
    <3>2. Reached(file, CutAt)
      <4>1. CASE ~readOnly
        BY <1>1, <1>2, <4>1, NowReached DEF TileInv
      <4>2. CASE readOnly
        <5>1. CutAt = cut
          BY <1>1, <4>2 DEF DataInv, StorageInv, CutAt, Cutting
        <5>2. QED
          BY <1>1, <4>2, <5>1 DEF TileInv
      <4>3. QED
        BY <4>1, <4>2
    <3>3. QED
      BY <1>1, <3>1, <3>2 DEF TileInv
  <2>3. QED
    BY <2>1, <2>2
<1>4. QED
  BY <1>2, <1>3 DEF TileInv, Reached

------------------------------------------------------------------------------
\* A name has a record or no storage.
LEMMA DirectoryFull ==
  ASSUME NEW f \in Seq(FileUnit), NEW x \in Names
  PROVE  Directory(f)[x].size > 0 \/ Directory(f)[x] = NoStorage
<1> DEFINE S == {a \in Scan(f).at : f[a].of = x}
<1>1. Directory(f)[x] = IF S = {} THEN NoStorage ELSE RecordAt(f, Min(S))
  BY DEF Directory
<1>2. CASE S = {}
  BY <1>1, <1>2
<1>3. CASE S # {}
  <2>1. PICK a \in Scan(f).at : f[a].of = x
    BY <1>3
  <2>2. QED
    BY <2>1, DirectoryEntry
<1>4. QED
  BY <1>2, <1>3

\* Of a file it reads to the end the scan holds all.
LEMMA ScannedHolds ==
  ASSUME NEW f \in Seq(FileUnit), Scan(f).stop = Len(f) + 1
  PROVE  Holding(f, Scan(f).at, NoStorage, Directory(f), Strays(f), FreeStorage(f), NoStorage)
<1> DEFINE at == Scan(f).at
<1>1. Tiling(f, at, NoStorage)
  BY ScanTiles
<1>2. ASSUME NEW t \in at
      PROVE  Accounted(f, t, Directory(f), Strays(f), FreeStorage(f), NoStorage)
  <2>1. CASE f[t].of = Free
    <3>1. UnitsOf(FreeStorage(f)) = UNION {RecordUnits(f, b) : b \in FreeAt(f, at)}
      BY ScanChains DEF FreeChain, FreeStorage
    <3>2. t \in FreeAt(f, at)
      BY <2>1 DEF FreeAt
    <3>3. QED
      BY <2>1, <3>1, <3>2 DEF Accounted
  <2>2. CASE f[t].of # Free
    <3> DEFINE x == f[t].of
    <3>1. x \in Names
      BY <2>2, RecordTyped DEF FileUnit
    <3>2. CASE Directory(f)[x].addr = t
      <4>1. Directory(f)[x].size > 0
        BY <3>1, DirectoryEntry
      <4>2. PICK a \in at : Directory(f)[x] = RecordAt(f, a)
        BY <3>1, <4>1, DirectoryEntry
      <4>3. a = t
        BY <3>2, <4>2 DEF RecordAt
      <4>4. RecordAt(f, t) \in InUse(Directory(f), Strays(f))
        BY <3>1, <4>1, <4>2, <4>3 DEF InUse
      <4>5. QED
        BY <2>2, <4>4 DEF Accounted
    <3>3. CASE Directory(f)[x].addr # t
      <4>1. RecordAt(f, t) \in Strays(f)
        BY <2>2, <3>3 DEF Strays
      <4>2. QED
        BY <2>2, <4>1 DEF Accounted, InUse
    <3>4. QED
      BY <3>2, <3>3
  <2>3. QED
    BY <2>1, <2>2
<1>3. ASSUME NEW y \in Names, Directory(f)[y].size > 0
      PROVE  Directory(f)[y].addr \in at /\ IsRecord(f, Directory(f)[y], y)
  <2>1. PICK a \in at : f[a].of = y /\ Directory(f)[y] = RecordAt(f, a)
    BY <1>3, DirectoryEntry
  <2>2. Get(f, a) = "record"
    BY <1>1 DEF Tiling
  <2>3. QED
    BY <2>1, <2>2 DEF IsRecord, RecordAt
<1>4. ASSUME NEW i \in Strays(f)
      PROVE  i.addr \in at /\ RecordAt(f, i.addr) = i /\ f[i.addr].of # Free
  <2>1. PICK a \in at : i = RecordAt(f, a) /\ f[a].of \in Names
    BY StrayRecord
  <2>2. i.addr = a
    BY <2>1 DEF RecordAt
  <2>3. QED
    BY <2>1, <2>2, StorageAssumption
<1>5. QED
  BY <1>1, <1>2, <1>3, <1>4 DEF Holding

\* db_open() takes the file for what it is.
LEMMA OpenTiles ==
  ASSUME FullInv, DataInv', Open
  PROVE  TileInv'
<1>1. /\ NoZero(file) /\ file \in Seq(FileUnit) /\ op = Idle /\ writes = <<>> /\ up' = TRUE
      /\ file' = file /\ op' = op /\ writes' = writes
      /\ dir' = Directory(file) /\ strays' = Strays(file) /\ freep' = FreeStorage(file)
      /\ readOnly' = ScanFails(file)
      /\ eof' = IF ScanFails(file) THEN 0 ELSE EofFound(file)
      /\ kept' = [x \in Names |-> IF InFile(file, x, dir'[x]) THEN dir'[x] ELSE NoStorage]
  BY DEF Open, FullInv, TileInv, DataInv, StorageInv, FileInv
<1> DEFINE stop == Scan(file).stop
<1>2. stop \in 1 .. Len(file) + 1 /\ Get(file, stop) # "record" /\ Len(file) \in Nat
  BY <1>1, ScanChains DEF Chain
<1>3. NoZero(file')
  BY <1>1
<1>4. CASE ScanFails(file)
  <2>1. ASSUME NEW x \in Names, kept'[x].size > 0
        PROVE  kept'[x].addr \in Scan(file').at
    <3>1. kept'[x] = Directory(file)[x]
      <4>1. kept'[x] \in {dir'[x], NoStorage}
        BY <1>1
      <4>2. kept'[x] # NoStorage
        BY <2>1 DEF NoStorage
      <4>3. QED
        BY <1>1, <4>1, <4>2
    <3>2. PICK a \in Scan(file).at : kept'[x] = RecordAt(file, a)
      BY <1>1, <2>1, <3>1, DirectoryEntry
    <3>3. QED
      BY <1>1, <3>2 DEF RecordAt
  <2>2. QED
    BY <1>1, <1>3, <1>4, <2>1 DEF TileInv, Reached
<1>5. CASE ~ScanFails(file)
  <2>1. stop = Len(file) + 1 /\ EofFound(file) = Len(file) + 1
    <3>1. Get(file, stop) # "error"
      BY <1>5 DEF ScanFails
    <3>2. Get(file, stop) # "short"
      <4>1. stop \in 1 .. Len(file) => file[stop].len # 0
        BY <1>1 DEF NoZero
      <4>2. QED
        BY <1>2, <4>1 DEF Get
    <3>3. stop > Len(file)
      BY <1>2, <3>1, <3>2 DEF Get
    <3>4. EofFound(file) = stop
      BY <3>2 DEF EofFound
    <3>5. QED
      BY <1>2, <3>3, <3>4
  <2>2. Holding(file, Scan(file).at, NoStorage, dir', strays', freep', NoStorage)
    BY <1>1, <2>1, ScannedHolds
  <2>3. Others' = dir' /\ Held' = NoStorage /\ Gap' = NoStorage
    <3>1. op'.name \notin Names /\ op'.pc = "idle"
      BY <1>1, StorageAssumption DEF Idle
    <3>2. dir' \in Dir
      BY DEF DataInv, StorageInv, StorageTypeOK, Dir
    <3>3. Others' = dir'
      BY <3>1, <3>2, WithoutNobody DEF Others
    <3>4. Held' = NoStorage /\ Gap' = NoStorage
      BY <1>1, <3>1 DEF Held, Idle, Gap, Cutting
    <3>5. QED
      BY <3>3, <3>4
  <2>4. PICK U : U = Scan(file).at
    OBVIOUS
  <2>5. op'.pc = "idle"
    BY <1>1 DEF Idle
  <2>6. Memory(U)'
    BY <1>1, <2>2, <2>3, <2>4, <2>5 DEF Memory
  <2>7. \A y \in Names : Others'[y].size > 0 \/ Others'[y] = NoStorage
    BY <1>1, <2>3, DirectoryFull
  <2>8. EndsAtEof'
    BY <1>1, <1>5, <2>1 DEF EndsAtEof
  <2>9. (\E T : Memory(T))'
    BY <2>6
  <2>10. OpenInv'
    BY <2>5, <2>7, <2>8, <2>9 DEF OpenInv
  <2>11. QED
    BY <1>1, <1>3, <1>5, <2>10 DEF TileInv
<1>6. QED
  BY <1>4, <1>5

LEMMA TileStutter ==
  ASSUME FullInv, UNCHANGED vars
  PROVE  TileInv'
<1>1. /\ up' = up /\ dir' = dir /\ strays' = strays /\ freep' = freep /\ eof' = eof
      /\ readOnly' = readOnly /\ op' = op /\ writes' = writes /\ file' = file
      /\ kept' = kept /\ cut' = cut
  BY DEF vars, storageVars
<1>2. NoZero(file) /\ (up /\ ~readOnly => OpenInv) /\ (~up \/ readOnly => Reached(file, cut))
  BY DEF FullInv, TileInv
<1>3. CASE up /\ ~readOnly
  <2>1. OpenInv
    BY <1>2, <1>3
  <2>2. PICK T : Memory(T)
    BY <2>1 DEF OpenInv
  <2>3. /\ Gap' = Gap /\ Held' = Held /\ Others' = Others /\ Target' = Target
        /\ Front' = Front /\ ObjectWrite' = ObjectWrite
    BY <1>1 DEF Gap, Cutting, Held, Others, Target, Front, BackHalf, ObjectWrite
  <2>4. Memory(T)'
    BY <1>1, <2>2, <2>3 DEF Memory
  <2>5. EndsAtEof'
    BY <1>1, <2>1, <2>3 DEF OpenInv, EndsAtEof
  <2>6. (\E U : Memory(U))'
    BY <2>4
  <2>7. OpenInv'
    BY <1>1, <2>1, <2>3, <2>5, <2>6 DEF OpenInv
  <2>8. QED
    BY <1>1, <1>2, <1>3, <2>7 DEF TileInv
<1>4. CASE ~up \/ readOnly
  BY <1>1, <1>2, <1>4 DEF TileInv, Reached
<1>5. QED
  BY <1>3, <1>4

\* No file that is found has a header of an impossible length, which the scan
\* would take for the end of the file.
HeadersPossible == \A f \in InitialFiles : NoZero(f)

\* What holds of the records at every step.
LEMMA FullInvariant ==
  ASSUME HeadersPossible
  PROVE  Spec => []FullInv
<1>1. Init => TileInv
  <2> SUFFICES ASSUME Init PROVE TileInv
    OBVIOUS
  <2>1. up = FALSE /\ file \in InitialFiles /\ \A x \in Names : ~(kept[x].size > 0)
    BY DEF Init, StorageInit, Down, NoStorage
  <2>2. QED
    BY <2>1 DEF TileInv, Reached, HeadersPossible
<1>2. DataInv /\ DataInv' /\ TileInv /\ [Next]_vars => TileInv'
  BY StepOpens, FailTiles, StopTiles, OpenTiles, TileStutter DEF Next, FullInv
<1>3. QED
  BY <1>1, <1>2, DataInvariant, PTL DEF Spec, FullInv

------------------------------------------------------------------------------
\* The storage in use is the records that are not free,
LEMMA InUseIs ==
  ASSUME NEW f \in Seq(FileUnit), NEW T, NEW d \in Dir, NEW s \in SUBSET Interval, NEW m,
         Holding(f, T, NoStorage, d, s, m, NoStorage)
  PROVE  InUse(d, s) = {RecordAt(f, t) : t \in {u \in T : f[u].of # Free}}
<1>1. ASSUME NEW i \in InUse(d, s)
      PROVE  i.addr \in T /\ f[i.addr].of # Free /\ i = RecordAt(f, i.addr)
  <2>1. CASE i \in s
    BY <2>1 DEF Holding
  <2>2. CASE i \notin s
    <3>1. PICK y \in Names : d[y].size > 0 /\ i = d[y]
      BY <2>2 DEF InUse
    <3>2. d[y] \in Interval /\ d[y].addr \in T /\ IsRecord(f, d[y], y) /\ y # Free
      BY <3>1, StorageAssumption DEF Holding, Dir
    <3>3. QED
      BY <3>1, <3>2 DEF IsRecord, RecordAt, Interval
  <2>3. QED
    BY <2>1, <2>2
<1>2. ASSUME NEW t \in T, f[t].of # Free PROVE RecordAt(f, t) \in InUse(d, s)
  <2>1. ~Within(RecordAt(f, t), NoStorage)
    BY HoldingTyped, WithinNothing
  <2>2. QED
    BY <1>2, <2>1 DEF Holding, Accounted
<1>3. QED
  BY <1>1, <1>2

\* and what is free is exactly the free records.
LEMMA FreeIs ==
  ASSUME NEW f \in Seq(FileUnit), NEW T, NEW d \in Dir, NEW s \in SUBSET Interval,
         NEW m \in SUBSET Interval, WellFormed(d, s, m, Len(f) + 1),
         Holding(f, T, NoStorage, d, s, m, NoStorage)
  PROVE  UnitsOf(m) = UNION {RecordUnits(f, b) : b \in FreeAt(f, T)}
<1>1. ASSUME NEW b \in FreeAt(f, T) PROVE RecordUnits(f, b) \subseteq UnitsOf(m)
  <2>1. b \in T /\ f[b].of = Free
    BY DEF FreeAt
  <2>2. ~Within(RecordAt(f, b), NoStorage)
    BY <2>1, HoldingTyped, WithinNothing
  <2>3. QED
    BY <2>1, <2>2 DEF Holding, Accounted
<1>2. ASSUME NEW u \in UnitsOf(m) PROVE \E b \in FreeAt(f, T) : u \in RecordUnits(f, b)
  <2>1. PICK i \in m : u \in Units(i)
    BY DEF UnitsOf
  <2>2. i \in Interval /\ i.addr > 0 /\ End(i) <= Len(f) + 1 /\ Len(f) \in Nat
    BY DEF WellFormed
  <2>3. u \in 1 .. Len(f) /\ u \in Nat
    BY <2>1, <2>2 DEF Units, End, Interval
  <2>4. u \notin Units(NoStorage)
    BY <2>3 DEF Units, NoStorage, End
  <2>5. PICK t \in T : u \in RecordUnits(f, t)
    BY <2>3, <2>4 DEF Holding, Tiling
  <2>6. f[t].of = Free
    <3> SUFFICES ASSUME f[t].of # Free PROVE FALSE
      OBVIOUS
    <3>1. RecordAt(f, t) \in InUse(d, s)
      BY InUseIs
    <3>2. Apart(RecordAt(f, t), i)
      BY <3>1 DEF InUse, WellFormed
    <3>3. RecordAt(f, t) \in Interval /\ u \in Units(RecordAt(f, t))
      BY <2>5, HoldingTyped
    <3>4. QED
      BY <2>1, <2>2, <2>3, <3>2, <3>3 DEF Apart, Units, End, Interval
  <2>7. QED
    BY <2>5, <2>6 DEF FreeAt
<1>3. QED
  BY <1>1, <1>2

\* Between calls no unit of the file is lost and none is held twice: the
\* directory, the second records and the map of free storage are exactly the
\* file (db5_realloc(), db_delete(), rt_memfree()), if every header of the file
\* that was found has a possible length.
THEOREM StorageIsAccounted ==
  ASSUME HeadersPossible
  PROVE  Spec => []StorageAccounted
<1>1. FullInv => StorageAccounted
  <2> SUFFICES ASSUME FullInv, up, ~readOnly, op = Idle
               PROVE  /\ WellFormed(dir, strays, freep, eof)
                      /\ (UNION {Units(dir[x]) : x \in Names}) \cup UnitsOf(strays)
                           \cup UnitsOf(freep) = 1 .. Len(file)
                      /\ eof = Len(file) + 1
    BY DEF StorageAccounted
  <2>1. DataInv /\ OpenInv /\ op.pc = "idle"
    BY DEF FullInv, TileInv, Idle
  <2>2. /\ file \in Seq(FileUnit) /\ dir \in Dir /\ eof = Len(file) + 1 /\ Len(file) \in Nat
        /\ strays \in SUBSET Interval /\ freep \in SUBSET Interval
        /\ WellFormed(dir, strays, freep, eof)
    BY <2>1, Settled
  <2>3. PICK T : Holding(file, T, NoStorage, dir, strays, freep, NoStorage)
    BY <2>1, Settled
  <2>4. ASSUME NEW i \in Interval, i.addr > 0, End(i) <= eof PROVE Units(i) \subseteq 1 .. Len(file)
    BY <2>2, <2>4 DEF Units, End, Interval
  <2>5. ASSUME NEW x \in Names PROVE Units(dir[x]) \subseteq 1 .. Len(file)
    <3>1. dir[x] \in Interval
      BY <2>2 DEF Dir
    <3>2. CASE dir[x].size > 0
      BY <2>2, <2>4, <3>1, <3>2 DEF WellFormed
    <3>3. CASE ~(dir[x].size > 0)
      BY <3>1, <3>3 DEF Units, End, Interval
    <3>4. QED
      BY <3>2, <3>3
  <2>6. UnitsOf(strays) \subseteq 1 .. Len(file) /\ UnitsOf(freep) \subseteq 1 .. Len(file)
    BY <2>2, <2>4 DEF UnitsOf, WellFormed
  <2>7. ASSUME NEW u \in 1 .. Len(file)
        PROVE  u \in (UNION {Units(dir[x]) : x \in Names}) \cup UnitsOf(strays) \cup UnitsOf(freep)
    <3>1. u \notin Units(NoStorage)
      BY <2>2, <2>7 DEF Units, NoStorage, End
    <3>2. PICK t \in T : u \in RecordUnits(file, t)
      BY <2>3, <3>1 DEF Holding, Tiling
    <3>3. CASE file[t].of = Free
      <4>1. t \in FreeAt(file, T)
        BY <3>3 DEF FreeAt
      <4>2. QED
        BY <2>2, <2>3, <3>2, <4>1, FreeIs
    <3>4. CASE file[t].of # Free
      <4>1. RecordAt(file, t) \in InUse(dir, strays)
        BY <2>2, <2>3, <3>4, InUseIs
      <4>2. u \in Units(RecordAt(file, t))
        BY <2>2, <2>3, <3>2, HoldingTyped
      <4>3. QED
        BY <4>1, <4>2 DEF InUse, UnitsOf
    <3>5. QED
      BY <3>3, <3>4
  <2>8. (UNION {Units(dir[x]) : x \in Names}) \cup UnitsOf(strays) \cup UnitsOf(freep)
          = 1 .. Len(file)
    BY <2>5, <2>6, <2>7
  <2>9. QED
    BY <2>2, <2>8
<1>2. QED
  BY <1>1, FullInvariant, PTL

\* A scan finds the storage, the map and the end that the process holds.
LEMMA ScanTells ==
  ASSUME NEW f \in Seq(FileUnit), NEW T, NEW d \in Dir, NEW s \in SUBSET Interval,
         NEW m \in SUBSET Interval, WellFormed(d, s, m, Len(f) + 1),
         Holding(f, T, NoStorage, d, s, m, NoStorage)
  PROVE  /\ ~ScanFails(f) /\ EofFound(f) = Len(f) + 1 /\ Scan(f).at = T
         /\ InUse(Directory(f), Strays(f)) = InUse(d, s)
         /\ FreeStorage(f) = m
<1>1. Scan(f).at = T /\ Scan(f).stop = Len(f) + 1
  BY WholeFileScanned DEF Holding
<1>2. Get(f, Scan(f).stop) = "eof"
  BY <1>1 DEF Get
<1>3. ~ScanFails(f) /\ EofFound(f) = Len(f) + 1
  BY <1>1, <1>2 DEF ScanFails, EofFound
<1>4. /\ Directory(f) \in Dir /\ Strays(f) \in SUBSET Interval
      /\ FreeStorage(f) \in SUBSET Interval /\ Separated(FreeStorage(f))
      /\ UnitsOf(FreeStorage(f)) = UNION {RecordUnits(f, b) : b \in FreeAt(f, T)}
  BY <1>1, ScanWellFormed, ScanChains DEF Dir, FreeChain, FreeStorage
<1>5. Holding(f, T, NoStorage, Directory(f), Strays(f), FreeStorage(f), NoStorage)
  BY <1>1, ScannedHolds
<1>6. InUse(Directory(f), Strays(f)) = InUse(d, s)
  <2> DEFINE S == {RecordAt(f, t) : t \in {u \in T : f[u].of # Free}}
  <2>1. InUse(d, s) = S
    BY InUseIs
  <2>2. InUse(Directory(f), Strays(f)) = S
    BY <1>4, <1>5, InUseIs
  <2>3. QED
    BY <2>1, <2>2
<1>7. Separated(m) /\ UnitsOf(m) = UNION {RecordUnits(f, b) : b \in FreeAt(f, T)}
  BY FreeIs DEF WellFormed
<1>8. FreeStorage(f) = m
  BY <1>4, <1>7, SameUnitsSameMap
<1>9. QED
  BY <1>1, <1>3, <1>6, <1>8

\* Without second records it finds every object under its name.
LEMMA DirectoryTells ==
  ASSUME NEW f \in Seq(FileUnit), NEW T, NEW d \in Dir, NEW m \in SUBSET Interval,
         WellFormed(d, {}, m, Len(f) + 1), Holding(f, T, NoStorage, d, {}, m, NoStorage),
         \A y \in Names : d[y].size > 0 \/ d[y] = NoStorage
  PROVE  Directory(f) = d
<1>1. /\ Scan(f).at = T /\ InUse(Directory(f), Strays(f)) = InUse(d, {})
      /\ Directory(f) \in Dir
  BY ScanTells, ScanWellFormed DEF Dir
<1>2. ASSUME NEW x \in Names PROVE Directory(f)[x] = d[x]
  <2>1. CASE Directory(f)[x].size > 0
    <3>1. PICK a \in T : f[a].of = x /\ Directory(f)[x] = RecordAt(f, a)
      BY <1>1, <2>1, DirectoryEntry
    <3>2. Directory(f)[x] \in InUse(d, {})
      BY <1>1, <2>1 DEF InUse
    <3>3. PICK y \in Names : d[y].size > 0 /\ Directory(f)[x] = d[y]
      BY <3>2 DEF InUse
    <3>4. IsRecord(f, d[y], y) /\ d[y].addr = a
      BY <3>1, <3>3 DEF Holding, RecordAt
    <3>5. y = x
      BY <3>1, <3>4 DEF IsRecord
    <3>6. QED
      BY <3>3, <3>5
  <2>2. CASE ~(Directory(f)[x].size > 0)
    <3>1. ~(d[x].size > 0)
      <4> SUFFICES ASSUME d[x].size > 0 PROVE FALSE
        OBVIOUS
      <4>1. d[x].addr \in Scan(f).at /\ f[d[x].addr].of = x
        BY <1>1 DEF Holding, IsRecord
      <4>2. QED
        BY <2>2, <4>1, DirectoryEntry
    <3>2. QED
      BY <2>2, <3>1, DirectoryFull
  <2>3. QED
    BY <2>1, <2>2
<1>3. QED
  BY <1>1, <1>2 DEF Dir

\* Between calls nothing is only in memory: another process that opened the file
\* would find the same objects, the same free storage and the same end
\* (db5_scan() against what db5_realloc(), db_delete() and rt_memfree() keep), if
\* every header of the file that was found has a possible length.
THEOREM TheFileTellsAll ==
  ASSUME HeadersPossible
  PROVE  Spec => []FileTellsAll
<1>1. FullInv => FileTellsAll
  <2> SUFFICES ASSUME FullInv, up, ~readOnly, op = Idle
               PROVE  /\ ~ScanFails(file)
                      /\ InUse(Directory(file), Strays(file)) = InUse(dir, strays)
                      /\ strays = {} => Directory(file) = dir
                      /\ FreeStorage(file) = freep
                      /\ EofFound(file) = eof
    BY DEF FileTellsAll
  <2>1. DataInv /\ OpenInv /\ op.pc = "idle"
    BY DEF FullInv, TileInv, Idle
  <2>2. /\ file \in Seq(FileUnit) /\ dir \in Dir /\ eof = Len(file) + 1
        /\ strays \in SUBSET Interval /\ freep \in SUBSET Interval
        /\ WellFormed(dir, strays, freep, Len(file) + 1)
        /\ \A y \in Names : dir[y].size > 0 \/ dir[y] = NoStorage
    BY <2>1, Settled
  <2>3. PICK T : Holding(file, T, NoStorage, dir, strays, freep, NoStorage)
    BY <2>1, Settled
  <2>4. /\ ~ScanFails(file) /\ EofFound(file) = eof /\ FreeStorage(file) = freep
        /\ InUse(Directory(file), Strays(file)) = InUse(dir, strays)
    BY <2>2, <2>3, ScanTells
  <2>5. strays = {} => Directory(file) = dir
    BY <2>2, <2>3, DirectoryTells
  <2>6. QED
    BY <2>4, <2>5
<1>2. QED
  BY <1>1, FullInvariant, PTL

\* Wherever the process stops or a write fails, the scan that follows reaches
\* every object that no call was about; if a block was being cut in two, those in
\* front of it (the order of the writes in db5_realloc()), if every header of the
\* file that was found has a possible length.
THEOREM OthersAreReachable ==
  ASSUME HeadersPossible
  PROVE  Spec => []OthersStayReachable
<1>1. FullInv => OthersStayReachable
  <2> SUFFICES ASSUME FullInv PROVE Reached(file, CutAt)
    BY DEF Reached, OthersStayReachable
  <2>1. CASE up /\ ~readOnly
    BY <2>1, NowReached DEF FullInv, TileInv
  <2>2. CASE ~up \/ readOnly
    <3>1. op = Idle
      BY <2>2 DEF FullInv, DataInv, StorageInv
    <3>2. CutAt = cut
      BY <3>1 DEF CutAt, Cutting, Idle
    <3>3. QED
      BY <2>2, <3>2 DEF FullInv, TileInv
  <2>3. QED
    BY <2>1, <2>2
<1>2. QED
  BY <1>1, FullInvariant, PTL
==============================================================================
