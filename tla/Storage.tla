------------------------------- MODULE Storage -------------------------------
(***************************************************************************)
(* Storage of a version 5 geometry database as one process keeps it:       *)
(* librt/db5_alloc.c (db5_write_free, db5_realloc), db_alloc.c (db_delete) *)
(* and db5_io.c (db_put_external5).  A call that changes the database is a *)
(* sequence of db_write() calls; any of them may fail, and the process may *)
(* stop between any two.  What the writes leave in the file is the subject *)
(* of module Database.                                                     *)
(*                                                                         *)
(* Addresses and sizes count units of eight bytes; every size in the file  *)
(* is a multiple of it.  Unit 0 is the file header.                        *)
(***************************************************************************)
EXTENDS Integers, Sequences, FreeMap

CONSTANTS
  Names,    \* names of objects
  Sizes,    \* sizes of the records objects are written as
  Large,    \* a free record larger than this is written as header and trailer
  MaxEof,   \* bound: the file never grows past this unit
  Free      \* what a free record holds in place of a name

ASSUME StorageAssumption ==
  /\ Free \notin Names
  /\ Sizes \subseteq Nat \ {0}
  /\ Large \in Nat /\ Large >= 2
  /\ MaxEof \in Nat

VARIABLES
  up,        \* the process has the database open
  dir,       \* d_addr and d_len of each name; NoStorage if it has none
  strays,    \* storage of second records of a name (entered as A_name ...)
  freep,     \* dbi_freep
  eof,       \* dbi_eof
  readOnly,  \* dbi_read_only
  op,        \* the call in progress
  writes     \* the db_write() calls it still has to make before it goes on

storageVars == <<up, dir, strays, freep, eof, readOnly, op, writes>>

\* RT_DIR_PHONY_ADDR with length 0: the name has no storage.
NoStorage == [addr |-> 0, size |-> 0]

\* No call in progress.
Idle == [pc |-> "idle", name |-> Free, size |-> 0, hold |-> NoStorage]

Steps == {"idle", "front", "back", "release", "surplus", "erase", "write", "kill"}

\* A db_write(): the units it covers, and of which record of which length they
\* are the whole, the first two units (header) or the last byte (trailer).
Write(addr, size, of, len, part) ==
  [addr |-> addr, size |-> size, of |-> of, len |-> len, part |-> part]

Writes == [addr : Nat, size : Nat, of : Names \cup {Free}, len : Nat,
           part : {"whole", "header", "trailer"}]

\* A bug that leaves the header of a large record to the caller.
FreeWritesNoHeader(e) ==
  IF e.size <= Large
  THEN <<Write(e.addr, e.size, Free, e.size, "whole")>>
  ELSE <<Write(e.addr + e.size - 1, 1, Free, e.size, "trailer")>>

\* db5_write_free(): a small free record in one piece, a large one as its
\* header and then its last byte.
FreeWrites(e) ==
  IF e.size <= Large
  THEN <<Write(e.addr, e.size, Free, e.size, "whole")>>
  ELSE <<Write(e.addr, 2, Free, e.size, "header"),
         Write(e.addr + e.size - 1, 1, Free, e.size, "trailer")>>

\* Storage a scan can find: what is in use and what is free do not overlap, end
\* before the end of the file, and free intervals are merged.
WellFormed(d, s, f, e) ==
  /\ e > 0
  /\ Separated(f)
  /\ \A i \in f : i.addr > 0 /\ End(i) <= e
  /\ \A x \in Names : d[x].size > 0 => d[x].addr > 0 /\ End(d[x]) <= e
  /\ \A x \in Names : d[x].size > 0 => \A i \in f : Apart(d[x], i)
  /\ \A x, y \in Names :
       x # y /\ d[x].size > 0 /\ d[y].size > 0 => Apart(d[x], d[y])
  /\ \A i \in s : i.size > 0 /\ i.addr > 0 /\ End(i) <= e
  /\ \A i \in s : \A j \in f : Apart(i, j)
  /\ \A i \in s : \A x \in Names : d[x].size > 0 => Apart(i, d[x])
  /\ \A i, j \in s : i # j => Apart(i, j)

StorageTypeOK ==
  /\ up \in BOOLEAN
  /\ dir \in [Names -> Interval]
  /\ strays \subseteq Interval
  /\ freep \subseteq Interval
  /\ eof \in Nat
  /\ readOnly \in BOOLEAN
  /\ op \in [pc : Steps, name : Names \cup {Free}, size : Nat, hold : Interval]
  /\ writes \in Seq(Writes)

\* The state of a process that does not have the database open.
Down(u, d, s, f, e, r, o, w) ==
  /\ u = FALSE
  /\ d = [x \in Names |-> NoStorage]
  /\ s = {}
  /\ f = {}
  /\ e = 0
  /\ r = FALSE
  /\ o = Idle
  /\ w = <<>>

StorageInit == Down(up, dir, strays, freep, eof, readOnly, op, writes)

------------------------------------------------------------------------------
\* A bug that looks at the mode the file was opened in only.
ReadyOnceWritable == up /\ op = Idle

\* A call may begin: db_put_external5() and the callers of db_delete() return
\* at once on a read-only database.
Ready == up /\ ~readOnly /\ op = Idle

\* The call in progress has made all its writes up to here.
At(pc) == up /\ op.pc = pc /\ writes = <<>>

\* db_put_external5() writes the object into storage e, which it has got.
WriteObject(x, n, e) ==
  /\ op' = [pc |-> "write", name |-> x, size |-> n, hold |-> e]
  /\ writes' = <<Write(e.addr, n, x, n, "whole")>>

\* The tail of db5_realloc(): a free block of the size, a larger one whose
\* surplus is given back first, or new storage at the end of the file.
Obtain(x, n, map) ==
  IF Fitting(map, n) # {}
  THEN LET m == BestFit(map, n)
           surplus == [addr |-> m.addr + n, size |-> m.size - n]
       IN /\ freep' = map \ {m}
          /\ eof' = eof
          /\ IF m.size = n
             THEN /\ dir' = [dir EXCEPT ![x] = m]
                  /\ WriteObject(x, n, m)
             ELSE /\ dir' = [dir EXCEPT ![x] = surplus]
                  /\ op' = [pc |-> "surplus", name |-> x, size |-> n, hold |-> m]
                  /\ writes' = FreeWrites(surplus)
  ELSE LET new == [addr |-> eof, size |-> n]
       IN /\ freep' = map
          /\ eof' = eof + n
          /\ dir' = [dir EXCEPT ![x] = new]
          /\ WriteObject(x, n, new)

\* db_put_external5() with the size the object has: it is written in place.
PutSame(x) ==
  /\ Ready /\ dir[x].size > 0
  /\ WriteObject(x, dir[x].size, dir[x])
  /\ UNCHANGED <<up, strays, dir, freep, eof, readOnly>>

\* A bug that writes the smaller object in place and only then frees the rest.
PutSmallerInPlace(x, n) ==
  /\ Ready /\ n < dir[x].size
  /\ LET front == [addr |-> dir[x].addr, size |-> n]
     IN /\ dir' = [dir EXCEPT ![x] = front]
        /\ freep' = MemFree(freep, dir[x].size - n, dir[x].addr + n)
        /\ WriteObject(x, n, front)
  /\ UNCHANGED <<up, strays, eof, readOnly>>

\* ... with a smaller size: the front half is erased first.
PutSmaller(x, n) ==
  /\ Ready /\ n < dir[x].size
  /\ dir' = [dir EXCEPT ![x].size = n]
  /\ op' = [pc |-> "front", name |-> x, size |-> n, hold |-> dir[x]]
  /\ writes' = FreeWrites(dir'[x])
  /\ UNCHANGED <<up, strays, freep, eof, readOnly>>

\* A bug that takes the sizes the wrong way round.
BackHalfSwapped == [addr |-> op.hold.addr + op.size, size |-> op.size - op.hold.size]

\* The back half of the object being made smaller.
BackHalf == [addr |-> op.hold.addr + op.size, size |-> op.hold.size - op.size]

\* ... then the back half
FrontErased ==
  /\ At("front")
  /\ dir' = [dir EXCEPT ![op.name] = BackHalf]
  /\ op' = [op EXCEPT !.pc = "back"]
  /\ writes' = FreeWrites(BackHalf)
  /\ UNCHANGED <<up, strays, freep, eof, readOnly>>

\* ... which goes to the map, and the object is written into the front half.
BackErased ==
  /\ At("back")
  /\ LET front == [addr |-> op.hold.addr, size |-> op.size]
     IN /\ freep' = MemFree(freep, BackHalf.size, BackHalf.addr)
        /\ dir' = [dir EXCEPT ![op.name] = front]
        /\ WriteObject(op.name, op.size, front)
  /\ UNCHANGED <<up, strays, eof, readOnly>>

\* ... with a larger size: the storage it has goes to the map, then is erased.
PutLarger(x, n) ==
  /\ Ready /\ 0 < dir[x].size /\ dir[x].size < n /\ eof + n <= MaxEof
  /\ freep' = MemFree(freep, dir[x].size, dir[x].addr)
  /\ op' = [pc |-> "release", name |-> x, size |-> n, hold |-> NoStorage]
  /\ writes' = FreeWrites(dir[x])
  /\ UNCHANGED <<up, strays, dir, eof, readOnly>>

Released ==
  /\ At("release")
  /\ Obtain(op.name, op.size, freep)
  /\ UNCHANGED <<up, strays, readOnly>>

\* ... of an object that has no storage yet.
PutNew(x, n) ==
  /\ Ready /\ dir[x] = NoStorage /\ eof + n <= MaxEof
  /\ Obtain(x, n, freep)
  /\ UNCHANGED <<up, strays, readOnly>>

\* The surplus is a free record: it goes to the map, and what is kept of the
\* block is erased.
SurplusErased ==
  /\ At("surplus")
  /\ LET surplus == dir[op.name]
         kept    == [addr |-> op.hold.addr, size |-> op.size]
     IN /\ freep' = MemFree(freep, surplus.size, surplus.addr)
        /\ dir' = [dir EXCEPT ![op.name] = kept]
        /\ op' = [op EXCEPT !.pc = "erase", !.hold = kept]
        /\ writes' = FreeWrites(kept)
  /\ UNCHANGED <<up, strays, eof, readOnly>>

Erased ==
  /\ At("erase")
  /\ WriteObject(op.name, op.size, op.hold)
  /\ UNCHANGED <<up, strays, dir, freep, eof, readOnly>>

\* The object is written: the call returns.
Stored ==
  /\ At("write")
  /\ op' = Idle
  /\ UNCHANGED <<up, strays, dir, freep, eof, readOnly, writes>>

\* db_delete(): the object is overwritten with a free record ...
Kill(x) ==
  /\ Ready /\ dir[x].size > 0
  /\ op' = [pc |-> "kill", name |-> x, size |-> 0, hold |-> dir[x]]
  /\ writes' = FreeWrites(dir[x])
  /\ UNCHANGED <<up, strays, dir, freep, eof, readOnly>>

\* A bug that leaves the address in the directory entry.
ReleaseKilledKeepsAddress ==
  /\ freep' = MemFree(freep, op.hold.size, op.hold.addr)
  /\ dir' = dir

\* ... and its storage goes to the map.
ReleaseKilled ==
  /\ freep' = MemFree(freep, op.hold.size, op.hold.addr)
  /\ dir' = [dir EXCEPT ![op.name] = NoStorage]

Killed ==
  /\ At("kill")
  /\ ReleaseKilled
  /\ op' = Idle
  /\ UNCHANGED <<up, strays, eof, readOnly, writes>>

\* db_write() succeeds
WriteDone ==
  /\ writes # <<>>
  /\ writes' = Tail(writes)
  /\ UNCHANGED <<up, strays, dir, freep, eof, readOnly, op>>

\* ... or comes out short: the database is read-only from then on, and the call
\* returns an error from where it is.  db_delete() still releases the storage.
WriteFails ==
  /\ writes # <<>>
  /\ readOnly' = TRUE
  /\ op' = Idle
  /\ writes' = <<>>
  /\ IF op.pc = "kill" THEN ReleaseKilled ELSE UNCHANGED <<dir, freep>>
  /\ UNCHANGED <<up, strays, eof>>

\* db_close(), or the process stops in the middle of a call.
Halt ==
  /\ up
  /\ Down(up', dir', strays', freep', eof', readOnly', op', writes')

\* db_open() and db_dirbuild(): the directory and the map come from a scan of
\* the file.  If that fails the database is read-only.
Reopen ==
  /\ ~up
  /\ up' = TRUE
  /\ dir' \in [Names -> Interval]
  /\ strays' \subseteq Interval
  /\ freep' \subseteq Interval
  /\ eof' \in Nat
  /\ readOnly' \in BOOLEAN
  /\ ~readOnly' => WellFormed(dir', strays', freep', eof')
  /\ UNCHANGED <<op, writes>>

\* The steps of a process that has the database open.
StorageStep ==
  \/ \E x \in Names : PutSame(x) \/ Kill(x)
  \/ \E x \in Names, n \in Sizes : PutSmaller(x, n) \/ PutLarger(x, n) \/ PutNew(x, n)
  \/ FrontErased \/ BackErased \/ Released \/ SurplusErased \/ Erased \/ Stored
  \/ Killed \/ WriteDone \/ WriteFails

StorageNext == StorageStep \/ Halt \/ Reopen

StorageSpec == StorageInit /\ [][StorageNext]_storageVars

------------------------------------------------------------------------------
\* The units of a write.
Covers(w) == [addr |-> w.addr, size |-> w.size]

\* No write of a call touches the storage of an object the call is not about,
\* whatever calls, failed writes and stops came before (db5_realloc(),
\* db_delete(): storage is never handed out twice).
WritesSpareOthers ==
  \A k \in DOMAIN writes :
    /\ \A x \in Names \ {op.name} : dir[x].size > 0 => Apart(Covers(writes[k]), dir[x])
    /\ \A i \in strays : Apart(Covers(writes[k]), i)
==============================================================================
