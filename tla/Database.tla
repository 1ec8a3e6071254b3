------------------------------ MODULE Database ------------------------------
(***************************************************************************)
(* A geometry database file under the calls of Storage: what each          *)
(* db_write() leaves in the file (db_io.c), what a free record and an      *)
(* object look like on disk (db5_io.c), and the scan that builds the       *)
(* directory and the map of free storage when the file is opened           *)
(* (db5_scan.c, db_open.c).  A write that fails, or is cut off by the end  *)
(* of the process, may have put any prefix of its units into the file.     *)
(***************************************************************************)
EXTENDS Storage, FiniteSetsExt

CONSTANT InitialFiles   \* files the process may find

\* A unit: whose record it is part of; for the first of a record its length in
\* units (NoHeader otherwise); and whether its last byte is DB5HDR_MAGIC2.
NoHeader == -1
Unit(of, len, last) == [of |-> of, len |-> len, last |-> last]
FileUnit == [of : Names \cup {Free}, len : Nat \cup {NoHeader}, last : BOOLEAN]

ASSUME FilesAssumption == InitialFiles \subseteq Seq(FileUnit)

VARIABLES
  file,   \* the units of the file from unit 1 on
  kept,   \* the storage of the objects that no call in progress is about
  cut     \* where the call that last failed or was stopped was cutting a block

vars == <<storageVars, file, kept, cut>>

\* db5_make_free_object() and the export of an object: header, body, trailer.
Record(of, n) ==
  [i \in 1 .. n |-> Unit(of, IF i = 1 THEN n ELSE NoHeader, i = n)]

\* What db_write() w puts into file f: for a large free record the first two
\* units, then the last byte alone.
Image(f, w) ==
  CASE w.part = "whole"   -> Record(w.of, w.len)
    [] w.part = "header"  -> SubSeq(Record(w.of, w.len), 1, 2)
    [] w.part = "trailer" -> <<[f[w.addr] EXCEPT !.last = TRUE]>>

\* The file after the first k units of db_write() w.
Written(f, w, k) ==
  LET end == w.addr + k - 1
  IN [i \in 1 .. (IF k > 0 /\ end > Len(f) THEN end ELSE Len(f)) |->
        IF i \in w.addr .. end THEN Image(f, w)[i - w.addr + 1] ELSE f[i]]

------------------------------------------------------------------------------
(***************************************************************************)
(* db5_scan(): records are read one after the other.                       *)
(***************************************************************************)
\* db5_get_raw_internal_fp() on the record at a: the end of the file, an error
\* (no header, the file too short, no trailing magic number), or a record.  A
\* header with an impossible length is reported as the end of the file.
Get(f, a) ==
  CASE a > Len(f) -> "eof"
    [] a <= Len(f) /\ f[a].len = 0 -> "short"
    [] a <= Len(f) /\ f[a].len # 0 ->
         IF f[a].len > 0 /\ a + f[a].len - 1 <= Len(f) /\ f[a + f[a].len - 1].last
         THEN "record" ELSE "error"

\* Where the scan gets to from each unit: the addresses of the records it reads,
\* the place it stops at, and the map of the free records, which rt_memfree()
\* adds one by one (in any order: they do not overlap).
Walk(f) ==
  LET walk[a \in 1 .. Len(f) + 1] ==
        IF Get(f, a) = "record"
        THEN LET rest == walk[a + f[a].len]
             IN [at   |-> {a} \cup rest.at,
                 stop |-> rest.stop,
                 free |-> IF f[a].of = Free THEN MemFree(rest.free, f[a].len, a) ELSE rest.free]
        ELSE [at |-> {}, stop |-> a, free |-> {}]
  IN walk

Scan(f) == Walk(f)[1]

RecordAt(f, a) == [addr |-> a, size |-> f[a].len]

\* db5_diradd_handler(): a name goes to the directory (a second record of the
\* name as A_name: db_dircheck()) ...
Directory(f) ==
  [x \in Names |->
     LET at == {a \in Scan(f).at : f[a].of = x}
     IN IF at = {} THEN NoStorage ELSE RecordAt(f, Min(at))]

Strays(f) ==
  {RecordAt(f, a) : a \in {b \in Scan(f).at :
     f[b].of # Free /\ Directory(f)[f[b].of].addr # b}}

\* ... and a free record to the map.
FreeRecords(f) == {RecordAt(f, a) : a \in {b \in Scan(f).at : f[b].of = Free}}

\* A bug that keeps the records as the scan finds them.
FreeStorageUnmerged(f) == FreeRecords(f)

FreeStorage(f) == Scan(f).free

\* A bug that takes the last unit read for the end.
EofLastUnit(f) == Scan(f).stop - 1

\* dbi_eof: where the file is after the scan.  A header that is too short has
\* been read by then.
EofFound(f) == LET a == Scan(f).stop IN IF Get(f, a) = "short" THEN a + 1 ELSE a

ScanFails(f) == Get(f, Scan(f).stop) = "error"

\* The record of an object is in the file, whole: a write cut off in the middle
\* of an object leaves a record the scan takes, with old units in it.
InFile(f, x, e) ==
  \A i \in Units(e) : i <= Len(f) /\ f[i] = Record(x, e.size)[i - e.addr + 1]

------------------------------------------------------------------------------
\* The call in progress is cutting a block in two: between its two free
\* records the second half, or the first, has no record.
Cutting == op.pc \in {"front", "back", "surplus", "erase"}

\* The file may be unreadable from here on; past its end if no block is cut.
Nowhere == MaxEof + 1
CutAt == IF Cutting THEN op.hold.addr ELSE cut

Init ==
  /\ StorageInit
  /\ file \in InitialFiles
  /\ kept = [x \in Names |-> NoStorage]
  /\ cut = Nowhere

\* A call begins, or goes on between two writes.
Begin ==
  /\ \/ \E x \in Names : PutSame(x) \/ Kill(x)
     \/ \E x \in Names, n \in Sizes : PutSmaller(x, n) \/ PutLarger(x, n) \/ PutNew(x, n)
  /\ kept' = [kept EXCEPT ![op'.name] = NoStorage]
  /\ UNCHANGED <<file, cut>>

GoOn ==
  /\ FrontErased \/ BackErased \/ Released \/ SurplusErased \/ Erased
  /\ UNCHANGED <<file, kept, cut>>

Finish ==
  /\ Stored \/ Killed
  /\ kept' = [kept EXCEPT ![op.name] = dir'[op.name]]
  /\ UNCHANGED <<file, cut>>

DbWrite ==
  /\ WriteDone
  /\ file' = Written(file, Head(writes), Head(writes).size)
  /\ UNCHANGED <<kept, cut>>

DbWriteFails ==
  /\ WriteFails
  /\ \E k \in 0 .. Head(writes).size - 1 : file' = Written(file, Head(writes), k)
  /\ cut' = CutAt
  /\ UNCHANGED kept

\* db_close() between calls; the end of the process at any time, in the middle
\* of a write too.
Stop ==
  /\ Halt
  /\ IF writes = <<>>
     THEN file' = file
     ELSE \E k \in 0 .. Head(writes).size : file' = Written(file, Head(writes), k)
  /\ cut' = CutAt
  /\ UNCHANGED kept

\* db_open() and db_dirbuild().  If the scan fails dbi_eof stays unset and the
\* database is read-only.
Open ==
  /\ ~up
  /\ up' = TRUE
  /\ dir' = Directory(file)
  /\ strays' = Strays(file)
  /\ freep' = FreeStorage(file)
  /\ readOnly' = ScanFails(file)
  /\ eof' = IF ScanFails(file) THEN 0 ELSE EofFound(file)
  /\ kept' = [x \in Names |-> IF InFile(file, x, dir'[x]) THEN dir'[x] ELSE NoStorage]
  /\ cut' = Nowhere
  /\ UNCHANGED <<op, writes, file>>

Next == Begin \/ GoOn \/ Finish \/ DbWrite \/ DbWriteFails \/ Stop \/ Open

Spec == Init /\ [][Next]_vars

------------------------------------------------------------------------------
TypeOK ==
  /\ StorageTypeOK
  /\ file \in Seq(FileUnit)
  /\ kept \in [Names -> Interval]
  /\ cut \in Nat

\* Between calls no unit is lost and none is held twice: the directory and the
\* map of free storage together are exactly the file (db5_realloc(),
\* db_delete(), rt_memfree()).
StorageAccounted ==
  up /\ ~readOnly /\ op = Idle =>
    /\ WellFormed(dir, strays, freep, eof)
    /\ (UNION {Units(dir[x]) : x \in Names}) \cup UnitsOf(strays) \cup UnitsOf(freep)
         = 1 .. Len(file)
    /\ eof = Len(file) + 1

\* The storage a directory and its second records give.
InUse(d, s) == {d[x] : x \in {y \in Names : d[y].size > 0}} \cup s

\* Between calls another process that opened the file would find the same
\* objects, the same free storage and the same end (db5_scan() against what the
\* calls keep in memory): nothing is only in memory.  Only the temporary name
\* of a second record is: it is found under its own name once the first is gone.
FileTellsAll ==
  up /\ ~readOnly /\ op = Idle =>
    /\ ~ScanFails(file)
    /\ InUse(Directory(file), Strays(file)) = InUse(dir, strays)
    /\ strays = {} => Directory(file) = dir
    /\ FreeStorage(file) = freep
    /\ EofFound(file) = eof

\* An object that no call is about stays in the file, whole, through every
\* write, failed write, stop and restart.
OthersStayWhole == \A x \in Names : kept[x].size > 0 => InFile(file, x, kept[x])

\* Wherever the process stops or a write fails, the scan that follows reaches
\* every object that no call was about, except when a block was being cut in
\* two: then it reaches those before the block (the order of the writes in
\* db5_realloc()).
OthersStayReachable ==
  \A x \in Names : kept[x].size > 0 /\ kept[x].addr < CutAt => kept[x].addr \in Scan(file).at

\* Once a write has failed the file is left alone until it is opened again
\* (db_write(): "File forced read-only").
FailedFileLeftAlone == [][up /\ readOnly => file' = file]_vars

------------------------------------------------------------------------------
(***************************************************************************)
(* What the documentation says and the code does not do.                   *)
(***************************************************************************)
\* db_delete() arranges for "positively erasing what had been there before"
\* (db_alloc.c): when it returns, no unit of the object is left in the file.
PositivelyErased ==
  [][Killed => \A i \in Units(op.hold) : file[i].of = Free]_vars

\* When db5_realloc() extends the file it writes "a free object in the new
\* space" (db_io.h): the storage it returns is in the file already.
NewSpaceIsFreeObject ==
  op.pc = "write" /\ writes # <<>> => End(op.hold) <= Len(file) + 1

\* db5_get_raw_internal_fp() returns "-1 on EOF, -2 on error" (db_io.h), and on
\* an error the database becomes read-only: if it is not, all of it was read.
ErrorIsNotEof == up /\ ~readOnly /\ op = Idle => Scan(file).stop > Len(file)
==============================================================================
