--------------------------- MODULE PixelDispenser ---------------------------
(* The ray-tracing threads of one run (do_run, rt/worker.c): each takes     *)
(* blocks of pixels off cur_pixel until there are none left, and stores     *)
(* what it computed line by line (view_pixel, rt/view.c).                   *)
EXTENDS Integers, FiniteSets

CONSTANTS
    Worker,         \* the threads of bu_parallel; npsw of them
    Runs            \* the runs that may be asked for, records of
                    \*   first, last         the pixels, a and b of do_run
                    \*   width, height       the image
                    \*   chunk               per_processor_chunk as it was left
                    \*   samples             hypersample + 1
                    \*   topDown             rt -t
                    \*   accumulate          full_incr_mode: runs are averaged

ASSUME RunsAssumption == \A r \in Runs :
    /\ r.first \in Nat /\ r.last \in Nat /\ r.first <= r.last
    /\ r.width \in Nat \ {0} /\ r.height \in Nat /\ r.samples \in Nat \ {0}
    /\ r.chunk \in Nat
    /\ r.topDown \in BOOLEAN /\ r.accumulate \in BOOLEAN

VARIABLES
    run,            \* the run that do_run was called for
    cur_pixel,      \* the next pixel to be taken
    chunk,          \* per_processor_chunk
    pc, size, start, pixel, to,  \* of each thread: where it is, and its locals
    seen,           \* sl_left as a thread without the lock has read it
    sl_left, sl_buf,             \* scanline[]: pixels to come, pixels stored
    file,           \* the lines written out, each with the pixels it has
    times           \* how often each pixel has been computed

First == run.first
Last == run.last
Width == run.width
TopDown == run.topDown

shared == <<cur_pixel, chunk>>
local == <<pc, size, start, pixel, to, seen>>
lines == <<sl_left, sl_buf, file>>
vars == <<run, shared, local, lines, times>>

Pixel == First .. Last
Line == 0 .. Last \div Width
LineOf(p) == p \div Width
npsw == Cardinality(Worker)

\* view_2init: one thread to a line, or any thread on any line.
Aligned == First % Width = 0
ByLine == ~run.accumulate /\ npsw <= run.height \div 4 /\ Aligned
\* BUFMODE_DYNAMIC counts sl_left down under RT_SEM_RESULTS; BUFMODE_SCANLINE
\* does not need to, and BUFMODE_ACC does it after giving up the semaphore.
\* Mutant: sl_left is never protected.
LockedNever == FALSE
Locked == ~run.accumulate /\ ~ByLine

\* worker: the number of pixels to take at a time when no one has said it. The
\* eighth of the rays left is an int, and a size_t when it is compared.
\* Mutant: all the rays left, not an eighth of them.
EighthAll(c) == (Last - c) * run.samples
Eighth(c) == IF c <= Last THEN ((Last - c) * run.samples) \div 8
             ELSE -(((c - Last) * run.samples) \div 8)
Tiles(c) == {k \in 1 .. 9 : Eighth(c) < 0 \/ Eighth(c) > npsw * 4^k}
ChunkSize(c) ==
    IF Tiles(c) = {} THEN 1
    ELSE 4^(CHOOSE k \in Tiles(c) : \A j \in Tiles(c) : j <= k)

\* Mutant: the chunk of the last run is kept.
InitialChunkKept == run.chunk
InitialChunk == IF ByLine THEN Width ELSE run.chunk
\* Mutant: one pixel less to a line.
LineLengthShort == Width - 1
LineLength == Width
NotWritten == {}

Init == /\ run \in Runs
        /\ cur_pixel = First
        /\ chunk = InitialChunk
        /\ pc = [w \in Worker |-> "look"]
        /\ size = [w \in Worker |-> 0]
        /\ start = [w \in Worker |-> 0]
        /\ pixel = [w \in Worker |-> 0]
        /\ to = [w \in Worker |-> 0]
        /\ seen = [w \in Worker |-> 0]
        /\ sl_left = [y \in Line |-> LineLength]
        /\ sl_buf = [y \in Line |-> {}]
        /\ file = [y \in Line |-> NotWritten]
        /\ times = [p \in 0 .. Last |-> 0]
-----------------------------------------------------------------------------
Goto(w, label) == pc' = [pc EXCEPT ![w] = label]

\* if (per_processor_chunk <= 0), outside the critical section.
Look(w) == /\ pc[w] = "look"
           /\ Goto(w, IF chunk <= 0 THEN "size" ELSE "take")
           /\ UNCHANGED <<shared, size, start, pixel, to, seen, lines, times>>

\* Computed from what cur_pixel is by then.
Size(w) == /\ pc[w] = "size"
           /\ size' = [size EXCEPT ![w] = ChunkSize(cur_pixel)]
           /\ Goto(w, "set")
           /\ UNCHANGED <<shared, start, pixel, to, seen, lines, times>>

\* Stored under RT_SEM_WORKER, whoever else has stored one by now.
SetChunk(w) == /\ pc[w] = "set"
               /\ chunk' = size[w]
               /\ Goto(w, "take")
               /\ UNCHANGED <<cur_pixel, size, start, pixel, to, seen, lines, times>>

\* Mutant: blocks overlap by a pixel.
TakeOverlapping(w) == /\ pc[w] = "take"
                      /\ start' = [start EXCEPT ![w] = cur_pixel]
                      /\ cur_pixel' = cur_pixel + chunk - 1
                      /\ Goto(w, "bounds")
                      /\ UNCHANGED <<chunk, size, pixel, to, seen, lines, times>>
\* The critical section that removes a block from the queue.
Take(w) == /\ pc[w] = "take"
           /\ start' = [start EXCEPT ![w] = cur_pixel]
           /\ cur_pixel' = cur_pixel + chunk
           /\ Goto(w, "bounds")
           /\ UNCHANGED <<chunk, size, pixel, to, seen, lines, times>>

\* from and to: after the critical section, from per_processor_chunk again.
From(w) == IF TopDown THEN Last - start[w] ELSE start[w]
To(w) == IF TopDown THEN From(w) - chunk ELSE From(w) + chunk
Bounds(w) == /\ pc[w] = "bounds"
             /\ pixel' = [pixel EXCEPT ![w] = From(w)]
             /\ to' = [to EXCEPT ![w] = To(w)]
             /\ Goto(w, "loop")
             /\ UNCHANGED <<shared, size, start, seen, lines, times>>

Outside(p) == p > Last \/ p < 0
Following(w) == IF TopDown THEN pixel[w] - 1 ELSE pixel[w] + 1
Forward(w) == pixel' = [pixel EXCEPT ![w] = Following(w)]

BlockDone(w) == /\ pc[w] = "loop" /\ pixel[w] = to[w]
                /\ Goto(w, "take")
                /\ UNCHANGED <<shared, size, start, pixel, to, seen, lines, times>>

\* Mutant: a thread polls until the others have returned.
NoMorePolls(w) == /\ pc[w] = "loop" /\ pixel[w] # to[w] /\ Outside(pixel[w])
                  /\ IF \A v \in Worker \ {w} : pc[v] = "done"
                     THEN Goto(w, "done") ELSE UNCHANGED pc
                  /\ UNCHANGED <<shared, size, start, pixel, to, seen, lines, times>>
NoMore(w) == /\ pc[w] = "loop" /\ pixel[w] # to[w] /\ Outside(pixel[w])
             /\ Goto(w, "done")
             /\ UNCHANGED <<shared, size, start, pixel, to, seen, lines, times>>

\* do_pixel and view_pixel: the pixel is computed and put into its line.
DoPixel(w) ==
    LET p == pixel[w]
        y == LineOf(p)
    IN /\ pc[w] = "loop" /\ p # to[w] /\ ~Outside(p)
       /\ times' = [times EXCEPT ![p] = @ + 1]
       /\ sl_buf' = [sl_buf EXCEPT ![y] = @ \union {p}]
       /\ IF Locked
          THEN /\ sl_left' = [sl_left EXCEPT ![y] = @ - 1]
               /\ Goto(w, IF sl_left'[y] <= 0 THEN "eol" ELSE "loop")
               /\ IF sl_left'[y] <= 0 THEN UNCHANGED pixel ELSE Forward(w)
          ELSE /\ Goto(w, "count")
               /\ UNCHANGED <<sl_left, pixel>>
       /\ UNCHANGED <<shared, size, start, to, seen, file>>

\* --(slp->sl_left) of one thread is two steps for the others.
Count(w) == /\ pc[w] = "count"
            /\ seen' = [seen EXCEPT ![w] = sl_left[LineOf(pixel[w])]]
            /\ Goto(w, "store")
            /\ UNCHANGED <<shared, size, start, pixel, to, lines, times>>
Store(w) == /\ pc[w] = "store"
            /\ sl_left' = [sl_left EXCEPT ![LineOf(pixel[w])] = seen[w] - 1]
            /\ Goto(w, IF seen[w] <= 1 THEN "eol" ELSE "loop")
            /\ IF seen[w] <= 1 THEN UNCHANGED pixel ELSE Forward(w)
            /\ UNCHANGED <<shared, size, start, to, seen, sl_buf, file, times>>

\* do_eol: the line is written out and its buffer freed.
WriteLine(w) ==
    LET y == LineOf(pixel[w])
    IN /\ pc[w] = "eol"
       /\ file' = [file EXCEPT ![y] = sl_buf[y]]
       /\ sl_buf' = [sl_buf EXCEPT ![y] = {}]
       /\ Forward(w)
       /\ Goto(w, "loop")
       /\ UNCHANGED <<shared, size, start, to, seen, sl_left, times>>

Step(w) == \/ Look(w) \/ Size(w) \/ SetChunk(w)
           \/ Take(w) \/ Bounds(w) \/ BlockDone(w) \/ NoMore(w)
           \/ DoPixel(w) \/ Count(w) \/ Store(w) \/ WriteLine(w)

\* All threads have returned from worker(), and do_run returns.
AllReturned == \A w \in Worker : pc[w] = "done"
Returned == AllReturned /\ UNCHANGED vars

Next == (UNCHANGED run /\ \E w \in Worker : Step(w)) \/ Returned
Spec == Init /\ [][Next]_vars
\* The threads are the operating system's, which runs each of them.
FairSpec == Spec /\ \A w \in Worker : WF_vars(UNCHANGED run /\ Step(w))
-----------------------------------------------------------------------------
LineOfPixels(y) == {p \in 0 .. Last : LineOf(p) = y}
WholeLines == {y \in Line : LineOfPixels(y) \subseteq Pixel
                            /\ Cardinality(LineOfPixels(y)) = Width}
\* A thread is at work on a pixel.
AtPixel(w) == \/ pc[w] \in {"count", "store", "eol"}
              \/ pc[w] = "loop" /\ pixel[w] # to[w] /\ ~Outside(pixel[w])

\* Every variable has its type; no line is counted below zero.
TypeOK == /\ run \in Runs
          /\ cur_pixel \in Nat /\ chunk \in Nat
          /\ pc \in [Worker -> {"look", "size", "set", "take", "bounds", "loop",
                               "count", "store", "eol", "done"}]
          /\ size \in [Worker -> Nat] /\ start \in [Worker -> Nat]
          /\ pixel \in [Worker -> Int] /\ to \in [Worker -> Int]
          /\ seen \in [Worker -> 0 .. Width]
          /\ sl_left \in [Line -> 0 .. Width]
          /\ sl_buf \in [Line -> SUBSET (0 .. Last)]
          /\ file \in [Line -> SUBSET (0 .. Last)]
          /\ times \in [0 .. Last -> Nat]

\* No pixel is computed twice: in BUFMODE_DYNAMIC a pixel that comes again puts
\* its line, already written and freed, into the image with that pixel alone.
EachOnce == \A p \in 0 .. Last : times[p] <= 1

\* When do_run returns every pixel of the run has been computed, and no other.
RunComputed == AllReturned =>
    \A p \in 0 .. Last : times[p] = IF p \in Pixel THEN 1 ELSE 0

\* A line is written once it has all its pixels, never before.
LinesWhole == \A y \in WholeLines : file[y] \in {NotWritten, LineOfPixels(y)}

\* When do_run returns every line it has filled is in the image.
LinesWritten == AllReturned => \A y \in WholeLines : file[y] = LineOfPixels(y)

\* What BUFMODE_SCANLINE relies on: no two threads are on one line.
OneCpuPerLine == ByLine => \A v, w \in Worker :
    v # w /\ AtPixel(v) /\ AtPixel(w) => LineOf(pixel[v]) # LineOf(pixel[w])

\* Every thread finds the end of the run, however the blocks fall.
AllReturn == <>AllReturned
=============================================================================
