----------------------------- MODULE PixelProofs -----------------------------
(* With the chunk size known before the threads start, any number of them   *)
(* computes every pixel of the run, and each once; and every line is        *)
(* written once, when it is whole, with the semaphore and without.          *)
EXTENDS PixelDispenser, TLAPS, FiniteSetTheorems

(* What the theorems assume of the run: per_processor_chunk is set (by      *)
(* view_2init, or by an earlier run), there is a thread, and a run from the *)
(* top down begins at pixel 0. Without the first or the last of these the   *)
(* statements are false (runs chunk_race and single_pixel).                 *)
ChunkKnown == /\ InitialChunk \in Nat \ {0}
              /\ Worker # {}
              /\ TopDown => First = 0

RunTyped == /\ First \in Nat /\ Last \in Nat /\ First <= Last
            /\ TopDown \in BOOLEAN
SameRun == /\ First' = First /\ Last' = Last /\ InitialChunk' = InitialChunk
           /\ TopDown' <=> TopDown

(* A position in the order in which pixels are taken.                       *)
Position(p) == IF TopDown THEN Last - p ELSE p

(* The block a thread has taken and not computed: positions Low .. High - 1. *)
Holding(w) == pc[w] \in {"bounds", "loop", "count", "store", "eol"}
Low(w) == IF pc[w] = "bounds" THEN start[w]
          ELSE IF pc[w] = "loop" THEN Position(pixel[w])
          ELSE Position(pixel[w]) + 1
High(w) == IF pc[w] = "bounds" THEN start[w] + chunk ELSE Position(to[w])
InBlock(w, p) == Holding(w) /\ Low(w) <= Position(p) /\ Position(p) < High(w)

Typed == /\ cur_pixel \in Nat /\ cur_pixel >= First
         /\ chunk = InitialChunk
         /\ pc \in [Worker -> {"look", "take", "bounds", "loop",
                               "count", "store", "eol", "done"}]
         /\ start \in [Worker -> Nat]
         /\ pixel \in [Worker -> Int] /\ to \in [Worker -> Int]
         /\ times \in [0 .. Last -> Nat]
BlocksTaken == \A w \in Worker : Holding(w) =>
    First <= Low(w) /\ Low(w) <= High(w) /\ High(w) <= cur_pixel
BlocksApart == \A v, w \in Worker : v # w /\ Holding(v) /\ Holding(w) =>
    High(v) <= Low(w) \/ High(w) <= Low(v)
ComputedOnce == \A p \in 0 .. Last :
    times[p] = IF /\ First <= Position(p) /\ Position(p) < cur_pixel
                  /\ \A w \in Worker : ~InBlock(w, p)
               THEN 1 ELSE 0
ReturnedLast == \A w \in Worker : pc[w] = "done" => cur_pixel > Last

BlockInv == Typed /\ BlocksTaken /\ BlocksApart /\ ComputedOnce /\ ReturnedLast

(* A thread moves without taking, computing or giving up a pixel.           *)
LEMMA QuietStep ==
    ASSUME RunTyped, ChunkKnown, SameRun, BlockInv, Typed',
           cur_pixel' = cur_pixel, times' = times,
           \A w \in Worker : Holding(w)' <=> Holding(w),
           \A w \in Worker : Holding(w) => Low(w)' = Low(w) /\ High(w)' = High(w),
           \A w \in Worker : (pc[w] = "done")' <=> (pc[w] = "done")
    PROVE  BlockInv'
  <1> USE DEF SameRun
  <1>1. BlocksTaken'
    BY DEF BlockInv, BlocksTaken
  <1>2. BlocksApart'
    BY DEF BlockInv, BlocksApart
  <1>3. \A w \in Worker, p \in 0 .. Last : InBlock(w, p)' <=> InBlock(w, p)
    BY DEF InBlock, Position
  <1>4. ComputedOnce'
    BY <1>3 DEF BlockInv, ComputedOnce, Position
  <1>5. ReturnedLast'
    BY DEF BlockInv, ReturnedLast
  <1> QED BY <1>1, <1>2, <1>4, <1>5 DEF BlockInv

LEMMA InitBlocks == ASSUME RunTyped, ChunkKnown, Init PROVE BlockInv
  <1>1. Typed
    BY DEF RunTyped, ChunkKnown, Init, Typed
  <1>2. \A w \in Worker : ~Holding(w) /\ pc[w] # "done"
    BY DEF Init, Holding
  <1>3. ComputedOnce
    <2> SUFFICES ASSUME NEW p \in 0 .. Last PROVE times[p] = 0 /\ ~(First <= Position(p) /\ Position(p) < cur_pixel)
      BY DEF ComputedOnce
    <2> QED BY DEF Init, Position, RunTyped
  <1> QED BY <1>1, <1>2, <1>3 DEF BlockInv, BlocksTaken, BlocksApart, ReturnedLast

LEMMA LookBlocks == ASSUME RunTyped, ChunkKnown, SameRun, BlockInv, NEW w \in Worker, Look(w)
                    PROVE  BlockInv'
  <1> USE DEF SameRun
  <1>1. ~(chunk <= 0)
    BY DEF BlockInv, Typed, ChunkKnown
  <1>2. pc' = [pc EXCEPT ![w] = "take"] /\ pc[w] = "look"
    BY <1>1 DEF Look, Goto
  <1>3. Typed'
    BY <1>2 DEF Look, shared, BlockInv, Typed
  <1> QED BY <1>2, <1>3, QuietStep DEF Look, shared, BlockInv, Typed, Holding, Low, High, Position

LEMMA TakeBlocks == ASSUME RunTyped, ChunkKnown, SameRun, BlockInv, NEW w \in Worker, Take(w)
                    PROVE  BlockInv'
  <1> USE DEF SameRun, ChunkKnown
  <1>1. Typed'
    BY DEF Take, Goto, BlockInv, Typed, RunTyped
  <1>2. Holding(w)' /\ Low(w)' = cur_pixel /\ High(w)' = cur_pixel + chunk /\ ~Holding(w)
    BY DEF Take, Goto, BlockInv, Typed, Holding, Low, High
  <1>3. \A v \in Worker \ {w} : /\ Holding(v)' <=> Holding(v)
                                /\ Low(v)' = Low(v) /\ High(v)' = High(v)
                                /\ (pc[v] = "done")' <=> (pc[v] = "done")
    BY DEF Take, Goto, BlockInv, Typed, Holding, Low, High, Position
  <1>4. /\ cur_pixel' = cur_pixel + chunk /\ times' = times
        /\ cur_pixel \in Nat /\ chunk \in Nat \ {0} /\ First <= cur_pixel
        /\ pc'[w] # "done"
    BY DEF Take, Goto, BlockInv, Typed
  <1>5. \A v \in Worker : Holding(v) => Low(v) \in Int /\ High(v) \in Int
    BY DEF BlockInv, Typed, Holding, Low, High, Position, RunTyped
  <1>6. BlocksTaken'
    BY <1>2, <1>3, <1>4, <1>5 DEF BlockInv, BlocksTaken, RunTyped
  <1>7. BlocksApart'
    BY <1>2, <1>3, <1>4, <1>5 DEF BlockInv, BlocksTaken, BlocksApart
  <1>8. ComputedOnce'
    <2> SUFFICES ASSUME NEW p \in 0 .. Last
                 PROVE  (/\ First <= Position(p) /\ Position(p) < cur_pixel'
                         /\ \A v \in Worker : ~InBlock(v, p)')
                        <=> (/\ First <= Position(p) /\ Position(p) < cur_pixel
                             /\ \A v \in Worker : ~InBlock(v, p))
      BY <1>4 DEF BlockInv, ComputedOnce, Position
    <2>1. Position(p) \in Int
      BY DEF Position, RunTyped
    <2>2. \A v \in Worker \ {w} : InBlock(v, p)' <=> InBlock(v, p)
      BY <1>3 DEF InBlock, Position
    <2>3. ~InBlock(w, p) /\ (InBlock(w, p)' <=> cur_pixel <= Position(p) /\ Position(p) < cur_pixel + chunk)
      BY <1>2 DEF InBlock, Position
    <2> QED BY <1>4, <2>1, <2>2, <2>3
  <1>9. ReturnedLast'
    BY <1>3, <1>4 DEF BlockInv, ReturnedLast, RunTyped
  <1> QED BY <1>1, <1>6, <1>7, <1>8, <1>9 DEF BlockInv

LEMMA BoundsBlocks == ASSUME RunTyped, ChunkKnown, SameRun, BlockInv, NEW w \in Worker, Bounds(w)
                      PROVE  BlockInv'
  <1> USE DEF SameRun, ChunkKnown
  <1>1. Typed'
    BY DEF Bounds, From, To, Goto, shared, BlockInv, Typed, RunTyped
  <1>2. /\ Holding(w) /\ Holding(w)' /\ pc[w] # "done" /\ pc'[w] # "done"
        /\ Low(w)' = Low(w) /\ High(w)' = High(w)
    BY DEF Bounds, From, To, Goto, shared, BlockInv, Typed, RunTyped, Holding, Low, High, Position
  <1>3. \A v \in Worker \ {w} : /\ Holding(v)' <=> Holding(v)
                                /\ Low(v)' = Low(v) /\ High(v)' = High(v)
                                /\ (pc[v] = "done")' <=> (pc[v] = "done")
    BY DEF Bounds, Goto, shared, BlockInv, Typed, Holding, Low, High, Position
  <1>4. \A v \in Worker : /\ Holding(v)' <=> Holding(v)
                          /\ Low(v)' = Low(v) /\ High(v)' = High(v)
                          /\ (pc[v] = "done")' <=> (pc[v] = "done")
    BY <1>2, <1>3
  <1>5. cur_pixel' = cur_pixel /\ times' = times
    BY DEF Bounds, shared
  <1> QED BY <1>1, <1>4, <1>5, QuietStep

(* Count, Store and WriteLine concern the line of a pixel computed already. *)
LEMMA LineBlocks == ASSUME RunTyped, ChunkKnown, SameRun, BlockInv, NEW w \in Worker,
                           Count(w) \/ Store(w) \/ WriteLine(w)
                    PROVE  BlockInv'
  <1> USE DEF SameRun, ChunkKnown
  <1>1. /\ pc[w] \in {"count", "store", "eol"}
        /\ UNCHANGED <<shared, start, to, times>>
        /\ \/ pc' = [pc EXCEPT ![w] = "store"] /\ pixel' = pixel
           \/ pc' = [pc EXCEPT ![w] = "eol"] /\ pixel' = pixel
           \/ pc' = [pc EXCEPT ![w] = "loop"] /\ Forward(w)
    BY DEF Count, Store, WriteLine, Goto, lines
  <1>11. pixel' \in [Worker -> Int]
    BY <1>1 DEF Forward, Following, BlockInv, Typed
  <1>2. Typed'
    BY <1>1, <1>11 DEF shared, BlockInv, Typed
  <1>3. /\ Holding(w) /\ Holding(w)' /\ pc[w] # "done" /\ pc'[w] # "done"
        /\ Low(w)' = Low(w) /\ High(w)' = High(w)
    BY <1>1 DEF Forward, Following, shared, BlockInv, Typed, RunTyped, Holding, Low, High, Position
  <1>4. \A v \in Worker \ {w} : /\ Holding(v)' <=> Holding(v)
                                /\ Low(v)' = Low(v) /\ High(v)' = High(v)
                                /\ (pc[v] = "done")' <=> (pc[v] = "done")
    BY <1>1 DEF Forward, shared, BlockInv, Typed, Holding, Low, High, Position
  <1>5. \A v \in Worker : /\ Holding(v)' <=> Holding(v)
                          /\ Low(v)' = Low(v) /\ High(v)' = High(v)
                          /\ (pc[v] = "done")' <=> (pc[v] = "done")
    BY <1>3, <1>4
  <1>6. cur_pixel' = cur_pixel /\ times' = times
    BY <1>1 DEF shared
  <1> QED BY <1>2, <1>5, <1>6, QuietStep

(* A thread that gives up a block gives up no pixel of the run.             *)
LEMMA LeaveBlocks == ASSUME RunTyped, ChunkKnown, SameRun, BlockInv, NEW w \in Worker,
                            BlockDone(w) \/ NoMore(w)
                     PROVE  BlockInv'
  <1> USE DEF SameRun, ChunkKnown
  <1>1. Typed'
    BY DEF BlockDone, NoMore, Goto, shared, BlockInv, Typed
  <1>2. Holding(w) /\ ~Holding(w)'
    BY DEF BlockDone, NoMore, Goto, BlockInv, Typed, Holding
  <1>3. \A v \in Worker \ {w} : /\ Holding(v)' <=> Holding(v)
                                /\ Low(v)' = Low(v) /\ High(v)' = High(v)
                                /\ (pc[v] = "done")' <=> (pc[v] = "done")
    BY DEF BlockDone, NoMore, Goto, shared, BlockInv, Typed, Holding, Low, High, Position
  <1>4. cur_pixel' = cur_pixel /\ times' = times
    BY DEF BlockDone, NoMore, shared
  <1>5. \A p \in 0 .. Last : ~InBlock(w, p)
    BY DEF BlockDone, NoMore, Outside, InBlock, Low, High, Position, RunTyped, BlockInv, Typed, BlocksTaken, Holding
  <1>6. BlocksTaken'
    BY <1>2, <1>3, <1>4 DEF BlockInv, BlocksTaken
  <1>7. BlocksApart'
    BY <1>2, <1>3 DEF BlockInv, BlocksApart
  <1>8. \A v \in Worker, p \in 0 .. Last : InBlock(v, p)' <=> InBlock(v, p)
    BY <1>2, <1>3, <1>5 DEF InBlock, Position
  <1>9. ComputedOnce'
    BY <1>4, <1>8 DEF BlockInv, ComputedOnce, Position
  <1>10. ReturnedLast'
    <2>1. CASE BlockDone(w)
      BY <2>1, <1>3, <1>4 DEF BlockDone, Goto, BlockInv, Typed, ReturnedLast
    <2>2. CASE NoMore(w)
      <3>1. cur_pixel > Last
        BY <2>2 DEF NoMore, Outside, Low, High, Position, RunTyped, BlockInv, Typed, BlocksTaken, Holding
      <3> QED BY <3>1, <1>4 DEF ReturnedLast
    <2> QED BY <2>1, <2>2
  <1> QED BY <1>1, <1>6, <1>7, <1>9, <1>10 DEF BlockInv

LEMMA DoPixelBlocks == ASSUME RunTyped, ChunkKnown, SameRun, BlockInv, NEW w \in Worker, DoPixel(w)
                       PROVE  BlockInv'
  <1> USE DEF SameRun, ChunkKnown
  <1>1. /\ pc[w] = "loop" /\ pixel[w] # to[w] /\ pixel[w] \in 0 .. Last
        /\ UNCHANGED <<shared, start, to>>
        /\ times' = [times EXCEPT ![pixel[w]] = @ + 1]
        /\ \/ pc' = [pc EXCEPT ![w] = "count"] /\ pixel' = pixel
           \/ pc' = [pc EXCEPT ![w] = "eol"] /\ pixel' = pixel
           \/ pc' = [pc EXCEPT ![w] = "loop"] /\ Forward(w)
    BY DEF DoPixel, Goto, Outside, BlockInv, Typed, RunTyped
  <1>11. pc' \in [Worker -> {"look", "take", "bounds", "loop",
                             "count", "store", "eol", "done"}]
    BY <1>1 DEF BlockInv, Typed
  <1>12. pixel' \in [Worker -> Int]
    BY <1>1 DEF Forward, Following, BlockInv, Typed
  <1>13. /\ times' \in [0 .. Last -> Nat]
         /\ times'[pixel[w]] = times[pixel[w]] + 1
         /\ \A p \in 0 .. Last : p # pixel[w] => times'[p] = times[p]
    <2>1. times \in [0 .. Last -> Nat] /\ pixel[w] \in 0 .. Last
      BY <1>1 DEF BlockInv, Typed
    <2>2. times' = [times EXCEPT ![pixel[w]] = times[pixel[w]] + 1]
      BY <1>1
    <2> QED BY <2>1, <2>2
  <1>2. Typed'
    BY <1>1, <1>11, <1>12, <1>13 DEF shared, BlockInv, Typed
  <1>3. /\ Holding(w) /\ Holding(w)' /\ pc[w] # "done" /\ pc'[w] # "done"
        /\ Low(w) = Position(pixel[w]) /\ Low(w)' = Low(w) + 1 /\ High(w)' = High(w)
        /\ Low(w) \in Int /\ High(w) \in Int /\ Low(w) < High(w)
    <2>1. /\ Holding(w) /\ Holding(w)' /\ pc[w] # "done" /\ pc'[w] # "done"
          /\ Low(w) = Position(pixel[w]) /\ High(w) = Position(to[w])
      BY <1>1 DEF BlockInv, Typed, Holding, Low, High
    <2>2. Low(w) \in Int /\ High(w) \in Int /\ Low(w) # High(w)
      BY <1>1, <2>1 DEF BlockInv, Typed, RunTyped, Position
    <2>3. High(w)' = High(w)
      BY <1>1, <2>1 DEF BlockInv, Typed, High, Position
    <2>4. Low(w)' = Low(w) + 1
      BY <1>1, <2>1 DEF Forward, Following, BlockInv, Typed, RunTyped, Low, Position
    <2>5. Low(w) <= High(w)
      BY <2>1 DEF BlockInv, BlocksTaken
    <2> QED BY <2>1, <2>2, <2>3, <2>4, <2>5
  <1>4. \A v \in Worker \ {w} : /\ Holding(v)' <=> Holding(v)
                                /\ Low(v)' = Low(v) /\ High(v)' = High(v)
                                /\ (pc[v] = "done")' <=> (pc[v] = "done")
    BY <1>1 DEF Forward, shared, BlockInv, Typed, Holding, Low, High, Position
  <1>5. cur_pixel' = cur_pixel /\ cur_pixel \in Nat
    BY <1>1 DEF shared, BlockInv, Typed
  <1>6. \A v \in Worker : Holding(v) => Low(v) \in Int /\ High(v) \in Int
    BY DEF BlockInv, Typed, Holding, Low, High, Position, RunTyped
  <1>7. BlocksTaken'
    BY <1>3, <1>4, <1>5, <1>6 DEF BlockInv, BlocksTaken, RunTyped
  <1>8. BlocksApart'
    BY <1>3, <1>4, <1>6 DEF BlockInv, BlocksApart
  <1>9. ComputedOnce'
    <2> SUFFICES ASSUME NEW p \in 0 .. Last
                 PROVE  times'[p] = IF /\ First <= Position(p) /\ Position(p) < cur_pixel
                                       /\ \A v \in Worker : ~InBlock(v, p)'
                                    THEN 1 ELSE 0
      BY <1>5 DEF ComputedOnce, Position
    <2>1. Position(p) \in Int /\ (Position(p) = Position(pixel[w]) <=> p = pixel[w])
      BY <1>1 DEF Position, RunTyped
    <2>2. \A v \in Worker \ {w} : InBlock(v, p)' <=> InBlock(v, p)
      BY <1>4 DEF InBlock, Position
    <2>3. InBlock(w, p)' <=> InBlock(w, p) /\ p # pixel[w]
      BY <1>3, <2>1 DEF InBlock, Position
    <2>4. CASE p = pixel[w]
      <3>1. InBlock(w, p)
        BY <1>3, <2>4 DEF InBlock
      <3>2. \A v \in Worker \ {w} : ~InBlock(v, p)
        BY <3>1, <1>3, <1>6, <2>1 DEF InBlock, BlockInv, BlocksApart
      <3>3. First <= Position(p) /\ Position(p) < cur_pixel
        BY <3>1, <1>5, <1>6, <2>1 DEF InBlock, BlockInv, BlocksTaken, RunTyped
      <3>4. times[p] = 0
        BY <3>1 DEF BlockInv, ComputedOnce
      <3> QED BY <1>13, <2>2, <2>3, <2>4, <3>2, <3>3, <3>4
    <2>5. CASE p # pixel[w]
      <3>1. times'[p] = times[p]
        BY <1>13, <2>5
      <3>2. \A v \in Worker : InBlock(v, p)' <=> InBlock(v, p)
        BY <2>2, <2>3, <2>5
      <3> QED BY <3>1, <3>2 DEF BlockInv, ComputedOnce
    <2> QED BY <2>4, <2>5
  <1>10. ReturnedLast'
    BY <1>3, <1>4, <1>5 DEF BlockInv, ReturnedLast
  <1> QED BY <1>2, <1>7, <1>8, <1>9, <1>10 DEF BlockInv

LEMMA NextBlocks == ASSUME RunTyped, ChunkKnown, BlockInv, [Next]_vars
                    PROVE  BlockInv' /\ RunTyped' /\ ChunkKnown'
  <1>0. run' = run
    BY DEF Next, Returned, vars
  <1>1. SameRun
    BY <1>0 DEF SameRun, First, Last, TopDown, InitialChunk, ByLine, Aligned, Width
  <1>2. RunTyped' /\ ChunkKnown'
    BY <1>1 DEF SameRun, RunTyped, ChunkKnown
  <1>3. CASE UNCHANGED vars
    <2>1. Typed'
      BY <1>1, <1>3 DEF SameRun, vars, shared, local, BlockInv, Typed
    <2> QED BY <1>1, <1>2, <1>3, <2>1, QuietStep DEF SameRun, vars, shared, local, Holding, Low, High, Position
  <1>4. CASE \E w \in Worker : Step(w)
    <2> PICK w \in Worker : Step(w)
      BY <1>4
    <2>1. ~Size(w) /\ ~SetChunk(w)
      BY DEF Size, SetChunk, BlockInv, Typed
    <2> QED BY <1>1, <1>2, <2>1, LookBlocks, TakeBlocks, BoundsBlocks, LeaveBlocks, DoPixelBlocks, LineBlocks DEF Step
  <1> QED BY <1>3, <1>4 DEF Next, Returned

(* What any step keeps, in every run that begins with the chunk known.      *)
Blocks == RunTyped /\ ChunkKnown /\ BlockInv
THEOREM KeepsBlocks == Spec /\ ChunkKnown => []Blocks
  <1>1. Init => RunTyped
    BY RunsAssumption DEF Init, RunTyped, First, Last, TopDown
  <1>2. Init /\ ChunkKnown => Blocks
    BY <1>1, InitBlocks DEF Blocks
  <1>3. Blocks /\ [Next]_vars => Blocks'
    BY NextBlocks DEF Blocks
  <1> QED BY <1>2, <1>3, PTL DEF Spec

(* For any number of threads, any image and any chunk: no pixel is computed *)
(* twice.                                                                   *)
THEOREM EachPixelOnce == Spec /\ ChunkKnown => []EachOnce
  <1>1. Blocks => EachOnce
    BY DEF Blocks, BlockInv, ComputedOnce, EachOnce
  <1> QED BY <1>1, KeepsBlocks, PTL

(* And when the run ends, every pixel of it has been computed and no other. *)
THEOREM RunIsComputed == Spec /\ ChunkKnown => []RunComputed
  <1>1. Blocks => RunComputed
    <2> SUFFICES ASSUME Blocks, AllReturned, NEW p \in 0 .. Last
                 PROVE  times[p] = IF p \in Pixel THEN 1 ELSE 0
      BY DEF RunComputed
    <2> USE DEF Blocks
    <2>1. cur_pixel > Last
      BY DEF ChunkKnown, AllReturned, BlockInv, ReturnedLast
    <2>2. \A w \in Worker : ~InBlock(w, p)
      BY DEF AllReturned, InBlock, Holding
    <2>3. Position(p) < cur_pixel /\ (First <= Position(p) <=> p \in Pixel)
      BY <2>1 DEF RunTyped, ChunkKnown, Position, Pixel, BlockInv, Typed
    <2> QED BY <2>2, <2>3 DEF BlockInv, ComputedOnce
  <1> QED BY <1>1, KeepsBlocks, PTL

-----------------------------------------------------------------------------
(* The line buffers. *)

(* What they rest on: pixels are not averaged (run averaged_lines); and where *)
(* a line is a block (ByLine), a run from the top down ends with a line.      *)
LinesKnown == /\ ChunkKnown
              /\ ~run.accumulate
              /\ ByLine /\ TopDown => \E m \in Nat : Last + 1 = m * Width

Multiple(n) == \E k \in Int : n = k * Width
(* The position a thread works at. *)
Spot(w) == IF pc[w] = "bounds" THEN start[w] ELSE Position(pixel[w])
(* Where a thread has a line of its own, its block is one line. *)
BlockIsLine(w) == Multiple(High(w)) /\ High(w) - Width <= Spot(w)
LinesApart == ByLine =>
    /\ Multiple(cur_pixel)
    /\ \A w \in Worker : Holding(w) => BlockIsLine(w)
    /\ \A v, w \in Worker : v # w /\ Holding(v) /\ Holding(w) => High(v) # High(w)

(* The pixels of a line that are computed, and those its count knows of. *)
Counting(w) == pc[w] \in {"count", "store"}
Done(y) == {p \in LineOfPixels(y) : times[p] = 1}
Counted(y) == {p \in Done(y) : \A w \in Worker : Counting(w) => pixel[w] # p}
AtEol(w, y) == pc[w] = "eol" /\ LineOf(pixel[w]) = y

LinesTyped == /\ sl_left \in [Line -> 0 .. Width]
              /\ sl_buf \in [Line -> SUBSET (0 .. Last)]
              /\ file \in [Line -> SUBSET (0 .. Last)]
              /\ seen \in [Worker -> 0 .. Width]
              /\ size \in [Worker -> Nat]
PixelDone == \A w \in Worker : /\ Counting(w) => ByLine
                               /\ Counting(w) \/ pc[w] = "eol" => pixel[w] \in 0 .. Last
                               /\ Counting(w) => times[pixel[w]] = 1
LeftToCount == \A y \in Line : sl_left[y] = Width - Cardinality(Counted(y))
SeenIsLeft == \A w \in Worker : pc[w] = "store" => seen[w] = sl_left[LineOf(pixel[w])]
EolWhenWhole == \A w \in Worker : pc[w] = "eol" =>
    /\ sl_left[LineOf(pixel[w])] = 0
    /\ \A v \in Worker \ {w} : ~AtEol(v, LineOf(pixel[w]))
StoredOrWritten == \A y \in Line :
    \/ /\ file[y] = NotWritten /\ sl_buf[y] = Done(y)
       /\ sl_left[y] = 0 => \E w \in Worker : AtEol(w, y)
    \/ /\ file[y] = Done(y) /\ sl_left[y] = 0
       /\ \A w \in Worker : ~AtEol(w, y)

LineInv == /\ LinesApart /\ LinesTyped /\ PixelDone /\ LeftToCount /\ SeenIsLeft
           /\ EolWhenWhole /\ StoredOrWritten

-----------------------------------------------------------------------------
(* A line of the image. *)

(* The image a run is for.                                                  *)
ImageTyped == Width \in Nat \ {0}

LEMMA LineBounds ==
  ASSUME NEW p \in Int, NEW d \in Nat \ {0}
  PROVE  /\ p \div d \in Int
         /\ (p \div d) * d <= p
         /\ p < (p \div d) * d + d
  BY Z3

LEMMA LineUnique ==
  ASSUME NEW p \in Int, NEW d \in Nat \ {0}, NEW k \in Int, k * d <= p, p < k * d + d
  PROVE  p \div d = k
<1>1. /\ p \div d \in Int
      /\ (p \div d) * d <= p
      /\ p < (p \div d) * d + d
  BY LineBounds
<1>2. CASE p \div d < k
  BY <1>1, <1>2
<1>3. CASE p \div d > k
  BY <1>1, <1>3
<1> QED
  BY <1>1, <1>2, <1>3

(* A line has its number of pixels at most, and every pixel has its line.   *)
LEMMA LinePixels ==
  ASSUME RunTyped, ImageTyped, NEW y \in Line
  PROVE  /\ y \in Int
         /\ IsFiniteSet(LineOfPixels(y))
         /\ Cardinality(LineOfPixels(y)) \in 0 .. Width
<1> DEFINE a == y * Width
<1>1. y \in Int /\ a \in Int /\ a + (Width - 1) \in Int
  BY LineBounds DEF Line, RunTyped, ImageTyped
<1>2. LineOfPixels(y) \subseteq a .. (a + (Width - 1))
  <2> SUFFICES ASSUME NEW p \in LineOfPixels(y)
               PROVE  p \in a .. (a + (Width - 1))
    OBVIOUS
  <2>1. p \in Int /\ p \div Width = y
    BY DEF LineOfPixels, LineOf
  <2> QED
    BY <1>1, <2>1, LineBounds DEF ImageTyped
<1>3. /\ IsFiniteSet(a .. (a + (Width - 1)))
      /\ Cardinality(a .. (a + (Width - 1))) = Width
  <2>1. Cardinality(a .. (a + (Width - 1))) = IF a > a + (Width - 1) THEN 0 ELSE (a + (Width - 1)) - a + 1
    BY <1>1, FS_Interval
  <2> HIDE DEF a
  <2> QED
    BY <1>1, <2>1, FS_Interval DEF ImageTyped
<1>4. /\ IsFiniteSet(LineOfPixels(y))
      /\ Cardinality(LineOfPixels(y)) <= Cardinality(a .. (a + (Width - 1)))
  BY <1>2, <1>3, FS_Subset
<1>5. Cardinality(LineOfPixels(y)) \in Nat
  BY <1>4, FS_CardinalityType
<1> QED
  BY <1>1, <1>3, <1>4, <1>5 DEF ImageTyped

LEMMA PixelLine ==
  ASSUME RunTyped, ImageTyped, NEW p \in 0 .. Last
  PROVE  LineOf(p) \in Line /\ p \in LineOfPixels(LineOf(p))
<1>1. /\ p \div Width \in Int /\ (p \div Width) * Width <= p
      /\ p < (p \div Width) * Width + Width
  BY LineBounds DEF RunTyped, ImageTyped
<1>2. /\ Last \div Width \in Int /\ (Last \div Width) * Width <= Last
      /\ Last < (Last \div Width) * Width + Width
  BY LineBounds DEF RunTyped, ImageTyped
<1>3. p \div Width >= 0
  BY <1>1 DEF ImageTyped
<1>4. p \div Width <= Last \div Width
  BY <1>1, <1>2 DEF ImageTyped, RunTyped
<1> QED
  BY <1>1, <1>2, <1>3, <1>4 DEF Line, LineOf, LineOfPixels

-----------------------------------------------------------------------------
(* A thread to a line. *)

(* What only depends on the run stays.                                      *)
LEMMA SameImage ==
  ASSUME run' = run
  PROVE  /\ SameRun /\ Width' = Width /\ (ByLine' <=> ByLine) /\ (Locked' <=> Locked)
         /\ Line' = Line /\ \A y : LineOfPixels(y)' = LineOfPixels(y)
         /\ \A p : LineOf(p)' = LineOf(p)
         /\ LinesKnown' <=> LinesKnown
  BY DEF SameRun, First, Last, TopDown, InitialChunk, ByLine, Aligned, Width, Locked,
         Line, LineOfPixels, LineOf, LinesKnown, ChunkKnown

(* Every step but Take goes on in the blocks that are taken.                *)
LEMMA SpotsMoveOn ==
  ASSUME RunTyped, ChunkKnown, SameRun, BlockInv, NEW w \in Worker,
         Step(w), ~Take(w)
  PROVE  /\ cur_pixel' = cur_pixel
         /\ \A v \in Worker : Holding(v)' => /\ Holding(v) /\ High(v)' = High(v)
                                             /\ Spot(v) \in Int /\ Spot(v)' \in Int
                                             /\ Spot(v) <= Spot(v)'
<1> USE DEF SameRun
<1>1. ~Size(w) /\ ~SetChunk(w)
  BY DEF Size, SetChunk, BlockInv, Typed
<1>2. cur_pixel' = cur_pixel /\ chunk' = chunk /\ start' = start
  BY <1>1 DEF Step, Look, Bounds, BlockDone, NoMore, DoPixel, Count, Store, WriteLine, shared
<1>3. \A v \in Worker \ {w} : pc'[v] = pc[v] /\ pixel'[v] = pixel[v] /\ to'[v] = to[v]
  <2>1. pc' = [pc EXCEPT ![w] = pc'[w]]
    BY <1>1 DEF Step, Look, Bounds, BlockDone, NoMore, DoPixel, Count, Store, WriteLine, Goto, BlockInv, Typed
  <2>2. pixel' = [pixel EXCEPT ![w] = pixel'[w]] /\ to' = [to EXCEPT ![w] = to'[w]]
    BY <1>1 DEF Step, Look, Bounds, BlockDone, NoMore, DoPixel, Count, Store, WriteLine, Forward, BlockInv, Typed
  <2> QED
    BY <2>1, <2>2 DEF BlockInv, Typed
<1>4. \A v \in Worker \ {w} : Holding(v)' => /\ Holding(v) /\ High(v)' = High(v)
                                             /\ Spot(v) \in Int /\ Spot(v)' = Spot(v)
  BY <1>2, <1>3 DEF Holding, High, Spot, Position, BlockInv, Typed, RunTyped
<1>5. ASSUME Holding(w)'
      PROVE  /\ Holding(w) /\ High(w)' = High(w)
             /\ Spot(w) \in Int /\ Spot(w)' \in Int /\ Spot(w) <= Spot(w)'
  <2>1. CASE Bounds(w)
    BY <1>2, <1>5, <2>1 DEF Bounds, Goto, From, To, Holding, High, Spot, Position, BlockInv, Typed, RunTyped, ChunkKnown
  <2>2. CASE ~Bounds(w)
    <3>1. pc[w] \in {"loop", "count", "store", "eol"} /\ pc'[w] \in {"loop", "count", "store", "eol"}
      BY <1>1, <1>5, <2>2 DEF Step, Look, BlockDone, NoMore, DoPixel, Count, Store, WriteLine, Goto, Holding, BlockInv, Typed
    <3>2. pixel'[w] = pixel[w] \/ pixel'[w] = Following(w)
      BY <1>1, <1>5, <2>2 DEF Step, Look, BlockDone, NoMore, DoPixel, Count, Store, WriteLine, Goto, Forward, Holding, BlockInv, Typed
    <3>3. to'[w] = to[w]
      BY <1>1, <1>5, <2>2 DEF Step, Look, BlockDone, NoMore, DoPixel, Count, Store, WriteLine
    <3> QED
      BY <3>1, <3>2, <3>3 DEF Following, Holding, High, Spot, Position, BlockInv, Typed, RunTyped
  <2> QED
    BY <2>1, <2>2
<1> QED
  BY <1>2, <1>4, <1>5

LEMMA ApartStep ==
  ASSUME RunTyped, ImageTyped, LinesKnown, BlockInv, LinesApart, run' = run,
         NEW w \in Worker, Step(w)
  PROVE  LinesApart'
<1>1. SameRun /\ Width' = Width /\ (ByLine' <=> ByLine) /\ ChunkKnown
  BY SameImage DEF LinesKnown
<1> SUFFICES ASSUME ByLine PROVE LinesApart'
  BY <1>1 DEF LinesApart
<1>2. /\ Multiple(cur_pixel)
      /\ \A v \in Worker : Holding(v) => BlockIsLine(v)
      /\ \A v, u \in Worker : v # u /\ Holding(v) /\ Holding(u) => High(v) # High(u)
  BY DEF LinesApart
<1>3. \A n : Multiple(n)' <=> Multiple(n)
  BY <1>1 DEF Multiple
<1>4. CASE ~Take(w)
  <2>1. /\ cur_pixel' = cur_pixel
        /\ \A v \in Worker : Holding(v)' => /\ Holding(v) /\ High(v)' = High(v)
                                            /\ Spot(v) \in Int /\ Spot(v)' \in Int
                                            /\ Spot(v) <= Spot(v)'
    BY <1>1, <1>4, SpotsMoveOn
  <2>2. \A v \in Worker : Holding(v) => High(v) \in Int
    BY <1>1 DEF ChunkKnown, BlockInv, Typed, Holding, High, Position, RunTyped
  <2>3. \A v \in Worker : Holding(v)' => BlockIsLine(v)'
    <3> SUFFICES ASSUME NEW v \in Worker, Holding(v)' PROVE BlockIsLine(v)'
      OBVIOUS
    <3>1. Multiple(High(v)) /\ High(v) - Width <= Spot(v)
      BY <1>2, <2>1 DEF BlockIsLine
    <3>2. Multiple(High(v))'
      BY <1>1, <2>1, <3>1 DEF Multiple
    <3>3. High(v)' - Width' <= Spot(v)'
      BY <1>1, <2>1, <2>2, <3>1 DEF ImageTyped
    <3> QED
      BY <3>2, <3>3 DEF BlockIsLine
  <2>4. Multiple(cur_pixel)'
    BY <1>1, <1>2, <2>1 DEF Multiple
  <2>5. \A v, u \in Worker : v # u /\ Holding(v)' /\ Holding(u)' => High(v)' # High(u)'
    BY <1>2, <2>1
  <2> QED
    BY <2>3, <2>4, <2>5 DEF LinesApart
<1>5. CASE Take(w)
  <2>1. chunk = Width
    BY DEF BlockInv, Typed, InitialChunk
  <2>2. /\ cur_pixel' = cur_pixel + Width /\ cur_pixel \in Nat
        /\ Holding(w)' /\ High(w)' = cur_pixel + Width /\ Spot(w)' = cur_pixel
    BY <1>5, <2>1 DEF Take, Goto, BlockInv, Typed, Holding, High, Spot
  <2>3. \A v \in Worker \ {w} : Holding(v)' => /\ Holding(v) /\ High(v)' = High(v)
                                               /\ Spot(v)' = Spot(v)
    BY <1>1, <1>5 DEF Take, Goto, SameRun, BlockInv, Typed, Holding, High, Spot, Position
  <2>4. \A v \in Worker : Holding(v) => High(v) \in Int /\ High(v) <= cur_pixel
    BY <1>1 DEF ChunkKnown, BlockInv, BlocksTaken, Typed, Holding, High, Position, RunTyped
  <2>5. Multiple(cur_pixel + Width)
    <3> PICK k \in Int : cur_pixel = k * Width
      BY <1>2 DEF Multiple
    <3>1. k + 1 \in Int /\ cur_pixel + Width = (k + 1) * Width
      BY DEF ImageTyped
    <3> QED
      BY <3>1 DEF Multiple
  <2>6. Multiple(cur_pixel)' /\ Multiple(High(w))'
    BY <1>1, <2>2, <2>5 DEF Multiple
  <2>7. \A v \in Worker : Holding(v)' => BlockIsLine(v)'
    <3> SUFFICES ASSUME NEW v \in Worker, Holding(v)' PROVE BlockIsLine(v)'
      OBVIOUS
    <3>1. CASE v = w
      BY <1>1, <2>2, <2>6, <3>1 DEF BlockIsLine, ImageTyped
    <3>2. CASE v # w
      <4>1. BlockIsLine(v) /\ High(v)' = High(v) /\ Spot(v)' = Spot(v)
        BY <1>2, <2>3, <3>2
      <4> QED
        BY <1>1, <4>1 DEF BlockIsLine, Multiple
    <3> QED
      BY <3>1, <3>2
  <2>8. \A v, u \in Worker : v # u /\ Holding(v)' /\ Holding(u)' => High(v)' # High(u)'
    BY <1>2, <2>2, <2>3, <2>4 DEF ImageTyped
  <2> QED
    BY <2>6, <2>7, <2>8 DEF LinesApart
<1> QED
  BY <1>4, <1>5

(* The line a thread is on follows from the end of its block.               *)
LEMMA LineFromBlock ==
  ASSUME RunTyped, ImageTyped, LinesKnown, BlockInv, LinesApart, ByLine,
         NEW w \in Worker, AtPixel(w), NEW k \in Int, High(w) = k * Width,
         NEW m \in Int, TopDown => Last + 1 = m * Width
  PROVE  LineOf(pixel[w]) = IF TopDown THEN m - k ELSE k - 1
<1>1. /\ Holding(w) /\ pixel[w] \in Int /\ to[w] \in Int
      /\ High(w) \in Int /\ Spot(w) = Position(pixel[w]) /\ Spot(w) \in Int
  BY DEF AtPixel, Holding, High, Spot, Position, BlockInv, Typed, RunTyped
<1>2. High(w) - Width <= Spot(w)
  BY <1>1 DEF LinesApart, BlockIsLine
<1>3. Spot(w) < High(w)
  BY <1>1 DEF AtPixel, Low, High, Spot, Position, BlockInv, BlocksTaken, RunTyped
<1>4. CASE ~TopDown
  <2>1. pixel[w] = Spot(w) /\ k - 1 \in Int
    BY <1>1, <1>4 DEF Position
  <2>2. (k - 1) * Width <= pixel[w] /\ pixel[w] < (k - 1) * Width + Width
    BY <1>1, <1>2, <1>3, <2>1 DEF ImageTyped
  <2> QED
    BY <1>1, <1>4, <2>1, <2>2, LineUnique DEF LineOf, ImageTyped
<1>5. CASE TopDown
  <2>1. pixel[w] = Last - Spot(w) /\ m - k \in Int /\ Last + 1 = m * Width
    BY <1>1, <1>5 DEF Position, RunTyped
  <2>2. (m - k) * Width = m * Width - k * Width
    BY DEF ImageTyped
  <2>3. (m - k) * Width <= pixel[w] /\ pixel[w] < (m - k) * Width + Width
    BY <1>1, <1>2, <1>3, <2>1, <2>2 DEF ImageTyped, RunTyped
  <2> QED
    BY <1>1, <1>5, <2>1, <2>3, LineUnique DEF LineOf, ImageTyped
<1> QED
  BY <1>4, <1>5

LEMMA OneThreadToALine ==
  ASSUME RunTyped, ImageTyped, LinesKnown, BlockInv, LinesApart
  PROVE  OneCpuPerLine
<1> SUFFICES ASSUME ByLine, NEW v \in Worker, NEW w \in Worker, v # w,
                    AtPixel(v), AtPixel(w), LineOf(pixel[v]) = LineOf(pixel[w])
             PROVE  FALSE
  BY DEF OneCpuPerLine
<1>1. Holding(v) /\ Holding(w)
  BY DEF AtPixel, Holding
<1>2. PICK k \in Int : High(v) = k * Width
  BY <1>1, Zenon DEF LinesApart, BlockIsLine, Multiple
<1>3. PICK j \in Int : High(w) = j * Width
  BY <1>1, Zenon DEF LinesApart, BlockIsLine, Multiple
<1>4. PICK m \in Int : TopDown => Last + 1 = m * Width
  BY DEF LinesKnown
<1>5. LineOf(pixel[v]) = IF TopDown THEN m - k ELSE k - 1
  BY <1>2, <1>4, LineFromBlock
<1>6. LineOf(pixel[w]) = IF TopDown THEN m - j ELSE j - 1
  BY <1>3, <1>4, LineFromBlock
<1>7. k = j
  <2>1. CASE TopDown
    <3>1. m - k = m - j
      BY <1>5, <1>6, <2>1, Zenon
    <3> QED
      BY <3>1
  <2>2. CASE ~TopDown
    <3>1. k - 1 = j - 1
      BY <1>5, <1>6, <2>2, Zenon
    <3> QED
      BY <3>1
  <2> QED
    BY <2>1, <2>2
<1> QED
  BY <1>1, <1>2, <1>3, <1>7 DEF LinesApart

-----------------------------------------------------------------------------
(* What is counted. *)

LEMMA OneMore ==
  ASSUME RunTyped, ImageTyped, NEW y \in Line, NEW C, C \subseteq LineOfPixels(y),
         NEW p \in LineOfPixels(y), p \notin C
  PROVE  /\ Cardinality(C \cup {p}) = Cardinality(C) + 1
         /\ Cardinality(C) \in 0 .. (Width - 1)
<1>1. IsFiniteSet(LineOfPixels(y)) /\ Cardinality(LineOfPixels(y)) \in 0 .. Width
  BY LinePixels
<1>2. IsFiniteSet(C) /\ Cardinality(C) \in Nat
  BY <1>1, FS_Subset, FS_CardinalityType
<1>3. Cardinality(C \cup {p}) = Cardinality(C) + 1
  BY <1>2, FS_AddElement
<1>4. C \cup {p} \in SUBSET LineOfPixels(y)
  OBVIOUS
<1>5. Cardinality(C \cup {p}) <= Cardinality(LineOfPixels(y))
  BY <1>1, <1>4, FS_Subset
<1> QED
  BY <1>1, <1>2, <1>3, <1>5 DEF ImageTyped

(* A line of which no pixel is to come has them all.                        *)
LEMMA NoneToCome ==
  ASSUME RunTyped, ImageTyped, LeftToCount, NEW y \in Line, sl_left[y] = 0
  PROVE  /\ Counted(y) = LineOfPixels(y) /\ Done(y) = LineOfPixels(y)
         /\ Cardinality(LineOfPixels(y)) = Width
<1>1. IsFiniteSet(LineOfPixels(y)) /\ Cardinality(LineOfPixels(y)) \in 0 .. Width
  BY LinePixels
<1>2. Counted(y) \in SUBSET LineOfPixels(y) /\ Done(y) \in SUBSET LineOfPixels(y) /\ Counted(y) \subseteq Done(y)
  BY DEF Counted, Done
<1>3. IsFiniteSet(Counted(y)) /\ Cardinality(Counted(y)) <= Cardinality(LineOfPixels(y))
  BY <1>1, <1>2, FS_Subset
<1>4. Cardinality(Counted(y)) \in Nat
  BY <1>3, FS_CardinalityType
<1>5. Cardinality(Counted(y)) = Width
  BY <1>4 DEF LeftToCount, ImageTyped
<1>6. Cardinality(LineOfPixels(y)) = Cardinality(Counted(y))
  BY <1>1, <1>3, <1>4, <1>5 DEF ImageTyped
<1>7. Counted(y) = LineOfPixels(y)
  BY <1>1, <1>2, <1>6, FS_Subset
<1> QED
  BY <1>2, <1>5, <1>6, <1>7

(* A thread moves without touching a line.                                  *)
LEMMA LinesLeftAlone ==
  ASSUME LineInv, LinesApart', run' = run, UNCHANGED <<lines, times, size>>,
         seen' \in [Worker -> 0 .. Width],
         \A w \in Worker : /\ Counting(w)' <=> Counting(w)
                           /\ (pc[w] = "eol")' <=> (pc[w] = "eol")
                           /\ Counting(w) \/ pc[w] = "eol" => pixel'[w] = pixel[w]
                           /\ pc'[w] = "store" => seen'[w] = sl_left[LineOf(pixel[w])]
  PROVE  LineInv'
<1>1. /\ Line' = Line /\ Width' = Width /\ Last' = Last /\ (ByLine' <=> ByLine)
      /\ \A y : LineOfPixels(y)' = LineOfPixels(y)
      /\ \A p : LineOf(p)' = LineOf(p)
  BY SameImage DEF SameRun
<1>2. sl_left' = sl_left /\ sl_buf' = sl_buf /\ file' = file /\ times' = times
  BY DEF lines
<1>3. \A y : Done(y)' = Done(y)
  BY <1>1, <1>2 DEF Done
<1>4. \A y : Counted(y)' = Counted(y)
  BY <1>3 DEF Counted, Counting, LineInv
<1>5. \A w \in Worker, y \in Line : AtEol(w, y)' <=> AtEol(w, y)
  BY <1>1 DEF AtEol
<1>6. LinesTyped'
  BY <1>1, <1>2 DEF LineInv, LinesTyped
<1>7. PixelDone'
  BY <1>1, <1>2 DEF LineInv, PixelDone
<1>8. LeftToCount'
  BY <1>1, <1>2, <1>4 DEF LineInv, LeftToCount
<1>9. SeenIsLeft'
  BY <1>1, <1>2 DEF LineInv, SeenIsLeft, Counting
<1>10. EolWhenWhole'
  BY <1>1, <1>2 DEF LineInv, EolWhenWhole, AtEol
<1>11. StoredOrWritten'
  BY <1>1, <1>2, <1>3, <1>5 DEF LineInv, StoredOrWritten, NotWritten
<1> QED
  BY <1>6, <1>7, <1>8, <1>9, <1>10, <1>11 DEF LineInv

-----------------------------------------------------------------------------
(* The steps of a thread. *)

LEMMA InitLines ==
  ASSUME RunTyped, ImageTyped, LinesKnown, Init
  PROVE  LineInv
<1>1. \A w \in Worker : pc[w] = "look"
  BY DEF Init
<1>2. ASSUME ByLine PROVE Multiple(cur_pixel)
  <2>1. cur_pixel \in Int /\ cur_pixel % Width = 0
    BY <1>2 DEF Init, ByLine, Aligned, RunTyped
  <2>2. cur_pixel \div Width \in Int /\ cur_pixel = (cur_pixel \div Width) * Width
    BY <2>1, Z3 DEF ImageTyped
  <2> QED
    BY <2>2 DEF Multiple
<1>3. LinesApart
  BY <1>1, <1>2 DEF LinesApart, Holding
<1>4. LinesTyped
  BY DEF Init, LinesTyped, LineLength, NotWritten, ImageTyped
<1>5. \A y : Done(y) = {} /\ Counted(y) = {}
  BY DEF Init, Done, Counted, LineOfPixels
<1>6. LeftToCount
  BY <1>5, FS_EmptySet DEF Init, LeftToCount, LineLength, ImageTyped
<1>7. PixelDone /\ SeenIsLeft /\ EolWhenWhole
  BY <1>1 DEF PixelDone, SeenIsLeft, EolWhenWhole, Counting
<1>8. StoredOrWritten
  <2> SUFFICES ASSUME NEW y \in Line
               PROVE  file[y] = NotWritten /\ sl_buf[y] = Done(y) /\ sl_left[y] # 0
    BY DEF StoredOrWritten
  <2> QED
    BY <1>5 DEF Init, NotWritten, LineLength, ImageTyped
<1> QED
  BY <1>3, <1>4, <1>6, <1>7, <1>8 DEF LineInv

LEMMA QuietLines ==
  ASSUME RunTyped, ImageTyped, LinesKnown, BlockInv, LineInv, LinesApart', run' = run,
         NEW w \in Worker, \/ Look(w) \/ Take(w) \/ Bounds(w) \/ BlockDone(w) \/ NoMore(w) \/ Count(w)
  PROVE  LineInv'
<1>1. pc \in [Worker -> {"look", "take", "bounds", "loop", "count", "store", "eol", "done"}]
      /\ pixel \in [Worker -> Int]
  BY DEF BlockInv, Typed
<1>2. UNCHANGED <<lines, times, size>>
  BY DEF Look, Take, Bounds, BlockDone, NoMore, Count
<1>3. \A v \in Worker \ {w} : pc'[v] = pc[v] /\ pixel'[v] = pixel[v] /\ seen'[v] = seen[v]
  BY <1>1 DEF Look, Take, Bounds, BlockDone, NoMore, Count, Goto, LineInv, LinesTyped
<1>4. CASE Count(w)
  <2>1. pixel[w] \in 0 .. Last
    BY <1>4 DEF Count, LineInv, PixelDone, Counting
  <2>2. LineOf(pixel[w]) \in Line
    BY <2>1, PixelLine
  <2>3. sl_left[LineOf(pixel[w])] \in 0 .. Width
    BY <2>2 DEF LineInv, LinesTyped
  <2>4. seen' \in [Worker -> 0 .. Width] /\ seen'[w] = sl_left[LineOf(pixel[w])]
    BY <1>4, <2>3 DEF Count, LineInv, LinesTyped
  <2>5. pc[w] = "count" /\ pc'[w] = "store" /\ pixel' = pixel
    BY <1>1, <1>4 DEF Count, Goto
  <2>6. \A v \in Worker : /\ Counting(v)' <=> Counting(v)
                          /\ (pc[v] = "eol")' <=> (pc[v] = "eol")
                          /\ pixel'[v] = pixel[v]
                          /\ pc'[v] = "store" => seen'[v] = sl_left[LineOf(pixel[v])]
    BY <1>3, <2>4, <2>5 DEF Counting, LineInv, SeenIsLeft
  <2> QED
    BY <1>2, <2>4, <2>6, LinesLeftAlone
<1>5. CASE ~Count(w)
  <2>1. seen' = seen /\ seen \in [Worker -> 0 .. Width]
    BY <1>5 DEF Look, Take, Bounds, BlockDone, NoMore, LineInv, LinesTyped
  <2>2. /\ pc[w] \notin {"count", "store", "eol"} /\ pc'[w] \notin {"count", "store", "eol"}
    BY <1>1, <1>5 DEF Look, Take, Bounds, BlockDone, NoMore, Goto
  <2>3. \A v \in Worker : /\ Counting(v)' <=> Counting(v)
                          /\ (pc[v] = "eol")' <=> (pc[v] = "eol")
                          /\ Counting(v) \/ pc[v] = "eol" => pixel'[v] = pixel[v]
                          /\ pc'[v] = "store" => seen'[v] = sl_left[LineOf(pixel[v])]
    BY <1>3, <2>1, <2>2 DEF Counting, LineInv, SeenIsLeft
  <2>4. seen' \in [Worker -> 0 .. Width]
    BY <2>1
  <2> QED
    BY <1>2, <2>3, <2>4, LinesLeftAlone
<1> QED
  BY <1>4, <1>5

(* do_eol: the line is whole, no other thread is about to write it.         *)
LEMMA WriteLineLines ==
  ASSUME RunTyped, ImageTyped, LinesKnown, BlockInv, LineInv, LinesApart', run' = run,
         NEW w \in Worker, WriteLine(w)
  PROVE  LineInv'
<1>1. /\ Line' = Line /\ Width' = Width /\ Last' = Last /\ (ByLine' <=> ByLine)
      /\ \A z : LineOfPixels(z)' = LineOfPixels(z)
      /\ \A p : LineOf(p)' = LineOf(p)
  BY SameImage DEF SameRun
<1>2. pc[w] = "eol" /\ pixel[w] \in 0 .. Last
  BY DEF WriteLine, LineInv, PixelDone
<1> PICK y \in Line : y = LineOf(pixel[w])
  BY <1>2, PixelLine
<1>3. y \in Line /\ sl_left[y] = 0 /\ AtEol(w, y) /\ \A v \in Worker \ {w} : ~AtEol(v, y)
  BY <1>2, PixelLine DEF LineInv, EolWhenWhole, AtEol
<1>4. sl_buf[y] = Done(y)
  BY <1>3 DEF LineInv, StoredOrWritten
<1>5. /\ sl_left' = sl_left /\ seen' = seen /\ size' = size /\ times' = times
      /\ file' = [file EXCEPT ![y] = sl_buf[y]] /\ sl_buf' = [sl_buf EXCEPT ![y] = {}]
      /\ pc'[w] = "loop"
      /\ \A v \in Worker \ {w} : pc'[v] = pc[v] /\ pixel'[v] = pixel[v]
  BY DEF WriteLine, Goto, Forward, BlockInv, Typed
<1>6. /\ file'[y] = Done(y)
      /\ \A z \in Line : z # y => file'[z] = file[z] /\ sl_buf'[z] = sl_buf[z]
  BY <1>3, <1>4, <1>5 DEF LineInv, LinesTyped
<1>7. \A z : Done(z)' = Done(z)
  BY <1>1, <1>5 DEF Done
<1>8. \A v \in Worker : /\ Counting(v)' <=> Counting(v)
                        /\ Counting(v) => pixel'[v] = pixel[v]
                        /\ (pc'[v] = "eol" <=> pc[v] = "eol" /\ v # w)
  BY <1>2, <1>5 DEF Counting
<1>9. \A z : Counted(z)' = Counted(z)
  BY <1>7, <1>8 DEF Counted
<1>10. LinesTyped'
  <2>1. sl_buf[y] \in SUBSET (0 .. Last) /\ {} \in SUBSET (0 .. Last)
    BY <1>3 DEF LineInv, LinesTyped
  <2>2. file' \in [Line -> SUBSET (0 .. Last)] /\ sl_buf' \in [Line -> SUBSET (0 .. Last)]
    BY <1>5, <2>1 DEF LineInv, LinesTyped
  <2> QED
    BY <1>1, <1>5, <2>2 DEF LineInv, LinesTyped
<1>11. PixelDone'
  BY <1>1, <1>5, <1>8 DEF LineInv, PixelDone
<1>12. LeftToCount'
  BY <1>1, <1>5, <1>9 DEF LineInv, LeftToCount
<1>13. SeenIsLeft'
  BY <1>1, <1>5, <1>8 DEF LineInv, SeenIsLeft, Counting
<1>14. EolWhenWhole'
  BY <1>1, <1>5, <1>8 DEF LineInv, EolWhenWhole, AtEol
<1>15. StoredOrWritten'
  <2> SUFFICES ASSUME NEW z \in Line
               PROVE  \/ /\ file'[z] = NotWritten /\ sl_buf'[z] = Done(z)
                         /\ sl_left[z] = 0 => \E v \in Worker : AtEol(v, z)'
                      \/ /\ file'[z] = Done(z) /\ sl_left[z] = 0
                         /\ \A v \in Worker : ~AtEol(v, z)'
    BY <1>1, <1>5, <1>7 DEF StoredOrWritten, NotWritten
  <2>1. CASE z = y
    <3>1. \A v \in Worker : ~AtEol(v, y)'
      BY <1>1, <1>3, <1>5, <1>8 DEF AtEol
    <3> QED
      BY <1>3, <1>6, <2>1, <3>1
  <2>2. CASE z # y
    <3>1. \A v \in Worker : AtEol(v, z)' <=> AtEol(v, z)
      BY <1>1, <1>5, <1>8, <2>2 DEF AtEol
    <3>2. file'[z] = file[z] /\ sl_buf'[z] = sl_buf[z]
      BY <1>6, <2>2
    <3> QED
      BY <3>1, <3>2, Zenon DEF LineInv, StoredOrWritten
  <2> QED
    BY <2>1, <2>2
<1> QED
  BY <1>10, <1>11, <1>12, <1>13, <1>14, <1>15 DEF LineInv

(* The pixel a thread comes to has not been computed.                       *)
LEMMA PixelToCome ==
  ASSUME RunTyped, ChunkKnown, BlockInv, NEW w \in Worker, pc[w] = "loop",
         pixel[w] # to[w], pixel[w] \in 0 .. Last
  PROVE  times[pixel[w]] = 0
<1>1. Holding(w) /\ Low(w) = Position(pixel[w]) /\ High(w) = Position(to[w])
  BY DEF Holding, Low, High
<1>2. Low(w) \in Int /\ High(w) \in Int /\ Low(w) # High(w)
  BY <1>1 DEF BlockInv, Typed, RunTyped, Position
<1>3. Low(w) <= High(w)
  BY <1>1 DEF BlockInv, BlocksTaken
<1>4. InBlock(w, pixel[w])
  BY <1>1, <1>2, <1>3 DEF InBlock
<1> QED
  BY <1>4 DEF BlockInv, ComputedOnce

LEMMA DoPixelLines ==
  ASSUME RunTyped, ImageTyped, LinesKnown, BlockInv, LineInv, LinesApart', run' = run,
         NEW w \in Worker, DoPixel(w)
  PROVE  LineInv'
<1>1. /\ Line' = Line /\ Width' = Width /\ Last' = Last /\ (ByLine' <=> ByLine)
      /\ \A z : LineOfPixels(z)' = LineOfPixels(z)
      /\ \A q : LineOf(q)' = LineOf(q)
  BY SameImage DEF SameRun
<1>2. pc[w] = "loop" /\ pixel[w] # to[w] /\ pixel[w] \in 0 .. Last
  BY DEF DoPixel, Outside, BlockInv, Typed, RunTyped
<1> PICK p \in 0 .. Last : p = pixel[w]
  BY <1>2
<1> PICK y \in Line : y = LineOf(p)
  BY PixelLine
<1>3. p \in LineOfPixels(y) /\ times[p] = 0
  BY <1>2, PixelLine, PixelToCome DEF LinesKnown
<1>4. p \notin Done(y)
  BY <1>3 DEF Done
<1>5. sl_left[y] # 0
  BY <1>3, <1>4, NoneToCome DEF LineInv
<1>6. file[y] = NotWritten /\ sl_buf[y] = Done(y)
  BY <1>5 DEF LineInv, StoredOrWritten
<1>7. /\ seen' = seen /\ size' = size /\ file' = file
      /\ times' = [times EXCEPT ![p] = times[p] + 1]
      /\ sl_buf' = [sl_buf EXCEPT ![y] = sl_buf[y] \cup {p}]
      /\ \A v \in Worker \ {w} : pc'[v] = pc[v] /\ pixel'[v] = pixel[v]
  BY DEF DoPixel, Goto, Forward, BlockInv, Typed
<1>8. times'[p] = 1 /\ \A q \in 0 .. Last : q # p => times'[q] = times[q]
  BY <1>3, <1>7 DEF BlockInv, Typed
<1>9. /\ Done(y)' = Done(y) \cup {p}
      /\ \A z \in Line : z # y => Done(z)' = Done(z)
  <2>1. \A z : Done(z)' = {q \in LineOfPixels(z) : times'[q] = 1}
    BY <1>1 DEF Done
  <2>2. \A z : LineOfPixels(z) = {q \in 0 .. Last : LineOf(q) = z}
    BY DEF LineOfPixels
  <2>3. \A z \in Line : z # y => p \notin LineOfPixels(z)
    BY <2>2
  <2>4. \A z : LineOfPixels(z) \subseteq 0 .. Last
    BY <2>2
  <2> QED
    BY <1>3, <1>8, <2>1, <2>3, <2>4 DEF Done
<1>10. /\ sl_buf'[y] = Done(y)'
       /\ \A z \in Line : z # y => sl_buf'[z] = sl_buf[z]
  BY <1>6, <1>7, <1>9 DEF LineInv, LinesTyped
<1>11. sl_buf' \in [Line -> SUBSET (0 .. Last)]
  <2>1. sl_buf[y] \cup {p} \in SUBSET (0 .. Last)
    BY DEF LineInv, LinesTyped
  <2> QED
    BY <1>7, <2>1 DEF LineInv, LinesTyped
<1>12. \A v \in Worker : Counting(v) => v # w /\ pixel[v] # p
  BY <1>2, <1>3 DEF Counting, LineInv, PixelDone
<1>13. \A v \in Worker : pc[v] = "eol" => v # w /\ LineOf(pixel[v]) # y
  BY <1>2, <1>5 DEF LineInv, EolWhenWhole
<1>14. CASE Locked
  <2>1. ~ByLine /\ \A v \in Worker : ~Counting(v)
    BY <1>14 DEF Locked, LineInv, PixelDone
  <2>2. \A z : Counted(z) = Done(z)
    BY <2>1 DEF Counted
  <2>3. sl_left[y] = Width - Cardinality(Done(y))
    BY <2>2 DEF LineInv, LeftToCount
  <2>4. /\ Cardinality(Done(y)') = Cardinality(Done(y)) + 1
        /\ Cardinality(Done(y)) \in 0 .. (Width - 1)
    <3>1. Done(y) \subseteq LineOfPixels(y)
      BY DEF Done
    <3> QED
      BY <1>3, <1>4, <1>9, <3>1, OneMore
  <2>5. sl_left[y] \in 1 .. Width
    BY <2>3, <2>4 DEF ImageTyped
  <2>6. sl_left' = [sl_left EXCEPT ![y] = sl_left[y] - 1]
    BY <1>14 DEF DoPixel
  <2>7. /\ sl_left'[y] = sl_left[y] - 1 /\ sl_left' \in [Line -> 0 .. Width]
        /\ \A z \in Line : z # y => sl_left'[z] = sl_left[z]
    <3>1. sl_left \in [Line -> 0 .. Width] /\ sl_left[y] - 1 \in 0 .. Width
      BY <2>5 DEF LineInv, LinesTyped, ImageTyped
    <3> QED
      BY <2>6, <3>1
  <2>8. /\ sl_left'[y] = 0 => pc'[w] = "eol" /\ pixel'[w] = p
        /\ sl_left'[y] # 0 => pc'[w] = "loop"
    <3>1. sl_left'[y] <= 0 <=> sl_left'[y] = 0
      BY <2>5, <2>7
    <3> QED
      BY <1>14, <3>1 DEF DoPixel, Goto, BlockInv, Typed
  <2>9. \A v \in Worker : ~Counting(v)'
    BY <1>7, <2>1, <2>8 DEF Counting
  <2>10. \A z : Counted(z)' = Done(z)'
    BY <2>9 DEF Counted
  <2>11. LeftToCount'
    <3> SUFFICES ASSUME NEW z \in Line PROVE sl_left'[z] = Width - Cardinality(Done(z)')
      BY <1>1, <2>10 DEF LeftToCount
    <3>1. CASE z = y
      BY <2>3, <2>4, <2>7, <3>1 DEF ImageTyped
    <3>2. CASE z # y
      BY <1>9, <2>2, <2>7, <3>2 DEF LineInv, LeftToCount
    <3> QED
      BY <3>1, <3>2
  <2>12. LinesTyped'
    BY <1>1, <1>7, <1>11, <2>7 DEF LineInv, LinesTyped
  <2>13. PixelDone' /\ SeenIsLeft'
    <3>1. \A v \in Worker : pc'[v] = "eol" => pixel'[v] \in 0 .. Last
      BY <1>7, <2>7, <2>8 DEF LineInv, PixelDone
    <3> QED
      BY <1>1, <2>9, <3>1 DEF PixelDone, SeenIsLeft, Counting
  <2>14. EolWhenWhole'
    <3> SUFFICES ASSUME NEW v \in Worker, pc'[v] = "eol"
                 PROVE  /\ sl_left'[LineOf(pixel'[v])] = 0
                        /\ \A u \in Worker \ {v} : pc'[u] = "eol" => LineOf(pixel'[u]) # LineOf(pixel'[v])
      BY <1>1 DEF EolWhenWhole, AtEol
    <3>1. \A u \in Worker \ {w} : pc'[u] = "eol" =>
             /\ pc[u] = "eol" /\ pixel'[u] = pixel[u] /\ LineOf(pixel[u]) # y
             /\ LineOf(pixel[u]) \in Line
      BY <1>7, <1>13, PixelLine DEF LineInv, PixelDone
    <3>2. CASE v = w
      BY <2>7, <2>8, <3>1, <3>2
    <3>3. CASE v # w
      <4>1. sl_left[LineOf(pixel[v])] = 0
        BY <3>1, <3>3 DEF LineInv, EolWhenWhole
      <4>2. \A u \in Worker \ {v, w} : pc[u] = "eol" => LineOf(pixel[u]) # LineOf(pixel[v])
        BY <3>1, <3>3 DEF LineInv, EolWhenWhole, AtEol
      <4>3. pc'[w] = "eol" => LineOf(pixel'[w]) = y
        BY <2>7, <2>8
      <4> QED
        BY <2>7, <3>1, <3>3, <4>1, <4>2, <4>3
    <3> QED
      BY <3>2, <3>3
  <2>15. StoredOrWritten'
    <3> SUFFICES ASSUME NEW z \in Line
                 PROVE  \/ /\ file[z] = NotWritten /\ sl_buf'[z] = Done(z)'
                           /\ sl_left'[z] = 0 => \E v \in Worker : AtEol(v, z)'
                        \/ /\ file[z] = Done(z)' /\ sl_left'[z] = 0
                           /\ \A v \in Worker : ~AtEol(v, z)'
      BY <1>1, <1>7 DEF StoredOrWritten, NotWritten
    <3>1. CASE z = y
      <4>1. sl_left'[z] = 0 => AtEol(w, z)'
        BY <1>1, <2>8, <3>1 DEF AtEol
      <4> QED
        BY <1>6, <1>10, <3>1, <4>1
    <3>2. CASE z # y
      <4>1. \A v \in Worker : AtEol(v, z)' <=> AtEol(v, z)
        BY <1>1, <1>2, <1>7, <2>7, <2>8, <3>2 DEF AtEol
      <4>2. Done(z)' = Done(z) /\ sl_buf'[z] = sl_buf[z] /\ sl_left'[z] = sl_left[z]
        BY <1>9, <1>10, <2>7, <3>2
      <4> QED
        BY <4>1, <4>2, Zenon DEF LineInv, StoredOrWritten
    <3> QED
      BY <3>1, <3>2
  <2> QED
    BY <2>11, <2>12, <2>13, <2>14, <2>15 DEF LineInv
<1>15. CASE ~Locked
  <2>1. ByLine
    BY <1>15 DEF Locked, LinesKnown
  <2>2. pc'[w] = "count" /\ pixel' = pixel /\ sl_left' = sl_left
    BY <1>15 DEF DoPixel, Goto, BlockInv, Typed
  <2>3. \A v \in Worker : /\ Counting(v)' <=> Counting(v) \/ v = w
                          /\ pc'[v] = "eol" <=> pc[v] = "eol"
                          /\ pc'[v] = "store" <=> pc[v] = "store"
    BY <1>2, <1>7, <2>2 DEF Counting
  <2>4. \A z \in Line : Counted(z)' = Counted(z)
    <3> SUFFICES ASSUME NEW z \in Line PROVE Counted(z)' = Counted(z)
      OBVIOUS
    <3>1. Counted(z)' = {q \in Done(z)' : \A v \in Worker : Counting(v)' => pixel[v] # q}
      BY <2>2 DEF Counted
    <3>2. Counted(z)' = {q \in Done(z)' \ {p} : \A v \in Worker : Counting(v) => pixel[v] # q}
      BY <2>3, <3>1
    <3>3. Done(z)' \ {p} = Done(z)
      <4>1. CASE z = y
        BY <1>4, <1>9, <4>1
      <4>2. CASE z # y
        <5>1. p \notin Done(z)
          BY <4>2 DEF Done, LineOfPixels
        <5> QED
          BY <1>9, <4>2, <5>1
      <4> QED
        BY <4>1, <4>2
    <3> QED
      BY <3>2, <3>3 DEF Counted
  <2>5. LeftToCount'
    BY <1>1, <2>2, <2>4 DEF LineInv, LeftToCount
  <2>6. LinesTyped'
    BY <1>1, <1>7, <1>11, <2>2 DEF LineInv, LinesTyped
  <2>7. PixelDone'
    <3> SUFFICES ASSUME NEW v \in Worker
                 PROVE  /\ Counting(v)' \/ pc'[v] = "eol" => pixel[v] \in 0 .. Last
                        /\ Counting(v)' => times'[pixel[v]] = 1
      BY <1>1, <2>1, <2>2 DEF PixelDone
    <3>1. CASE v = w
      BY <1>8, <3>1
    <3>2. CASE v # w
      BY <1>8, <1>12, <2>3, <3>2 DEF LineInv, PixelDone
    <3> QED
      BY <3>1, <3>2
  <2>8. SeenIsLeft'
    BY <1>1, <1>7, <2>2, <2>3 DEF LineInv, SeenIsLeft
  <2>9. EolWhenWhole'
    BY <1>1, <2>2, <2>3 DEF LineInv, EolWhenWhole, AtEol
  <2>10. StoredOrWritten'
    <3> SUFFICES ASSUME NEW z \in Line
                 PROVE  \/ /\ file[z] = NotWritten /\ sl_buf'[z] = Done(z)'
                           /\ sl_left[z] = 0 => \E v \in Worker : AtEol(v, z)'
                        \/ /\ file[z] = Done(z)' /\ sl_left[z] = 0
                           /\ \A v \in Worker : ~AtEol(v, z)'
      BY <1>1, <1>7, <2>2 DEF StoredOrWritten, NotWritten
    <3>1. CASE z = y
      BY <1>5, <1>6, <1>10, <3>1
    <3>2. CASE z # y
      <4>1. \A v \in Worker : AtEol(v, z)' <=> AtEol(v, z)
        BY <1>1, <2>2, <2>3 DEF AtEol
      <4>2. Done(z)' = Done(z) /\ sl_buf'[z] = sl_buf[z]
        BY <1>9, <1>10, <3>2
      <4> QED
        BY <4>1, <4>2, Zenon DEF LineInv, StoredOrWritten
    <3> QED
      BY <3>1, <3>2
  <2> QED
    BY <2>5, <2>6, <2>7, <2>8, <2>9, <2>10 DEF LineInv
<1> QED
  BY <1>14, <1>15

(* Without the lock no other thread has read sl_left: it has the line alone. *)
LEMMA StoreLines ==
  ASSUME RunTyped, ImageTyped, LinesKnown, BlockInv, LineInv, LinesApart', run' = run,
         NEW w \in Worker, Store(w)
  PROVE  LineInv'
<1>1. /\ Line' = Line /\ Width' = Width /\ Last' = Last /\ (ByLine' <=> ByLine)
      /\ \A z : LineOfPixels(z)' = LineOfPixels(z)
      /\ \A q : LineOf(q)' = LineOf(q)
  BY SameImage DEF SameRun
<1>2. pc[w] = "store" /\ Counting(w) /\ ByLine /\ pixel[w] \in 0 .. Last /\ times[pixel[w]] = 1
  BY DEF Store, Counting, LineInv, PixelDone
<1> PICK p \in 0 .. Last : p = pixel[w]
  BY <1>2
<1> PICK y \in Line : y = LineOf(p)
  BY PixelLine
<1>3. p \in LineOfPixels(y) /\ p \in Done(y) /\ p \notin Counted(y) /\ Counted(y) \subseteq LineOfPixels(y)
  BY <1>2, PixelLine DEF Done, Counted
<1>4. \A v \in Worker \ {w} : Counting(v) \/ pc[v] = "eol" => LineOf(pixel[v]) # y
  <2>1. OneCpuPerLine
    BY OneThreadToALine DEF LineInv
  <2>2. AtPixel(w) /\ \A v \in Worker : Counting(v) \/ pc[v] = "eol" => AtPixel(v)
    BY <1>2 DEF AtPixel, Counting
  <2> QED
    BY <1>2, <2>1, <2>2 DEF OneCpuPerLine
<1>5. /\ Cardinality(Counted(y) \cup {p}) = Cardinality(Counted(y)) + 1
      /\ Cardinality(Counted(y)) \in 0 .. (Width - 1)
  BY <1>3, OneMore
<1>6. sl_left[y] \in 1 .. Width /\ seen[w] = sl_left[y]
  BY <1>2, <1>5 DEF LineInv, LeftToCount, SeenIsLeft, ImageTyped
<1>7. /\ seen' = seen /\ size' = size /\ file' = file /\ times' = times /\ sl_buf' = sl_buf
      /\ sl_left' = [sl_left EXCEPT ![y] = seen[w] - 1]
      /\ \A v \in Worker \ {w} : pc'[v] = pc[v] /\ pixel'[v] = pixel[v]
  BY DEF Store, Goto, Forward, BlockInv, Typed
<1>8. /\ sl_left' \in [Line -> 0 .. Width] /\ sl_left'[y] = sl_left[y] - 1
      /\ \A z \in Line : z # y => sl_left'[z] = sl_left[z]
  <2>1. sl_left \in [Line -> 0 .. Width] /\ seen[w] - 1 \in 0 .. Width
    BY <1>6 DEF LineInv, LinesTyped, ImageTyped
  <2> QED
    BY <1>6, <1>7, <2>1
<1>9. /\ sl_left'[y] = 0 => pc'[w] = "eol" /\ pixel'[w] = p
      /\ sl_left'[y] # 0 => pc'[w] = "loop"
  <2>1. seen[w] <= 1 <=> sl_left'[y] = 0
    BY <1>6, <1>8
  <2> QED
    BY <2>1 DEF Store, Goto, BlockInv, Typed
<1>10. \A z : Done(z)' = Done(z)
  BY <1>1, <1>7 DEF Done
<1>11. \A v \in Worker : Counting(v)' <=> Counting(v) /\ v # w
  BY <1>7, <1>9 DEF Counting
<1>12. /\ Counted(y)' = Counted(y) \cup {p}
       /\ \A z \in Line : z # y => Counted(z)' = Counted(z)
  <2>1. \A z : Counted(z)' = {q \in Done(z) : \A v \in Worker \ {w} : Counting(v) => pixel[v] # q}
    BY <1>7, <1>10, <1>11 DEF Counted
  <2>2. \A z : Counted(z) = {q \in Done(z) : q # p /\ \A v \in Worker \ {w} : Counting(v) => pixel[v] # q}
    BY <1>2 DEF Counted
  <2>3. \A v \in Worker \ {w} : Counting(v) => pixel[v] # p
    BY <1>4
  <2>4. \A z \in Line : z # y => p \notin Done(z)
    BY DEF Done, LineOfPixels
  <2>5. Counted(y)' = Counted(y) \cup {p}
    BY <1>3, <2>1, <2>2, <2>3
  <2>6. \A z \in Line : z # y => Counted(z)' = Counted(z)
    BY <2>1, <2>2, <2>4
  <2> QED
    BY <2>5, <2>6
<1>13. LinesTyped'
  BY <1>1, <1>7, <1>8 DEF LineInv, LinesTyped
<1>14. PixelDone'
  <2> SUFFICES ASSUME NEW v \in Worker
               PROVE  /\ Counting(v)' \/ pc'[v] = "eol" => pixel'[v] \in 0 .. Last
                      /\ Counting(v)' => times[pixel'[v]] = 1
    BY <1>1, <1>2, <1>7 DEF PixelDone
  <2>1. CASE v = w
    BY <1>8, <1>9, <1>11, <2>1
  <2>2. CASE v # w
    BY <1>7, <1>11, <2>2 DEF LineInv, PixelDone
  <2> QED
    BY <2>1, <2>2
<1>15. LeftToCount'
  <2> SUFFICES ASSUME NEW z \in Line PROVE sl_left'[z] = Width - Cardinality(Counted(z)')
    BY <1>1 DEF LeftToCount
  <2>1. CASE z = y
    <3>1. sl_left[y] = Width - Cardinality(Counted(y))
      BY DEF LineInv, LeftToCount
    <3>2. Cardinality(Counted(y)') = Cardinality(Counted(y)) + 1
      BY <1>5, <1>12
    <3> QED
      BY <1>5, <1>8, <2>1, <3>1, <3>2 DEF ImageTyped
  <2>2. CASE z # y
    BY <1>8, <1>12, <2>2 DEF LineInv, LeftToCount
  <2> QED
    BY <2>1, <2>2
<1>16. SeenIsLeft'
  <2> SUFFICES ASSUME NEW v \in Worker, pc'[v] = "store"
               PROVE  seen[v] = sl_left'[LineOf(pixel'[v])]
    BY <1>1, <1>7 DEF SeenIsLeft
  <2>1. v # w /\ pc[v] = "store" /\ pixel'[v] = pixel[v] /\ Counting(v)
    BY <1>7, <1>8, <1>9 DEF Counting
  <2>2. LineOf(pixel[v]) \in Line /\ LineOf(pixel[v]) # y
    BY <1>4, <2>1, PixelLine DEF LineInv, PixelDone
  <2> QED
    BY <1>8, <2>1, <2>2 DEF LineInv, SeenIsLeft
<1>17. EolWhenWhole'
  <2> SUFFICES ASSUME NEW v \in Worker, pc'[v] = "eol"
               PROVE  /\ sl_left'[LineOf(pixel'[v])] = 0
                      /\ \A u \in Worker \ {v} : pc'[u] = "eol" => LineOf(pixel'[u]) # LineOf(pixel'[v])
    BY <1>1 DEF EolWhenWhole, AtEol
  <2>1. \A u \in Worker \ {w} : pc'[u] = "eol" =>
           /\ pc[u] = "eol" /\ pixel'[u] = pixel[u] /\ LineOf(pixel[u]) # y
           /\ LineOf(pixel[u]) \in Line
    BY <1>4, <1>7, PixelLine DEF LineInv, PixelDone
  <2>2. pc'[w] = "eol" => LineOf(pixel'[w]) = y /\ sl_left'[y] = 0
    BY <1>8, <1>9
  <2>3. CASE v = w
    BY <2>1, <2>2, <2>3
  <2>4. CASE v # w
    <3>1. sl_left[LineOf(pixel[v])] = 0
      BY <2>1, <2>4 DEF LineInv, EolWhenWhole
    <3>2. \A u \in Worker \ {v, w} : pc[u] = "eol" => LineOf(pixel[u]) # LineOf(pixel[v])
      BY <2>1, <2>4 DEF LineInv, EolWhenWhole, AtEol
    <3> QED
      BY <1>8, <2>1, <2>2, <2>4, <3>1, <3>2
  <2> QED
    BY <2>3, <2>4
<1>18. StoredOrWritten'
  <2> SUFFICES ASSUME NEW z \in Line
               PROVE  \/ /\ file[z] = NotWritten /\ sl_buf[z] = Done(z)
                         /\ sl_left'[z] = 0 => \E v \in Worker : AtEol(v, z)'
                      \/ /\ file[z] = Done(z) /\ sl_left'[z] = 0
                         /\ \A v \in Worker : ~AtEol(v, z)'
    BY <1>1, <1>7, <1>10 DEF StoredOrWritten, NotWritten
  <2>1. CASE z = y
    <3>1. file[y] = NotWritten /\ sl_buf[y] = Done(y)
      BY <1>6 DEF LineInv, StoredOrWritten
    <3>2. sl_left'[y] = 0 => AtEol(w, y)'
      BY <1>1, <1>9 DEF AtEol
    <3> QED
      BY <2>1, <3>1, <3>2
  <2>2. CASE z # y
    <3>1. \A v \in Worker : AtEol(v, z)' <=> AtEol(v, z)
      BY <1>1, <1>2, <1>7, <1>8, <1>9, <2>2 DEF AtEol
    <3>2. sl_left'[z] = sl_left[z]
      BY <1>8, <2>2
    <3> QED
      BY <3>1, <3>2, Zenon DEF LineInv, StoredOrWritten
  <2> QED
    BY <2>1, <2>2
<1> QED
  BY <1>13, <1>14, <1>15, <1>16, <1>17, <1>18 DEF LineInv

LEMMA NextLines ==
  ASSUME Blocks, ImageTyped, LinesKnown, LineInv, [Next]_vars
  PROVE  ImageTyped' /\ LinesKnown' /\ LineInv'
<1>1. run' = run
  BY DEF Next, Returned, vars
<1>2. ImageTyped' /\ LinesKnown'
  BY <1>1, SameImage DEF ImageTyped
<1>3. CASE UNCHANGED vars
  <2>1. LinesApart'
    BY <1>1, <1>3, SameImage DEF vars, shared, local, LineInv, LinesApart, BlockIsLine, Multiple, Holding, High, Spot, Position, SameRun
  <2>2. UNCHANGED <<lines, times, size, seen, pc, pixel>>
    BY <1>3 DEF vars, local
  <2>3. seen' \in [Worker -> 0 .. Width]
    BY <2>2 DEF LineInv, LinesTyped
  <2>4. \A w \in Worker : /\ Counting(w)' <=> Counting(w)
                          /\ (pc[w] = "eol")' <=> (pc[w] = "eol")
                          /\ Counting(w) \/ pc[w] = "eol" => pixel'[w] = pixel[w]
                          /\ pc'[w] = "store" => seen'[w] = sl_left[LineOf(pixel[w])]
    BY <2>2 DEF LineInv, SeenIsLeft, Counting
  <2> QED
    BY <1>1, <1>2, <2>1, <2>2, <2>3, <2>4, LinesLeftAlone
<1>4. CASE \E w \in Worker : Step(w)
  <2> PICK w \in Worker : Step(w)
    BY <1>4
  <2>1. LinesApart'
    BY <1>1, ApartStep DEF Blocks, LineInv
  <2>2. ~Size(w) /\ ~SetChunk(w)
    BY DEF Size, SetChunk, Blocks, BlockInv, Typed
  <2>3. RunTyped /\ BlockInv
    BY DEF Blocks
  <2>4. CASE \/ Look(w) \/ Take(w) \/ Bounds(w) \/ BlockDone(w) \/ NoMore(w) \/ Count(w)
    BY <1>1, <1>2, <2>1, <2>3, <2>4, QuietLines
  <2>5. CASE DoPixel(w)
    BY <1>1, <1>2, <2>1, <2>3, <2>5, DoPixelLines
  <2>6. CASE Store(w)
    BY <1>1, <1>2, <2>1, <2>3, <2>6, StoreLines
  <2>7. CASE WriteLine(w)
    BY <1>1, <1>2, <2>1, <2>3, <2>7, WriteLineLines
  <2> QED
    BY <2>2, <2>4, <2>5, <2>6, <2>7 DEF Step
<1> QED
  BY <1>2, <1>3, <1>4 DEF Next, Returned

LinesInOrder == Blocks /\ ImageTyped /\ LinesKnown /\ LineInv
(* What a run keeps of the lines, with the lock and without.                *)
THEOREM KeepsLines == Spec /\ LinesKnown => []LinesInOrder
<1>1. Init => RunTyped /\ ImageTyped
  BY RunsAssumption DEF Init, RunTyped, ImageTyped, First, Last, TopDown, Width
<1>2. Init /\ LinesKnown => LinesInOrder
  <2>1. ASSUME Init, LinesKnown PROVE LinesInOrder
    <3>1. RunTyped /\ ImageTyped /\ ChunkKnown
      BY <1>1, <2>1 DEF LinesKnown
    <3>2. BlockInv
      BY <2>1, <3>1, InitBlocks
    <3> QED
      BY <2>1, <3>1, <3>2, InitLines DEF LinesInOrder, Blocks
  <2> QED
    BY <2>1
<1>3. LinesInOrder /\ [Next]_vars => LinesInOrder'
  BY NextBlocks, NextLines DEF LinesInOrder, Blocks
<1> QED
  BY <1>2, <1>3, PTL DEF Spec

(* Every variable has its type; sl_left never falls below zero, although it *)
(* is also counted down by threads that do not hold RT_SEM_RESULTS.         *)
THEOREM PixelTypeCorrect == Spec /\ LinesKnown => []TypeOK
<1>1. Spec => [](run \in Runs)
  <2>1. Init => run \in Runs
    BY DEF Init
  <2>2. run \in Runs /\ [Next]_vars => (run \in Runs)'
    BY DEF Next, Returned, vars
  <2> QED
    BY <2>1, <2>2, PTL DEF Spec
<1>2. run \in Runs /\ LinesInOrder => TypeOK
  <2> SUFFICES ASSUME run \in Runs, LinesInOrder PROVE TypeOK
    OBVIOUS
  <2>1. /\ cur_pixel \in Nat /\ chunk \in Nat /\ start \in [Worker -> Nat]
        /\ pixel \in [Worker -> Int] /\ to \in [Worker -> Int] /\ times \in [0 .. Last -> Nat]
    BY DEF LinesInOrder, Blocks, BlockInv, Typed, ChunkKnown
  <2>2. pc \in [Worker -> {"look", "size", "set", "take", "bounds", "loop",
                           "count", "store", "eol", "done"}]
    BY DEF LinesInOrder, Blocks, BlockInv, Typed
  <2> QED
    BY <2>1, <2>2 DEF TypeOK, LinesInOrder, LineInv, LinesTyped
<1> QED
  BY <1>1, <1>2, KeepsLines, PTL

(* What BUFMODE_SCANLINE takes for granted when it counts without the       *)
(* semaphore: view_2init chose it only where a block is a line, and so no   *)
(* two threads are ever on one line, whatever the image.                    *)
THEOREM OneThreadPerLine == Spec /\ LinesKnown => []OneCpuPerLine
<1>1. LinesInOrder => OneCpuPerLine
  BY OneThreadToALine DEF LinesInOrder, Blocks, LineInv
<1> QED
  BY <1>1, KeepsLines, PTL

(* do_eol is called for a line when all its pixels are there and never      *)
(* before, however the threads divide the line.                             *)
THEOREM LinesAreWhole == Spec /\ LinesKnown => []LinesWhole
<1>1. LinesInOrder => LinesWhole
  <2> SUFFICES ASSUME LinesInOrder, NEW y \in WholeLines
               PROVE  file[y] \in {NotWritten, LineOfPixels(y)}
    BY DEF LinesWhole
  <2>1. y \in Line
    BY DEF WholeLines
  <2>2. CASE file[y] = NotWritten
    BY <2>2
  <2>3. CASE file[y] = Done(y) /\ sl_left[y] = 0
    BY <2>1, <2>3, NoneToCome DEF LinesInOrder, Blocks, LineInv
  <2> QED
    BY <2>1, <2>2, <2>3 DEF LinesInOrder, LineInv, StoredOrWritten
<1> QED
  BY <1>1, KeepsLines, PTL

(* When do_run returns, every line it has filled is in the image: the last  *)
(* pixel of a line is noticed by exactly one thread.                        *)
THEOREM LinesAreWritten == Spec /\ LinesKnown => []LinesWritten
<1>1. LinesInOrder /\ RunComputed => LinesWritten
  <2> SUFFICES ASSUME LinesInOrder, RunComputed, AllReturned, NEW y \in WholeLines
               PROVE  file[y] = LineOfPixels(y)
    BY DEF LinesWritten
  <2>1. y \in Line /\ LineOfPixels(y) \subseteq Pixel /\ Cardinality(LineOfPixels(y)) = Width
    BY DEF WholeLines
  <2>2. \A p \in LineOfPixels(y) : times[p] = 1
    BY <2>1 DEF RunComputed, LineOfPixels
  <2>3. Done(y) = LineOfPixels(y)
    BY <2>2 DEF Done
  <2>4. Counted(y) = LineOfPixels(y)
    BY <2>3 DEF Counted, Counting, AllReturned
  <2>5. sl_left[y] = 0
    BY <2>1, <2>4 DEF LinesInOrder, LineInv, LeftToCount, ImageTyped
  <2>6. \A w \in Worker : ~AtEol(w, y)
    BY DEF AtEol, AllReturned
  <2> QED
    BY <2>1, <2>3, <2>5, <2>6, Zenon DEF LinesInOrder, LineInv, StoredOrWritten
<1>2. LinesKnown => ChunkKnown
  BY DEF LinesKnown
<1> QED
  BY <1>1, <1>2, KeepsLines, RunIsComputed, PTL
=============================================================================
