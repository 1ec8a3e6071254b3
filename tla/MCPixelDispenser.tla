-------------------------- MODULE MCPixelDispenser --------------------------
(* Small instances of PixelDispenser for TLC.                               *)
EXTENDS PixelDispenser

Run(last, width, left) ==
    [first |-> 0, last |-> last, width |-> width, height |-> (last + 1) \div width,
     chunk |-> left, samples |-> 1, topDown |-> FALSE, accumulate |-> FALSE]

\* A line to a thread and a chunk from the run before, both from the top down
\* and from the bottom; no chunk yet, in an image where every thread finds the same.
MCRuns == {Run(15, 2, 0), Run(11, 4, 3), Run(11, 4, 0),
           [Run(15, 2, 0) EXCEPT !.topDown = TRUE],
           [Run(11, 4, 3) EXCEPT !.topDown = TRUE]}

\* No chunk yet, and enough rays for two sizes.
RaceRuns == {[Run(19, 20, 0) EXCEPT !.samples = 16]}

\* rt -t -b: one pixel, counted from the top.
PixelRuns == {[Run(7, 4, 0) EXCEPT !.first = 5, !.last = 5, !.topDown = TRUE]}

\* Several samples averaged: lines are counted without the semaphore.
AveragedRuns == {[Run(3, 4, 1) EXCEPT !.accumulate = TRUE]}
=============================================================================
