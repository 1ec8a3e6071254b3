# Verification of concurrent and failing parts of BRL-CAD

TLA+ models of four parts of BRL-CAD, with the TLC runs that check them and the
TLAPS proofs of their central invariants:

- the distributed renderer: *remrt*(1), the dispatcher that farms a ray-traced
  image or animation out to *rtsrv*(1) workers, and its restart from the files
  it left;
- the transport under it: libpkg, which carries whole messages over a byte stream;
- the pixel dispenser of one renderer: the threads of *rt*(1) that share a run;
- the storage of a geometry database: the free map of librt, the calls that move
  objects about in the file, and the scan that rebuilds both.

Paths below are relative to `src/brlcad/src/` unless they say otherwise.

BRL-CAD is mostly sequential numeric geometry. These are the places where the
repository has protocols, unreliable peers, timeouts, threads or crash recovery,
and where a mistake is silent: a hole in an image that is write-protected as
finished, a record inside another, a database whose objects are out of reach.

## 1. Inventory

| component | state | operations | hard behaviour | what makes it correct |
|---|---|---|---|---|
| **remrt** dispatcher (`remrt/remrt.c`) | frames with their list of spans still to do (`fr_todo`), output files, server slots with state, assignment and current frame, counters, allocation method | one thread: `start_servers`, `schedule`, `check_input`; handlers `ph_*`; commands `cd_*` | servers lost in any state, sends that fail half-way through `task_server`, late and wrong answers, timeouts, disk errors, commands of one-shot clients | no pixel lost, none given out twice, finished means complete, the job ends |
| **remrt** restart | the output files and their protection | `create_outputfilename`, `scan_frame_for_finished_pixels`, `list_remove` | killed between writes or inside one, between any two bytes | the pixels a file shows black are queued again, once, and no finished one; nothing else is lost |
| **rtsrv** worker (`remrt/rtsrv.c`) | queue of received work, `seen_dirbuild`, `seen_gettrees`, `seen_matrix`, the view | immediate handlers (`ph_dirbuild`, `ph_restart`) and queued ones (`ph_matrix`, `ph_gettrees`, `ph_lines`) | restart overtakes the queue, exits, hangs | lines are rendered under their own frame's view; the answer is the one expected |
| `remrt/ihost.c`, `auth.h`, `tls_wrap.h` | host table, session token, TLS session | lookups, verification | - | their outcomes are choices of the dispatcher model |
| **libpkg** (`libpkg/pkg.c`) | stream buffer, input buffer, partial message | `pkg_send`, `pkg_stream`, `pkg_flush`, `pkg_close`, `pkg_suckin`, `pkg_process`, `pkg_waitfor` | partial reads and writes, input read while sending, buffers that move and grow | messages arrive whole, in order, once; none waits unseen |
| **rt** pixel dispenser (`rt/worker.c`, `rt/view.c`) | `cur_pixel`, `per_processor_chunk`, the line buffers `scanline[]` | `do_run`, `worker`, `view_2init`, `view_pixel` | threads share the chunk size before it is set; lines are counted with and without the semaphore | each pixel is computed once, each line written once it is whole |
| **librt** free map (`librt/memalloc.c`) | ordered list of free intervals | `rt_memalloc`, `rt_memalloc_nosplit`, `rt_memfree` | merging and splitting, long sequences of calls, double release | free intervals are disjoint and merged, no live storage is handed out |
| **librt** database storage (`librt/db5_alloc.c`, `db_alloc.c`, `db5_io.c`, `db_io.c`) | the free map, the end of the file, the records in it | `db5_realloc`, `db_delete`, `db_put_external5`, `db_write` | a call is several writes; one fails, or the process stops between two | the objects no call is about survive whole, and storage is accounted for |
| **librt** directory (`db5_scan.c`, `db_lookup.c`, `db_open.c`) | entries with address and length | the scan on opening, add, delete; rename | files that earlier failures left; duplicate names | the scan finds what the calls had in memory |
| **librt** object cache (`cache.c`) | a directory of files shared by processes | publish, read | concurrent processes | a reader sees a whole object |
| **libbu** concurrency (`parallel.c`, `semaphore.c`, `mappedfile.c`, ...) | thread table, reference counts | acquire/release, map/unmap | threads | - |
| `fbserv`, `adrt` | framebuffer, client list | one request per message; frame distribution | clients come and go | - |
| geometry (`librt/bool.c`, primitives, `libbn`, `libbg`, `libnmg`, `libbrep`, `liboptical`, ...), GUIs and converters | floating-point data; screens; files | - | numeric, not protocol | out of a finite-state checker's reach |

Interaction: `remrt` and each `rtsrv` exchange the messages of
`remrt/protocol.h` over one libpkg connection. The worker sends `MSG_VERSION`;
the dispatcher answers `MSG_DIRBUILD`, the worker `MSG_DIRBUILD_REPLY`; for a
new frame the dispatcher sends `MSG_MATRIX` and, if the trees must be loaded,
`MSG_GETTREES` (answered by `MSG_GETTREES_REPLY`); then `MSG_LINES` with a span
of pixels, answered by `MSG_PIXELS`. A one-shot client sends `MSG_CMD`.
All state of the dispatcher belongs to one thread; concurrency comes from the
network, the workers and the clock. `RenderFarm` takes from libpkg that each
direction of a connection hands over whole messages in order until it breaks;
`Pkg` is proved to give that, if no write of `pkg_send` is cut short. Inside a worker, as inside `rt`, a span of pixels
is computed by `do_run`: the pixel dispenser. The worker reads the database with
`db_dirbuild` when it is told to; what it finds is the subject of `Database`.

The hazards of this code, each at its line and with the properties that would
catch it, are in `PROJECT.json`.

## 2. Modules

### The renderer

| module | models | correspondence |
|---|---|---|
| `Spans` | `struct list`, the split in `task_server`, `list_remove` | a span is a record, a `bu_list` of spans a sequence |
| `RemrtProtocol` | `protocol.h`: sizes of the job, the messages | payloads are reduced to span, frame and the view a result was rendered under |
| `Remrt` | the dispatcher's state and every handler | below |
| `RemrtEnv` | the dispatcher against *any* network and workers | `Faults` and `Commands` choose what may go wrong; the properties |
| `RemrtResume` | a kill of the dispatcher and the next start on the files it left | `Crash`; `Scan` is the loop over the pixels of a file, `Queue` the one over the frames; `torn` and `size` are what a file holds besides whole pixels: parts of pixels that do not look black, and its length |
| `RtSrv` | the worker and the two directions of its connection | `WorkHead` is `queue`, `seen_*` are `built`, `trees`, `view # NoFrame` |
| `RenderFarm` | dispatcher and workers together, with fairness | composes `Remrt` and `RtSrv`: what a dispatcher step `sent` is appended to `down` |
| `WorkPool` | the abstract promise of the work distribution | units of work wait, are out with one worker, or are stored |
| `MCRemrtEnv`, `MCRemrtResume`, `MCRenderFarm` | small instances for TLC | |
| `RemrtProofs`, `RemrtRefinement`, `FarmProofs` | proofs: the dispatcher's steps; what follows of it, the pool and restarts; the farm | section 5 |

How `Remrt` reads next to `remrt.c`:

- The loop `start_servers` / `schedule` / `check_input` of `do_work` is cut into
  one action per iteration of its inner loops. `phase` (start, conn, frames,
  assign, input, cmd, restart, exit, bomb), `at` (the slot) and `fpos` (the
  frame) are the program counter; `nxt`, `again` are `nxt_frame` and
  `another_pass`. Nothing else runs between the actions of one pass, because
  the dispatcher is one thread and `pkg_send` reads but does not process input;
  the cut only makes each handler an action that can be read beside the code.
- `task_server` is one action per outcome: `TaskTardy`, `TaskRefused` (its
  answers 0, 1, 2, 3), `TaskGettrees`, `TaskAssign`, and the two ways a send
  inside it fails, `TaskLinesFail` and `TaskMatrixFail`.
- `drop_server` is `DropTimes(s, n)`: n calls in a row, because a handler whose
  two sends both fail calls it twice and the second call finds another state.
- `check_input` hands over one message per step, in any order over the slots:
  the order of its slot loop is one of them.
- `sr_work` never holds more than `N_SERVER_ASSIGNMENTS` = 1 span, so it is a
  span or `NoWork`.
- The size of a lump (`assignment_time`, `sr_w_elapsed`, the caps) is any number
  up to `MaxLump`: the properties do not depend on which.

Left out of the dispatcher: interactive mode and the commands only it needs
(`load`, `mat`, `movie`, `wait`, `detach`, `exit`), the framebuffer, statistics, the hold
and resume flags of hosts, `restart` of a single host (`restart` of all is
modelled), `after_cmd`. It is assumed that write protection is effective (a
dispatcher run by root would ignore mode 0444), and that a pixel which is rendered again
comes out the same, so that writing part of it over the whole changes nothing. A file of
an earlier job may hold torn pixels too (`ResumeInit`).

### The transport

| module | models | correspondence |
|---|---|---|
| `MsgChannel` | what libpkg promises of one direction | a queue of messages; the connection breaks and loses the last of them |
| `Pkg` | a sender that calls `pkg_send`, `pkg_stream`, `pkg_flush`, `pkg_close`, the stream, a receiver with the main loop of rtsrv | `stream` is `pkc_stream` up to `pkc_strpos`; `inbuf`, `incur`, `inlen` are `pkc_inbuf`, `pkc_incur`, `pkc_inlen`; `got` and `left` the message being read and `pkc_left` |
| `MCPkg` | a small instance | |
| `PkgProofs` | proofs | section 5 |

Data is reduced to units that know their message and their place in it: a
message that is cut, or that lies inside another, is not `Whole`. A message
whose type the receiver has no handler for is `known = FALSE`.
`SendQueued` is the branch of `pkg_send` that writes a small message together
with what is queued, `SendDirect` the one that flushes first and writes then;
`Refuse` a `pkg_send` that fails before or within the message. `Suckin` is
`pkg_suckin` with its moving and doubling of the buffer; `Checkin` is
`_pkg_checkin` inside a `pkg_send` of the receiver's, which reads input and does
not act on it. `at` follows the loop of rtsrv: process, `select`, process, one
piece of work.

Left out: `pkg_waitfor` and `pkg_bwaitfor` (the remote framebuffer uses them; a
truncated `pkg_waitfor` leaves `pkc_buf` set and the next call stops at "buffer
clash"), `pkg_2send` (`pkg_send` with two buffers), the skipping of noise before
a magic number and the cut-off after 500 such errors, opening and accepting, TLS,
a flush inside `pkg_stream` that fails (its result is ignored), and two peers
that both block in a write.

### The pixel dispenser

| module | models | correspondence |
|---|---|---|
| `PixelDispenser` | `do_run`, `worker`, and the line buffers of `view_pixel` | `pc` is where a thread is in `worker`; `size`, `start`, `pixel`, `to` its locals; `sl_left`, `sl_buf` a line's `struct scanline` |
| `MCPixelDispenser` | the runs for TLC | each is a record: the pixels, the image, the chunk left over, the flags |
| `PixelProofs` | proofs | section 5 |

The test of `per_processor_chunk`, the computation of a size and the store of it
are three steps (only the store is in the critical section); so are taking a
block and computing its bounds from the chunk again. `--(slp->sl_left)` is one
step under the semaphore, a read and a write without. What a pixel is, is left
out; `times` counts how often each has been computed. Also left out:
`random_mode` (which by its comment does not end), the incremental and the
unbuffered modes, `sub_grid_mode` (only a rectangle of the image is computed:
`do_pixel` returns early outside, and the lines count its width alone),
`reproject_worker`. `stop_worker` is tested but set nowhere.

### The database

| module | models | correspondence |
|---|---|---|
| `FreeMap` | `rt_memalloc`, `rt_memalloc_nosplit`, `rt_memfree` as operators | the ordered list is the set of its intervals; `Before` and `After` are the two elements `rt_memfree` stops between |
| `MemMap` | a pool of units under these calls, wrong ones too | |
| `Storage` | one process's view: directory entries, free map, end of file, and the `db_write` calls each call makes | `op` is the call in progress and where it is, `writes` what it still has to write before it goes on |
| `Database` | the file: what each write leaves in it, and the scan on opening | a file is a sequence of units; `Scan`, `Directory`, `Strays`, `FreeStorage`, `EofFound` are `db5_scan` with its handler |
| `MCDatabase` | a small instance | |
| `FreeMapProofs`, `MemMapProofs`, `DatabaseProofs` | proofs | section 5 |

A unit is eight bytes, as every size in the file is a multiple of eight. A unit
of a record knows the record's name (or `Free`), its length if it is the first,
and whether its last byte is the trailing magic number; that is what the scan
looks at. The writes of one call, `db5_write_free` included, are in the order of
the source; each may fail after any prefix, and the process may stop after any
prefix. `Storage` leaves open what a scan of the file gives (any well-formed
directory and map, or a read-only database); `Database` computes it, and is
checked and proved to implement `Storage`. The scan is a recursive function of the
file (`Walk`): from each unit, what the scan finds from there on. It adds the free
records to the map from the last to the first, the code from the first to the last;
they do not overlap, and the map of a set of units is one (`SameUnitsSameMap`).

Left out: version 4 records and databases in memory, the temporary names
(`A_name`) that a second record of a name gets (`strays` keeps its storage), a
header cut short at the end of the file otherwise than as an end of file, calls
that overlap in one process, a second process that has the file open (the
format's description asks for a check of the file's end, which the code does not
make), and `fflush` failing behind a `fwrite` that only filled the buffer, which
`db_write` does not look at.

## 3. Runs

| run | instance | question | states |
|---|---|---|---|
| `dispatcher` | 2 slots, 2 frames x 2 pixels, lumps up to 2, one local server | all faults but failing `MSG_MATRIX` and failing `open`, command stop: the safety properties and the refinement of `WorkPool` | 710,739 |
| `commands` | 2 slots, 1 frame x 2 pixels | all faults, all commands, kills at every point: what holds even where work may be lost | 1,627,486 |
| `resume` | 1 slot, 2 frames x 3 pixels, any old files of up to 2 pixels | kills at every point, all faults and commands after which the code puts work back: what a new dispatcher queues, and what is lost | 453,659 |
| `farm` | 2 workers, 1 frame x 2 pixels, one fault, fairness | the job ends | 169,421 |
| `farm_faults` | 2 workers, 2 frames x 2 pixels, one needing its trees, one fault of any kind | dispatcher and workers understand each other | 1,079,236 |
| `memmap` | a pool of 9 units | any releases and any allocations, the wrong ones refused | 512 |
| `database` | 3 names, records of 1 and 3 units, 8 units of file; the file found is empty, has one object, a second record of a name, free records that are not merged, or a last record cut off | every call, with writes failing and the process stopping anywhere, and any number of restarts; the refinement of `Storage` | 713,185 |
| `pixels` | 2 threads; five runs of 12 and 16 pixels | every mode of taking blocks and of counting lines with the semaphore, and one without, from either end of the image; all threads return | 39,974 |
| `transport` | 3 messages of lengths 0, 1, 3; a stream buffer of 8 | cuts, short flushes and breaks anywhere; the refinement of `MsgChannel`; all that arrives is handled | 485,075 |
| `restart_loses_work`, `hung_server`, `chunk_race` | smallest instances | violations, section 4 | |

The properties of the renderer:

- `NoPixelLost`, `NoWorkStranded`, `FinishedComplete`: work survives the loss of
  its server, and a frame is declared finished only with all its pixels on disk.
- `NoDoubleAssignment`: spans waiting and spans assigned never overlap. It holds
  with restart, reset and every failure admitted.
- `WorkHasView`, `MovieDedicates`: a server works on the frame it was last sent
  the matrix of; under the movie allocation no two servers share a frame.
- `StopHolds`: nothing is sent out between a stop (a command or a disk error)
  and the next go.
- `RestartResumes`: after a restart the pixels that the files show black wait, each
  once, and none that is stored whole. `OnlyTornMissing`: over kills and full disks
  the only pixels that are neither stored nor waiting nor assigned are those a
  `write()` stored in part; that there are such, `torn_pixel` shows.
  `FinishedUntouched`: finished files are never written again. `SpansInclusive`: no
  span of `fr_todo` ends before it starts.
- `RenderedWithOwnView`, `NoLinesIgnored`, `AnswersExpected`: the conversation
  with the workers never crosses, whoever is dropped, restarted or slow.
- `WorkUnderWay`: an assignment never evaporates. While the worker is there, the span
  its slot waits for is on its way to it, in its queue, or on its way back: `ph_lines`
  passes over lines without an answer, and the last spans of a job know no timeout.
- `JobEnds`: the dispatcher terminates.
- `ImplementsPool`: every step of the dispatcher is a step of `WorkPool` or
  leaves the work alone. The refinement mapping is the `Pool` instance of
  `RemrtEnv`: waiting units are the pixels of `fr_todo`, a worker's units those
  of `sr_work`, stored units the pixels on disk.

The properties of the other parts:

- `Partition`, `RefusesExactly`: every unit of a pool is free or handed out,
  never both, free blocks are merged, and looking at two neighbours is enough to
  refuse exactly the releases that are wrong.
- `StorageAccounted`: between calls the directory and the free map are the file,
  no unit lost or held twice. `FileTellsAll`: a scan of the file would give the
  same. `OthersStayWhole`, `OthersStayReachable`, `WritesSpareOthers`: no write,
  failure or stop harms an object that no call is about; wherever the process
  stops the next scan reaches all of them, unless a block was being cut in two,
  and then those before the block. (While a block is cut there are two free
  records to be written, and between the two writes the file has a gap.)
  `FailedFileLeftAlone`: after a failed write nothing is written until the file
  is opened again. `StorageSpec`: the scan of the file implements the abstract
  opening of `Storage`.
- `EachOnce`, `RunComputed`: no pixel twice, all of the run and no other.
  `LinesWhole`, `LinesWritten`: a line is written when it is whole and not
  otherwise, and when the threads are back all are written. `OneCpuPerLine`: what
  the mode without the semaphore relies on. `AllReturn`: every thread ends.
- `ChannelSpec`: libpkg implements `MsgChannel` (the queue is the whole messages
  in the message being read, the input buffer, the stream and the stream buffer).
  `NoMessageWaits`, `AllHandled`: input that was read while sending is handed over
  before the receiver waits for more, and everything that arrives is handed over.

Bounds of the renderer. Two slots are enough for every interaction the code has: it never
relates more than two servers at a time (a slot that loses a span and one that
gets it, two that compete for a frame). Two frames make a server change frames,
finish out of order and be refused; two or three pixels with lumps up to two
give whole, split and requeued spans, and three give a split in the middle
(`list_remove`). `torn_pixel` takes two servers: only if later pixels are
in the file already is a torn one not cut off by its end. An old file of `resume` lacks a
pixel at least; a full one is what the dispatcher itself leaves. Connections return without bound in `RemrtEnv`; in
`RenderFarm` `MaxFaults` bounds exits, hangs, early timeouts and restarts, and
`MaxPipes` the simultaneous local servers. The slots are not interchangeable (the
scans go by slot number), so no symmetry is used.

Bounds of the other parts. In `memmap` nine units hold five blocks and four gaps,
every arrangement around a release. In `database`, `Large` = 2 makes a record of
3 units one that is written as header and trailer and one of 1 unit one that is
written whole (in the code, 8192 bytes); 8 units hold three objects and the gaps
that make, merge and fill. `MaxEof` bounds growth in the guards of the puts
alone. In `pixels` the smaller image lines (2 and 4 pixels, 8 and 3 of them)
stand on both sides of the threshold `npsw <= height/4`; chunks of 3 pixels do
not divide a line of 4, so lines are shared and a block runs over the end. The
three values `Hdr` = 2, `StreamLen` = 8, `Slack` = 2 of `transport` keep the
order of the code's 8, 32 K and 80 bytes; lengths 0, 1, 3 are a message without
data, one that is queued (`MaxQLen` = 1) and one that is not; three messages
fill the stream buffer to its flush without coming within a header of its end
(the fourth does: `stream_room` below). Only flushes that the caller asks for
may be cut short in this run.

Fairness of the renderer (`FarmFairness`). Weak for the dispatcher's thread: `check_input`
returns after 30 seconds at most. Strong for the starting of servers (enabled
again in every round: `start_servers` runs every ten minutes), for reading a
message or an end of file that stays available (`check_input` looks at all
connections each round), and for the timeouts of a hung worker that are due. Weak
for a worker that is up. Nothing is assumed of workers that exit or hang.

Fairness of the other parts. `PixelDispenser`: weak for each thread; they are
threads of the operating system, and no step of theirs waits for another but for
a semaphore that is held for one step. `Pkg`: weak for the receiver, a process
with one loop; none for the sender, which may stop for ever. No liveness is
claimed of the database.

Deadlock is checked everywhere; what has returned or ended stutters by an
explicit action (`Over`, `FarmOver`, `Returned`), and a database can always be
closed or opened.

## 4. Findings

Each is a run that ends in a violation, quoted with its lines in `PROJECT.json`.

1. `restart_loses_work`: **restart loses work.** A busy worker that is told to
   restart closes its connection in state RESTART; `drop_server` requeues only
   from READY and NEED_TREE. Its frame can be declared done with a hole.
2. `hung_server`: **a hung worker with the last span blocks the job.** The tardy
   check is reached only for frames whose `fr_todo` is not empty.
3. `chunk_race`: **threads that find no chunk size set it under each other.** A
   thread whose block was taken with the old size computes its bounds with the
   new one: pixels that nobody computes, or that two do.

More counterexamples, by configurations kept beside the others and run by hand
(`tlc -config <name>.cfg <module>`):

| configuration | module | violated | what happens |
|---|---|---|---|
| `matrix_loses_work` | `MCRenderFarm` | `WorkReassigned` | `task_server` ignores that `send_matrix` has dropped the server, and assigns a span to the slot |
| `torn_pixel` | `MCRemrtResume` | `NoPixelLost` | `write()` counts bytes: a kill (or a full disk before a restart) may leave a part of a pixel, which is not black; if later pixels are in the file the next dispatcher takes it for finished, and it is never rendered |
| `pipe_count` | `MCRenderFarm` | `PipesCounted` | `n_pipe_servers` is decremented twice per local server |
| `larger_file` | `MCRemrtResume` | `SpansInclusive` | an output file larger than the image leaves a span that ends before it starts |
| `kill_leaves_data` | `MCDatabase` | `PositivelyErased` | `db_delete` of a large object overwrites its first bytes and its last; the rest stays in the file |
| `new_space_unwritten` | `MCDatabase` | `NewSpaceIsFreeObject` | storage that extends the file is not written as a free record first, as `db_io.h` says |
| `damaged_header` | `MCDatabase` | `ErrorIsNotEof` | a header with length zero in the middle of the file is taken for its end: the database is writable, and the rest of it is overwritten |
| `single_pixel` | `MCPixelDispenser` | `RunComputed` | one pixel (`rt -b`) from the top down: the pixel computed is another |
| `averaged_lines` | `MCPixelDispenser` | `LinesWritten` | when runs are averaged `sl_left` is counted down after the semaphore is released: a line may never be written |
| `short_flush` | `MCPkg` | `ChannelSpec` | `pkg_send` does not look whether its own flush was complete: its message lands inside another |
| `stream_room` | `MCPkg` | `TypeOK` | with less than a header left in the stream buffer the room is a wrapped `size_t`: more is queued than fits |

`restart_loses_work` and `matrix_loses_work` are why the runs `dispatcher`, `resume` and
`farm` leave out restart and the fault `matrix`, and the theorems on lost work assume
so: elsewhere they are admitted. `torn_pixel` is why the properties of restarts set torn
pixels aside. `hung_server` is why `farm` admits no hangs; `chunk_race` and
`single_pixel` are why the theorems on pixels assume a chunk size that is known
(`ChunkKnown`).

## 5. Proofs

### The renderer

For every number of slots, frames and pixels, every `MaxLump`, `MaxPipes` and
`NeedTree`:

| theorem | module | statement |
|---|---|---|
| `TypeCorrect` | `RemrtRefinement` | `Spec => []TypeOK`, for any `Faults` and `Commands` |
| `NoPixelIsLost` | `RemrtRefinement` | `Spec => []NoPixelLost`, assuming `RequeuedOnly` |
| `NoWorkIsStranded` | `RemrtRefinement` | `Spec => []NoWorkStranded`, same assumption |
| `FinishedFramesComplete` | `RemrtRefinement` | `Spec => []FinishedComplete`, same assumption |
| `NoPixelTwice` | `RemrtRefinement` | `Spec => []NoDoubleAssignment`, for any `Faults` and `Commands` |
| `MovieIsDedicated` | `RemrtRefinement` | `Spec => []MovieDedicates`, assuming no `allocate` command |
| `ServersHaveTheView` | `RemrtRefinement` | `Spec => []WorkHasView`, assuming `NothingDiscarded` |
| `PoolImplemented` | `RemrtRefinement` | `Spec => ImplementsPool`, that is `Pool!PoolSpec`, same assumption |
| `StoppedMeansStopped` | `RemrtRefinement` | `Spec => StopHolds`, for any `Faults` and `Commands` |
| `PoolCorrect` | `RemrtRefinement` | `PoolSpec => [](Accounted /\ FinishedStored)` |
| `FarmInvariant` | `FarmProofs` | `FarmSpec => []FarmInv`: the types, and what every slot and its worker are in the middle of |
| `AnswersAreExpected` | `FarmProofs` | `FarmSpec => []AnswersExpected` |
| `RightView` | `FarmProofs` | `FarmSpec => []RenderedWithOwnView` |
| `NoLinesPassedOver` | `FarmProofs` | `FarmSpec => []NoLinesIgnored` |
| `NoWorkEvaporates` | `FarmProofs` | `FarmSpec => []WorkUnderWay` |
| `FarmFinishedComplete` | `FarmProofs` | `FarmSpec => []FinishedComplete`, assuming `~Restarts` and `~MatrixFails` |
| `FailedWorkReassigned` | `FarmProofs` | `FarmSpec => []WorkReassigned`, same assumption |

and, with a dispatcher that is killed at any point of its loop, even after any byte of
a `write()`, and started again on the files it left (`ResumeSpec`), any number of times:

| theorem | module | statement |
|---|---|---|
| `BlackPixelsWait` | `RemrtRefinement` | `ResumeSpec => RestartResumes`, assuming `FilePix <= NPix` |
| `StoppedResumed` | `RemrtRefinement` | `ResumeSpec => StopHolds`, same assumption |
| `NoEmptySpan` | `RemrtRefinement` | `ResumeSpec => []SpansInclusive`, same assumption |
| `FinishedStays` | `RemrtRefinement` | `ResumeSpec => FinishedUntouched`, same assumption |
| `NoPixelTwiceResumed` | `RemrtRefinement` | `ResumeSpec => []NoDoubleAssignment`, same assumption |
| `OnlyTornIsMissing` | `RemrtRefinement` | `ResumeSpec => [](OnlyTornMissing /\ NoWorkStranded)`, assuming `RequeuedOnly` as well |

`RequeuedOnly` is the assumption that neither a failing `MSG_MATRIX`, nor a
failing `open` of the output file, nor the restart command occurs. These are
exactly the three ways in which the code forgets a span (`restart_loses_work` and
`matrix_loses_work` are counterexamples); with any of them the invariants do not hold. Every other fault and command
is covered.

`TypeOK` already carries the one fact beyond mere types that the steps use: a
span queued in a frame's `fr_todo` is a span of that frame. What it lacks is
`CommandSlot`: while a command is being run, the slot it came from is a slot.
`TypeInv == TypeOK /\ CommandSlot` is inductive, and the proof has one lemma per
group of actions.

`NoPixelLost` alone is not inductive: a span in a slot that is closing would be
lost by the next connection. `SafeInv` adds `Slotted`: work is only ever held by
a READY or NEED_TREE server (`NoWorkStranded`), a slot without a connection is in
neither of those states (`FreeIdle`), a slot that has yet to say hello is NEW or
CLOSING (`HelloNew`), and no restart command is being run (`NotRestarting`).
The step cases are sorted by what they do to the work: leave it alone, drop a server, change only the
state of an idle slot, connect a client, close, finish a frame, assign, store, reset. Each
kind has a lemma, and every action is shown to be of a kind. With `NoPixelLost`, a
frame with empty `fr_todo` and no outstanding work is on disk in full when
`this_frame_done` says so, which is `FinishedComplete`.

That no pixel is out twice needs no assumption. `NoDoubleAssignment` speaks of the
frames on the list, and is not inductive: a server may hold a span of a frame that
has been discarded, and put it back. `Exclusive` is the same of every frame,
finished and discarded ones too, and it is inductive because every step is a
`WorkStep`: a server lets go of its span, which is put back or not; a lump of a list
goes to a server without work, or is cut off and put back; lists are emptied. `LumpApart`
and `DisjointPush` say that cutting a span and pushing one keep a list without overlap.

`MovieDedicates` is inductive with the types; `CurStep` lists what a step may do to
`sr_curframe` and the allocation method. `NothingDiscarded` is `RequeuedOnly` without
the reset command, which takes frames off the list under the servers that work on
them. Under it every step is a `ViewStep`: each server is without work, keeps
work, view and frame, or is given work of the frame it is moved to.

For `PoolImplemented` the refinement mapping is that of `RemrtEnv` (`Waiting`, `Out`,
`Stored` spell it out). Under `SafeInv`, `WorkHasView` and `Exclusive` every step
hands a lump out (`HandOut`; `Exclusive` makes what is left what the pool has left),
stores all a server has (`Store`), gives a server up with some of its pixels written
(`TakeBack`), declares a frame done (`Finish`; a stutter if it was), or leaves
the pixels of every list as they are, which includes a lump that was cut
off and put back. `WorkHasView` rules out the pixels of a frame that is no
longer listed, which `ph_pixels` would discard. With `PoolCorrect`, what the
pool promises holds of the dispatcher.

`StopHolds` rests on `AssignsRunning`: the thread is only in the part of the pass that
hands out work while `running` is on, because `EndFrames` is the only way in and every
handler that turns it off runs elsewhere.

The theorems of `FarmProofs` are about dispatcher and workers together, with any number
of workers and, but for the last two, with workers that hang, exit, are restarted or
miss a `MSG_MATRIX` at any time, without the bounds of the runs. What must be known is where each conversation is. `TalkInv` says it slot
by slot (`SlotOK`): a worker that still reads is in one stage of its life (`Started`,
`Building`, `Built`, `Loading` the trees of a frame, `Loaded`, `Rendering` a span), a
stage is what the worker has built, what answer is under way, and which messages it
has yet to act upon, and the state of the slot admits only some stages (`Talks`).
A worker that is told to restart may still have work queued in front of the
`MSG_RESTART`, or the restart may overtake it: hence `Ahead`, the messages of a
connection that come before the first restart. One answer at most is under way, and
it is the one its slot waits for unless the slot is being closed (`Answers`). From
this `AnswersExpected`, `RenderedWithOwnView`, `NoLinesIgnored` and `WorkUnderWay` can be read off. The
proof has one lemma per message and per kind of step of the dispatcher. `FarmFinishedComplete`
and `FailedWorkReassigned` reuse `SafeInv`: every step of `RenderFarm` is, for the
dispatcher, one of the steps that `RemrtRefinement` has sorted. Their two assumptions
are necessary: `restart_loses_work` and `matrix_loses_work` are the counterexamples.

The theorems on restarts assume that no output file is longer than the image, which holds
of every file a dispatcher of this job has written. It is needed: `larger_file` is the
counterexample. A restart computes by two loops, over the pixels of a file (`Scan`) and over
the frames (`Queue`), which the model has as recursive functions, and `TLAPS` knows these
as a `CHOOSE` only. `Iterates` shows that a value computed in N steps exists, `Climbs` that
what holds at 0 and is kept by each step holds at N (there is a least place where it would
not); so `QueueIs` and `ScanIs` turn both loops into what each round does. The invariant of
the scan (`ScanHolds`) is that the list is `Proper`: its spans do not end before they
start, and behind one span the next begins only after a gap. Then `list_remove` finds the one
span that holds a run of finished pixels and takes exactly these out (`ListRemoveTakes`), and
at the end of the file the list is the pixels that were black, each once (`ScannedMissing`).
`RestartResumes` follows, as the frames that are queued are the unprotected ones, and as a
pixel that is stored whole lies in the file (`SizeInv`), so that the scan sees it
(`ShownPart`).

A started dispatcher is not in the initial state of `Spec`, but in one of which the same can be
said: `Begins` has the idle slots and the cleared state, `Finds` what the scan gives, and
each inductive invariant is shown to hold of such a state (`CrashBegins`, `BeginsType`,
`BeginsMissing`). Between two starts every step is one of `Remrt`, and `TypeInv`,
`Exclusive` and `SafeInv` are kept as before. `SafeInv` is proved with a set of pixels
given up in every frame (`SafeBut(T)`): none for `NoPixelLost`, the torn ones for
`OnlyTornMissing`. Each step moves the files in one of two ways (`FilesMove`): not at all, or as
a `write()` does that stores some pixels whole and perhaps a part of the next
(`WriteStep`), after which what was torn is still torn or has become whole (`WriteAdds`).
A frame that is declared done keeps its torn pixels (`FinishedTorn`), as no later scan
sees its file. `FilledInv` (no span of a list or of a slot ends
before it starts) is kept because a lump is at least a pixel (`LumpFilled`). `FilesInv` says that no
frame is on the list twice and none on it is write-protected; a step writes only to the file
of a frame on the list, or protects one and takes it off (`FileStep`): hence
`FinishedUntouched`.

Every safety property of the `dispatcher`, `commands`, `resume`, `farm` and
`farm_faults` runs is proved. Only model-checked: liveness (`JobEnds`: fairness and ENABLED are not
supported by the prover).

### Database storage

For every set of names and sizes, any failures and any restarts:

| theorem | module | statement |
|---|---|---|
| `PoolIsPartitioned`, `RefusalIsExact` | `MemMapProofs` | `Spec => []Partition`, `Spec => []RefusesExactly`, for a pool of any size |
| `StorageTypeCorrect` | `DatabaseProofs` | `StorageSpec => []StorageTypeOK` |
| `WritesSpareTheOthers` | `DatabaseProofs` | `StorageSpec => []WritesSpareOthers` |

and, for every set of files that may be found, in whatever state they are:

| theorem | module | statement |
|---|---|---|
| `StorageImplemented` | `DatabaseProofs` | `Spec => StorageSpec`: the scan and all calls on a real file are steps of `Storage` |
| `DatabaseTypeCorrect` | `DatabaseProofs` | `Spec => []TypeOK` |
| `FileWritesSpareOthers` | `DatabaseProofs` | `Spec => []WritesSpareOthers` |
| `OthersAreKept` | `DatabaseProofs` | `Spec => []OthersStayWhole` |
| `FailedFileIsLeft` | `DatabaseProofs` | `Spec => FailedFileLeftAlone` |
| `StorageIsAccounted` | `DatabaseProofs` | `Spec => []StorageAccounted`, assuming `HeadersPossible` |
| `TheFileTellsAll` | `DatabaseProofs` | `Spec => []FileTellsAll`, same assumption |
| `OthersAreReachable` | `DatabaseProofs` | `Spec => []OthersStayReachable`, same assumption |

`HeadersPossible`: no file that is found has a header of length 0. The scan takes such a
header for the end of the file (`damaged_header`), so that what lies behind it is
neither in the directory nor in the map, and the last three theorems would be false. Every
other damage is admitted (a missing end, no trailing magic number, second records, free
records that are not merged), and no write makes such a header (`NoZeroAny`).

`FreeMapProofs` has what all rest on: what `rt_memfree` adds (`MemFreeUnits`),
that it keeps blocks apart and merged (`MemFreeSeparated`), that it touches nothing
that was clear of the map (`MemFreeApart`), that a refusal is an overlap
(`RefusedIff`, the reason why two neighbours are enough), and what the two
allocators return. These need a least and a greatest element of the addresses on
one side (`Least`, `Greatest`).

`WritesSpareOthers` is about the writes to come, and the calls update the
directory and the map before, between and after them: in the middle of a call the
entry of the name may point at a half, at a surplus or at storage that is in the map
again. The invariant (`StorageInv`) therefore sets the call aside: the call holds one
block (`Held`); without the name it is about, the directory, the strays and the
map are well-formed (`Others`); and the block is clear of all of them (`HeldInv`).
All writes that are pending lie in the block. Only while the old storage of an
object that grows is being erased is the block in the map already, and there is
nothing to be said about the two (`FreeElsewhere` is empty). A read-only database has no such invariant and
needs none: it makes no writes.

What the scan gives is the subject of `Chain` and `FreeChain`: from any unit of any
file, records one behind the other up to a unit where there is none, and a merged
map of exactly the free ones. `Walk` is a recursive function, which `TLAPS` knows as a
`CHOOSE`; that it exists (`WalkExists`) and what holds at every unit (`WalkChains`) is
shown by the least and the greatest unit where it would not. So whatever the file,
a process that opens it has well-formed storage (`ScanWellFormed`), and `Storage` is
implemented.

`DataInv` adds the file to `StorageInv`. `FileInv`: memory takes the file to end where it
does, unless the write that extends it is the next one. `KeptInv`: an object that no call is
about is in the file unit by unit, and its directory entry is where it is. With
`StorageInv` the writes lie in the call's block, so they touch no such object.

The last three theorems need to know what *every* unit of the file is, between the
writes as well. `Tiling` says that the file is records one behind the other but for a
gap; `Holding` that each of these records is what the process takes it for: in the call's
block, free storage of the map, or an entry of the directory or of the second records.
There is a gap only while a block is cut in two (`Gap`): then its two halves get
their headers in two writes and the scan of what is there would go wrong behind it, which
is why `OthersStayReachable` makes the exception it makes. `Erasing` is the state of a free
record in the making, a large one of which is a header first and its last byte later;
`EndsAtEof` that the file ends where the memory has it. These are `OpenInv`, the invariant
of an open database; `TileInv` has it while there is one, and otherwise
remembers what the next scan will reach (`Reached`). Between calls there is
no gap, the scan reads the tiles (`WholeFileScanned`), and the three statements are
comparisons of sets (`InUseIs`, `FreeIs`, `SameUnitsSameMap`). All of these invariants were
checked by TLC on the instance of the run `database` before they were proved.

### Pixels

For every set of threads, and every run with a known chunk (`ChunkKnown`: there is a
thread; a chunk is set or the line mode applies; a run from the top down begins
at pixel 0):

| theorem | module | statement |
|---|---|---|
| `EachPixelOnce` | `PixelProofs` | `Spec /\ ChunkKnown => []EachOnce` |
| `RunIsComputed` | `PixelProofs` | `Spec /\ ChunkKnown => []RunComputed` |
| `PixelTypeCorrect` | `PixelProofs` | `Spec /\ LinesKnown => []TypeOK` |
| `OneThreadPerLine` | `PixelProofs` | `Spec /\ LinesKnown => []OneCpuPerLine` |
| `LinesAreWhole` | `PixelProofs` | `Spec /\ LinesKnown => []LinesWhole` |
| `LinesAreWritten` | `PixelProofs` | `Spec /\ LinesKnown => []LinesWritten` |

The invariant (`BlockInv`): blocks that are taken lie below `cur_pixel`
(`BlocksTaken`) and are apart from each other (`BlocksApart`), a pixel has been
computed exactly if its position in the run is below `cur_pixel` and in nobody's
remaining block (`ComputedOnce`), and a thread returns only when `cur_pixel` has
passed the end (`ReturnedLast`). `RunComputed` follows when no thread holds a block.

The line buffers need more (`LinesKnown`): pixels are not averaged over runs (there the
count is lost, `averaged_lines`), and where every thread has lines of its own a run
from the top down ends with the end of a line. `LineInv` relates the count of a line to
the pixels in its buffer: `sl_left` is the width less the pixels that are counted
(`LeftToCount`; in the mode without the semaphore a pixel is counted in two steps after
it is computed, and until then no count knows of it); what a thread has read
of the count is still the count when it stores it (`SeenIsLeft`), because no other thread is on
the line (`LinesApart`: `cur_pixel` and the ends of all blocks are multiples of the
width); and a line whose count is 0 is being written by one thread, or is written with all
its pixels (`EolWhenWhole`, `StoredOrWritten`).

### Transport

For messages of any lengths, any header, buffers of any size (`PkgAssumption`: a queued
message fits by itself, and the margin of `pkg_suckin` is not zero), any cuts of the stream,
failing calls, closes at any time, and flushes cut short by signals:

| theorem | module | statement |
|---|---|---|
| `MessagesStayWhole` | `PkgProofs` | `Spec => ChannelSpec`, that is `Channel!Spec`, assuming `"send" \notin Interrupted` |
| `NothingWaits` | `PkgProofs` | `Spec => []NoMessageWaits`, same assumption |
| `BuffersHold` | `PkgProofs` | `Spec /\ [][(\E m \in Message : Accept(m)) => Room >= 0]_vars => []TypeOK`, same assumption |
| `FewMessagesFit` | `PkgProofs` | `Spec => []TypeOK`, if `(MaxMessages - 1) * (Hdr + MaxQLen) <= StreamLen - Hdr` as well |

The assumption is that the flush inside `pkg_send` is written in full: the code does not look
at its result, and `short_flush` is the counterexample. The condition of `BuffersHold`, that
there is room for a header in `pkc_stream` when a message comes, is what the subtraction in
`pkg_send` and `pkg_stream` needs; without it, `stream_room`. `FewMessagesFit` gives the
number of messages up to which it cannot fail: three in the run `transport`, which is why the
fourth makes `stream_room`.

What the proofs rest on (`PkgInv`) is one statement about everything on its way, from the
message that is being read to the last unit in the sender's buffer (`Pending`): it is *clean*
(`Clean`). Each unit is the next of its message, or the first of another behind the last; and
as long as the sender may go on it ends with a last unit (`Framed`). Every step is shown to do
one of four things to it: add the units of one message at the end (`AcceptAdds`), or the
first of them, after which no more is sent (`RefuseAdds`); cut off its end (`CloseCuts`); take one
whole message from its front (`DispatchKeeps`); or move units along (`FlushKeeps`,
`SuckinMoves`, `GetHdrKeeps`, `GetDataKeeps`). A clean stream begins with the units of its
first message, one by one (`Framing`): so `pkc_left`, which is computed from the header, ends with
that message and not before or behind it (`Reading`, `FirstWhole`), and less than that is no
message (`Short`), which is `NoMessageWaits` once `pkg_process` has returned (`Looping`).
`Whole` of two streams is the one behind the other (`WholeCat`), by induction over the second, so
the four things are `Send`, nothing, `Break`, `Handle` and nothing of the channel.
`Counted` bounds the messages on `WorkHead` by those that were sent.

### Only model-checked

All liveness (`JobEnds`, `AllReturn`, `AllHandled`): fairness and ENABLED are not supported by
the prover. Every invariant and every action property of a passing run is proved, under
the conditions named with the theorems. Section 4's counterexamples show why most of those
conditions are needed, and TLC checks each property in a configuration where they hold.

## 6. Not modelled, and why

- Interactive `remrt`, the framebuffer and `fbserv`: input and output of one client
  at a time; nothing is shared but the picture.
- `remrt/ihost.c`, authentication, TLS: their outcomes are choices of `Remrt`.
- `librt/cache.c`: what makes it right is the atomicity of `rename` in the file
  system, which a model would have to assume.
- `librt/bool.c` and all geometry: floating-point data with tolerances, sequential.
- `libbu`: thin layers over the platform; what they promise (a semaphore excludes,
  `bu_parallel` returns when all threads have) is assumed where it is used.
- `adrt`: a second dispatcher with its own protocol; the next thing to model.
- `libged`, GUIs, converters: bookkeeping of displays, files in and out.
