------------------------------- MODULE Remrt -------------------------------
(***************************************************************************)
(* remrt, the dispatcher of the distributed ray tracer, in automatic mode  *)
(* (remrt.c: main -> do_work(1)).  The dispatcher is one thread: it starts *)
(* servers, makes a pass of schedule() over its server slots and frames,   *)
(* then receives in check_input(), and starts over.  The passes are cut    *)
(* into one action per iteration of their loops; phase, at and fpos say    *)
(* where the thread is.  This module holds the state and the handlers.     *)
(* RemrtEnv closes it with an arbitrary network; RenderFarm composes it    *)
(* with rtsrv workers.                                                     *)
(***************************************************************************)
EXTENDS RemrtProtocol

CONSTANTS
  MaxLump,    \* bound on sr_lump (REMRT_MAX_PIXELS in the code)
  NeedTree,   \* frames whose script asks for a gettrees (fr_needgettree)
  MaxPipes    \* bound on n_pipe_servers (the code's int has none)

ASSUME RemrtAssumption ==
  MaxLump \in Nat \ {0} /\ MaxPipes \in Nat /\ NeedTree \subseteq FrameNums

FRAME == 0                      \* values of work_allocate_method
LOAD == 1
MOVIE == 2

\* An empty sr_work.  The list never holds more than N_SERVER_ASSIGNMENTS = 1
\* span, so work[s] is that span, or this one, which has no pixel.
NoWork == Span(NoFrame, 0, -1)

VARIABLES
  running,   \* scheduling is on
  method,    \* work_allocate_method
  frames,    \* the FrameHead list, a sequence of frame numbers
  todo,      \* fr_todo of each frame, a sequence of spans
  disk,      \* the pixels each frame's output file holds, all three bytes of them
  prot,      \* the frames whose file is write-protected (0444): declared done
  conn,      \* sr_pc of each slot: "none", a "tcp" or a local "pipe" connection
  state,     \* sr_state
  work,      \* sr_work
  cur,       \* sr_curframe
  nPipe,     \* n_pipe_servers
  pipeEver,  \* n_pipe_servers_ever > 0
  prevServ,  \* prev_serv > 0 of do_work
  cmdFrom,   \* the slot whose MSG_CMD is being run
  phase,     \* the part of the main loop the thread is in
  at,        \* the slot its loop is at
  fpos,      \* the position in frames its loop is at
  nxt,       \* nxt_frame of schedule
  again,     \* another_pass > 0 of schedule
  hosting,   \* check_input is called from start_servers, not from do_work
  sent       \* the messages the last step sent, per slot

job == <<running, method, frames, todo, disk, prot>>
servers == <<conn, state, work, cur>>
counters == <<nPipe, pipeEver, prevServ>>
loop == <<phase, at, fpos, nxt, again, hosting, cmdFrom>>
vars == <<job, servers, counters, loop, sent>>

Nothing == [s \in Slots |-> <<>>]
Send(s, msgs) == sent' = [Nothing EXCEPT ![s] = msgs]
Quiet == sent' = Nothing

\* The connected slots after slot i (sr_pc != PKC_NULL), lowest first.
NextSlot(i) ==
  LET later == {s \in Slots : s > i /\ conn[s] # "none"}
  IN  IF later = {} THEN NoSlot
      ELSE CHOOSE s \in later : \A t \in later : s <= t

FreeSlot == {s \in Slots : conn[s] = "none" /\ \A t \in 1 .. s - 1 : conn[t] # "none"}

Init ==
  /\ running = TRUE /\ method = MOVIE
  /\ frames = [i \in FrameNums |-> i]
  /\ todo = [f \in FrameNums |-> <<Span(f, 0, NPix - 1)>>]
  /\ disk = [f \in FrameNums |-> {}] /\ prot = {}
  /\ conn = [s \in Slots |-> "none"] /\ state = [s \in Slots |-> "UNUSED"]
  /\ work = [s \in Slots |-> NoWork] /\ cur = [s \in Slots |-> NoFrame]
  /\ nPipe = 0 /\ pipeEver = FALSE /\ prevServ = FALSE
  /\ phase = "start" /\ at = NoSlot /\ fpos = 1 /\ nxt = 0 /\ again = FALSE
  /\ hosting = FALSE /\ cmdFrom = NoSlot
  /\ sent = Nothing

-----------------------------------------------------------------------------
(* drop_server(): part of every handler and send that fails.               *)

\* The states in which drop_server puts the slot's work back.
Requeues == {"READY", "NEED_TREE"}

\* Mutant of LessPipe: the count may pass below zero.
LessPipeMutant(s, n) == IF conn[s] = "pipe" THEN n - 1 ELSE n

LessPipe(s, n) == IF conn[s] = "pipe" /\ n > 0 THEN n - 1 ELSE n

\* fr_todo of every frame once slot s's work is back at the head of its frame's.
Requeued(s) ==
  IF work[s] = NoWork THEN todo
  ELSE [todo EXCEPT ![work[s].frame] = Push(work[s], @)]

\* Mutants of DropTimes: the work stays in the slot; the work is forgotten.
DropTimesKeepsWork(s, n) ==
  /\ state' = [state EXCEPT ![s] = "CLOSING"]
  /\ cur' = [cur EXCEPT ![s] = NoFrame]
  /\ nPipe' = LessPipe(s, nPipe)
  /\ UNCHANGED <<work, todo>>

DropTimesLosesWork(s, n) ==
  /\ state' = [state EXCEPT ![s] = "CLOSING"]
  /\ cur' = [cur EXCEPT ![s] = NoFrame]
  /\ nPipe' = LessPipe(s, nPipe)
  /\ work' = [work EXCEPT ![s] = NoWork] /\ UNCHANGED todo

\* drop_server called n times in a row, as when each of n sends fails.  Only
\* the first call finds the state the slot had.
DropTimes(s, n) ==
  /\ state' = [state EXCEPT ![s] = "CLOSING"]
  /\ cur' = [cur EXCEPT ![s] = NoFrame]
  /\ nPipe' = IF n = 1 THEN LessPipe(s, nPipe) ELSE LessPipe(s, LessPipe(s, nPipe))
  /\ IF state[s] \in Requeues
       THEN work' = [work EXCEPT ![s] = NoWork] /\ todo' = Requeued(s)
       ELSE UNCHANGED <<work, todo>>

DropServer(s) == DropTimes(s, 1)

\* statechange() alone.
Become(s, st) ==
  /\ state' = [state EXCEPT ![s] = st]
  /\ UNCHANGED <<cur, nPipe, work, todo>>

-----------------------------------------------------------------------------
(* do_work() and start_servers().                                          *)

\* addclient() and addclient_ipc(): the first free slot becomes NEW.
AddClient(s, kind) ==
  /\ conn' = [conn EXCEPT ![s] = kind]
  /\ state' = [state EXCEPT ![s] = "NEW"]
  /\ work' = [work EXCEPT ![s] = NoWork]
  /\ cur' = [cur EXCEPT ![s] = NoFrame]

\* start_servers -> add_host, which waits for a first message in check_input.
Hosting == phase' = "input" /\ hosting' = TRUE /\ UNCHANGED <<at, fpos, nxt, again, cmdFrom>>

\* add_host_local -> addclient_ipc; when no slot is free the count has been
\* raised and the connection is closed.
StartLocal ==
  /\ phase = "start" /\ nPipe < MaxPipes
  /\ nPipe' = nPipe + 1 /\ pipeEver' = TRUE
  /\ IF FreeSlot = {} THEN UNCHANGED servers
     ELSE \E s \in FreeSlot : AddClient(s, "pipe")
  /\ Quiet /\ Hosting /\ UNCHANGED <<job, prevServ>>

\* A remote host: ssh is launched, the worker will connect by itself.
StartRemote ==
  /\ phase = "start" /\ Hosting
  /\ Quiet /\ UNCHANGED <<job, servers, counters>>

\* A host whose hours are over.
AutoDrop(s) ==
  /\ phase = "start" /\ conn[s] # "none" /\ DropServer(s)
  /\ Quiet
  /\ UNCHANGED <<running, method, frames, disk, prot, conn, pipeEver, prevServ, loop>>

\* start_servers is through (or not due); schedule() begins.
BeginSchedule ==
  /\ phase = "start"
  /\ phase' = "conn" /\ at' = NextSlot(0) /\ fpos' = 1
  /\ nxt' = 0 /\ again' = FALSE /\ UNCHANGED <<hosting, cmdFrom>>
  /\ Quiet /\ UNCHANGED <<job, servers, counters>>

\* check_input() has returned to start_servers.
EndHosting ==
  /\ phase = "input" /\ hosting
  /\ phase' = "start" /\ hosting' = FALSE /\ UNCHANGED <<at, fpos, nxt, again, cmdFrom>>
  /\ Quiet /\ UNCHANGED <<job, servers, counters>>

\* check_input() has returned to do_work: count the servers, test the loop's
\* conditions.
EndInput ==
  LET down == \A s \in Slots : conn[s] = "none"
  IN  /\ phase = "input" /\ ~hosting
      /\ phase' = IF frames = <<>> \/ (down /\ (prevServ \/ pipeEver))
                    THEN "exit" ELSE "start"
      /\ prevServ' = ~down
      /\ UNCHANGED <<at, fpos, nxt, again, hosting, cmdFrom>>
      /\ Quiet /\ UNCHANGED <<job, servers, nPipe, pipeEver>>

-----------------------------------------------------------------------------
(* schedule(), first loop: server state transitions.                       *)

AdvanceConn == at' = NextSlot(at) /\ UNCHANGED <<phase, fpos, nxt, again, hosting, cmdFrom>>

\* SRST_VERSOK: send_loglvl, then send_dirbuild (MSG_CD, MSG_DIRBUILD).  Failed
\* sends drop the server; when MSG_CD fails, MSG_DIRBUILD is tried all the same.
SendDirbuild(failed) ==
  /\ phase = "conn" /\ at # NoSlot /\ state[at] = "VERSOK"
  /\ IF failed = 0 THEN Become(at, "DOING_DIRBUILD") /\ Send(at, <<Dirbuild>>)
                   ELSE DropTimes(at, failed) /\ Quiet
  /\ AdvanceConn
  /\ UNCHANGED <<running, method, frames, disk, prot, conn, pipeEver, prevServ>>

\* SRST_DOING_DIRBUILD and SRST_DOING_GETTREES: SETUP_TIMEOUT_INTERVAL.
CheckSetup(late) ==
  /\ phase = "conn" /\ at # NoSlot
  /\ state[at] \in {"DOING_DIRBUILD", "DOING_GETTREES"}
  /\ IF late THEN DropServer(at) ELSE UNCHANGED <<state, cur, nPipe, work, todo>>
  /\ Quiet /\ AdvanceConn
  /\ UNCHANGED <<running, method, frames, disk, prot, conn, pipeEver, prevServ>>

\* SRST_CLOSING: close the connection, free the slot.  Its sr_work is left.
FinalClose ==
  /\ phase = "conn" /\ at # NoSlot /\ state[at] = "CLOSING"
  /\ nPipe' = LessPipe(at, nPipe)
  /\ conn' = [conn EXCEPT ![at] = "none"]
  /\ state' = [state EXCEPT ![at] = "UNUSED"]
  /\ Quiet /\ AdvanceConn
  /\ UNCHANGED <<job, work, cur, pipeEver, prevServ>>

\* Any other state: nothing to do for this slot.
PassConn ==
  /\ phase = "conn" /\ at # NoSlot
  /\ state[at] \in {"NEW", "NEED_TREE", "READY", "RESTART"}
  /\ Quiet /\ AdvanceConn /\ UNCHANGED <<job, servers, counters>>

EndConn ==
  /\ phase = "conn" /\ at = NoSlot
  /\ phase' = "frames" /\ UNCHANGED <<at, fpos, nxt, again, hosting, cmdFrom>>
  /\ Quiet /\ UNCHANGED <<job, servers, counters>>

-----------------------------------------------------------------------------
(* schedule(), second loop: finished frames.                               *)

\* Mutant of NoneOutstanding: only servers still on the frame are asked.
NoneOutstandingMutant(f) == \A s \in Slots : cur[s] # f \/ state[s] = "READY"

\* this_frame_done() when fr_todo is empty: no connected server has its work.
NoneOutstanding(f) == \A s \in Slots : conn[s] # "none" => work[s].frame # f

RemoveFrame(i) == SubSeq(frames, 1, i - 1) \o SubSeq(frames, i + 1, Len(frames))

\* The effect of destroy_frame on the servers.
Forget(fs) ==
  cur' = [s \in Slots |-> IF conn[s] # "none" /\ cur[s] \in fs
                            THEN NoFrame ELSE cur[s]]

\* frame_is_done(): write-protect the output file, then destroy_frame.
FrameIsDone ==
  /\ phase = "frames" /\ fpos <= Len(frames)
  /\ LET f == frames[fpos]
     IN  /\ todo[f] = <<>> /\ NoneOutstanding(f)
         /\ prot' = prot \cup {f}
         /\ Forget({f})
  /\ frames' = RemoveFrame(fpos)
  /\ Quiet
  /\ UNCHANGED <<running, method, todo, disk, conn, state, work, counters, loop>>

FrameNotDone ==
  /\ phase = "frames" /\ fpos <= Len(frames)
  /\ LET f == frames[fpos] IN todo[f] # <<>> \/ ~NoneOutstanding(f)
  /\ fpos' = fpos + 1 /\ UNCHANGED <<phase, at, nxt, again, hosting, cmdFrom>>
  /\ Quiet /\ UNCHANGED <<job, servers, counters>>

\* all_done(): nothing to send out, and no server at work.
AllDone ==
  /\ \A i \in DOMAIN frames : todo[frames[i]] = <<>>
  /\ \A s \in Slots :
       conn[s] # "none" /\ state[s] \in Requeues => work[s] = NoWork

\* Mutant of EndFrames: a stopped dispatcher goes on.
EndFramesMutant ==
  /\ phase = "frames" /\ fpos > Len(frames)
  /\ UNCHANGED running
  /\ phase' = IF AllDone THEN IF frames = <<>> THEN "exit" ELSE "input" ELSE "assign"
  /\ fpos' = 1 /\ at' = NextSlot(0) /\ nxt' = 0 /\ again' = FALSE
  /\ Quiet /\ UNCHANGED <<hosting, cmdFrom>>
  /\ UNCHANGED <<method, frames, todo, disk, prot, servers, counters>>

\* The exits of schedule() before any assignment; do_work's break when the
\* last frame is finished.
EndFrames ==
  /\ phase = "frames" /\ fpos > Len(frames)
  /\ running' = (running /\ ~AllDone)
  /\ phase' = IF running' THEN "assign" ELSE IF frames = <<>> THEN "exit" ELSE "input"
  /\ fpos' = 1 /\ at' = NextSlot(0) /\ nxt' = 0 /\ again' = FALSE
  /\ Quiet /\ UNCHANGED <<hosting, cmdFrom>>
  /\ UNCHANGED <<method, frames, todo, disk, prot, servers, counters>>

-----------------------------------------------------------------------------
(* schedule(), third part: hand out work.  One action per outcome of       *)
(* task_server(sp, fr); the loops around it go on from its answer.         *)

Fr == frames[fpos]

\* The loop over the slots after task_server answered ret.
Answer(ret) ==
  /\ nxt' = CASE ret = 2 -> 1 [] ret = 3 -> 2 [] OTHER -> nxt
  /\ again' = (again \/ ret = 1)
  /\ at' = IF ret = 2 THEN NoSlot ELSE NextSlot(at)
  /\ UNCHANGED <<phase, fpos, hosting, cmdFrom>>

\* task_server is called for slot at and frame Fr.  The test for an empty
\* fr_todo is made once per pass, before its first slot.
Tasking ==
  /\ phase = "assign" /\ fpos <= Len(frames) /\ at # NoSlot
  /\ at = NextSlot(0) => todo[Fr] # <<>>

Ready(s) == state[s] \in Requeues
Idle(s) == Ready(s) /\ work[s] = NoWork

\* Mutant of TaskTardy: the work is put back but the server is kept.
TaskTardyMutant ==
  /\ Tasking /\ Ready(at) /\ work[at] # NoWork
  /\ work' = [work EXCEPT ![at] = NoWork] /\ todo' = Requeued(at)
  /\ Answer(0) /\ Quiet
  /\ UNCHANGED <<running, method, frames, disk, prot, conn, state, cur, counters>>

\* TARDY_SERVER_INTERVAL has passed since its assignment.
TaskTardy ==
  /\ Tasking /\ Ready(at) /\ work[at] # NoWork
  /\ DropServer(at) /\ Answer(0) /\ Quiet
  /\ UNCHANGED <<running, method, frames, disk, prot, conn, pipeEver, prevServ>>

\* Not running yet, or plenty busy; ready, but Fr has nothing left; ready, but
\* still on another frame; ready, but Fr is not for this server.
TaskRefused ==
  /\ Tasking
  /\ \/ ~Idle(at) /\ Answer(0)
     \/ Idle(at) /\ todo[Fr] = <<>> /\ Answer(1)
     \/ Idle(at) /\ todo[Fr] # <<>> /\ cur[at] \notin {NoFrame, Fr} /\ Answer(3)
     \/ /\ Idle(at) /\ todo[Fr] # <<>> /\ cur[at] = NoFrame
        /\ \/ method = MOVIE /\ \E s \in Slots : cur[s] = Fr
           \/ method = LOAD
        /\ Answer(2)
  /\ Quiet /\ UNCHANGED <<job, servers, counters>>

\* Mutant of Eligible: a dedicated frame is shared.
EligibleShared == Tasking /\ Idle(at) /\ todo[Fr] # <<>> /\ cur[at] \in {NoFrame, Fr}

\* The server may be sent work of Fr: it is on it, or is moved to it.
Fresh == cur[at] = NoFrame
Eligible ==
  /\ Tasking /\ Idle(at) /\ todo[Fr] # <<>>
  /\ \/ cur[at] = Fr
     \/ /\ Fresh /\ method # LOAD
        /\ method = MOVIE => \A s \in Slots : cur[s] # Fr

\* A new frame that needs its trees: MSG_MATRIX, MSG_GETTREES and no work yet.
\* Both sends can fail only when the frame asks for the trees: a server that
\* MSG_MATRIX has dropped is no longer in NEED_TREE (see TaskMatrixFail).
TaskGettrees(failed) ==
  /\ Eligible /\ Fresh /\ (Fr \in NeedTree \/ state[at] = "NEED_TREE")
  /\ failed = 2 => Fr \in NeedTree
  /\ IF failed = 0
       THEN /\ state' = [state EXCEPT ![at] = "DOING_GETTREES"]
            /\ cur' = [cur EXCEPT ![at] = Fr]
            /\ Send(at, <<Matrix(Fr), Gettrees>>)
            /\ UNCHANGED <<nPipe, work, todo>>
       ELSE DropTimes(at, failed) /\ Quiet
  /\ Answer(1)
  /\ UNCHANGED <<running, method, frames, disk, prot, conn, pipeEver, prevServ>>

\* Mutants: CanAssign asks for no trees; TaskAssign leaves sr_curframe, or sends
\* no MSG_MATRIX.
CanAssignMutant == Eligible

TaskAssignMutant(lump) ==
  /\ Eligible /\ (cur[at] = NoFrame => Fr \notin NeedTree /\ state[at] # "NEED_TREE")
  /\ work' = [work EXCEPT ![at] = Lump(todo[Fr], lump)]
  /\ todo' = [todo EXCEPT ![Fr] = WithoutLump(todo[Fr], lump)]
  /\ Send(at, <<Matrix(Fr), Lines(Lump(todo[Fr], lump))>>)
  /\ Answer(0)
  /\ UNCHANGED <<running, method, frames, disk, prot, conn, state, cur, counters>>

\* The server is given lump pixels, after MSG_MATRIX if the frame is new to it.
CanAssign ==
  Eligible /\ (Fresh => Fr \notin NeedTree /\ state[at] # "NEED_TREE")

TaskAssignViewless(lump) ==
  /\ CanAssign
  /\ work' = [work EXCEPT ![at] = Lump(todo[Fr], lump)]
  /\ todo' = [todo EXCEPT ![Fr] = WithoutLump(todo[Fr], lump)]
  /\ cur' = [cur EXCEPT ![at] = Fr]
  /\ Send(at, <<Lines(Lump(todo[Fr], lump))>>)
  /\ Answer(0)
  /\ UNCHANGED <<running, method, frames, disk, prot, conn, state, counters>>

TaskAssign(lump) ==
  /\ CanAssign
  /\ work' = [work EXCEPT ![at] = Lump(todo[Fr], lump)]
  /\ todo' = [todo EXCEPT ![Fr] = WithoutLump(todo[Fr], lump)]
  /\ cur' = [cur EXCEPT ![at] = Fr]
  /\ Send(at, (IF Fresh THEN <<Matrix(Fr)>> ELSE <<>>) \o <<Lines(Lump(todo[Fr], lump))>>)
  /\ Answer(0)
  /\ UNCHANGED <<running, method, frames, disk, prot, conn, state, counters>>

\* MSG_LINES cannot be sent: send_do_lines drops the server, which puts the
\* span just cut off back at the head of fr_todo.
TaskLinesFail(lump) ==
  LET q == todo[Fr]
  IN  /\ CanAssign
      /\ todo' = [todo EXCEPT ![Fr] = Push(Lump(q, lump), WithoutLump(q, lump))]
      /\ state' = [state EXCEPT ![at] = "CLOSING"]
      /\ cur' = [cur EXCEPT ![at] = NoFrame]
      /\ nPipe' = LessPipe(at, nPipe)
      /\ Quiet /\ Answer(1)
      /\ UNCHANGED <<running, method, frames, disk, prot, conn, work, pipeEver, prevServ>>

\* MSG_MATRIX cannot be sent: send_matrix drops the server, but task_server
\* goes on, gives the span to the closing slot, and MSG_LINES fails too.
TaskMatrixFail(lump) ==
  /\ Eligible /\ Fresh /\ Fr \notin NeedTree
  /\ work' = [work EXCEPT ![at] = Lump(todo[Fr], lump)]
  /\ todo' = [todo EXCEPT ![Fr] = WithoutLump(todo[Fr], lump)]
  /\ state' = [state EXCEPT ![at] = "CLOSING"]
  /\ UNCHANGED cur
  /\ nPipe' = LessPipe(at, LessPipe(at, nPipe))
  /\ Quiet /\ Answer(0)
  /\ UNCHANGED <<running, method, frames, disk, prot, conn, pipeEver, prevServ>>

\* Another pass over the slots, for the same frame.
NextPass ==
  /\ phase = "assign" /\ fpos <= Len(frames) /\ at = NoSlot
  /\ nxt = 0 /\ again
  /\ at' = NextSlot(0) /\ again' = FALSE
  /\ UNCHANGED <<phase, fpos, nxt, hosting, cmdFrom>>
  /\ Quiet /\ UNCHANGED <<job, servers, counters>>

\* On to the next frame: the passes are over, or fr_todo was found empty.
NextFrame ==
  /\ phase = "assign" /\ fpos <= Len(frames)
  /\ \/ at = NoSlot /\ ~(nxt = 0 /\ again)
     \/ at = NextSlot(0) /\ todo[Fr] = <<>>
  /\ fpos' = fpos + 1 /\ at' = NextSlot(0) /\ again' = FALSE
  /\ nxt' = IF fpos = Len(frames) THEN nxt ELSE 0
  /\ UNCHANGED <<phase, hosting, cmdFrom>>
  /\ Quiet /\ UNCHANGED <<job, servers, counters>>

\* Every frame has been offered.  When the last one was refused as taken, the
\* allocation method is relaxed and the scan starts over.
EndAssign ==
  /\ phase = "assign" /\ fpos > Len(frames)
  /\ fpos' = 1 /\ at' = NextSlot(0) /\ nxt' = 0 /\ UNCHANGED <<again, hosting, cmdFrom>>
  /\ IF nxt = 1 /\ method > FRAME
       THEN method' = method - 1 /\ UNCHANGED phase
       ELSE phase' = "input" /\ UNCHANGED method
  /\ Quiet
  /\ UNCHANGED <<running, frames, todo, disk, prot, servers, counters>>

-----------------------------------------------------------------------------
(* check_input(): connections, messages and closed connections, one at a   *)
(* time, in the order in which the network hands them over.                *)

Hearing(s) == phase = "input" /\ conn[s] # "none"
HandlerFrame == UNCHANGED <<method, frames, prot, conn, pipeEver, prevServ, loop>>

\* pkg_accept() of a remote worker, addclient().
AcceptTcp ==
  /\ phase = "input"
  /\ \E s \in FreeSlot : AddClient(s, "tcp")
  /\ Quiet /\ UNCHANGED <<job, counters, loop>>

\* EOF or an error from pkg_suckin(), an error from pkg_process(), and every
\* handler that finds its message unacceptable: the server is dropped.
LoseServer(s) ==
  /\ Hearing(s) /\ DropServer(s)
  /\ Quiet /\ HandlerFrame /\ UNCHANGED <<running, disk>>

\* ph_version() of a matching protocol version and session token; the state
\* the slot is in is only remarked upon.
PhVersion(s) ==
  /\ Hearing(s) /\ Become(s, "VERSOK")
  /\ Quiet /\ HandlerFrame /\ UNCHANGED <<running, disk>>

PhDirbuildReply(s) ==
  /\ Hearing(s)
  /\ IF state[s] = "DOING_DIRBUILD" THEN Become(s, "NEED_TREE") ELSE DropServer(s)
  /\ Quiet /\ HandlerFrame /\ UNCHANGED <<running, disk>>

PhGettreesReply(s) ==
  /\ Hearing(s)
  /\ IF state[s] = "DOING_GETTREES" THEN Become(s, "READY") ELSE DropServer(s)
  /\ Quiet /\ HandlerFrame /\ UNCHANGED <<running, disk>>

(* ph_pixels() of the pixels of span x.  An earlier frame's li_frame stays *)
(* readable after reset, but its file name is gone: open() fails.          *)
Listed == {frames[i] : i \in DOMAIN frames}
Hears(s) == state[s] \in {"READY", "NEED_TREE", "DOING_GETTREES"}

\* From a server in another state they are ignored.
PixelsIgnored(s) ==
  /\ Hearing(s) /\ ~Hears(s)
  /\ Quiet /\ UNCHANGED <<job, servers, counters, loop>>

\* None assigned, not the ones assigned, or not all of them: drop the server.
PixelsMismatch(s, x, short) ==
  /\ Hearing(s) /\ Hears(s) /\ (x # work[s] \/ short)
  /\ DropServer(s)
  /\ Quiet /\ HandlerFrame /\ UNCHANGED <<running, disk>>

\* Mutant of PixelsStored: the span stays on sr_work.
PixelsStoredMutant(s, slow) ==
  /\ Hearing(s) /\ Hears(s) /\ work[s] # NoWork
  /\ work[s].frame \in Listed
  /\ disk' = [disk EXCEPT ![work[s].frame] = @ \cup PixelsOf(work[s])]
  /\ Quiet /\ HandlerFrame /\ UNCHANGED <<running, todo, work, state, cur, nPipe>>

\* Written to the output file and taken off sr_work.  A host below its
\* rays/second limit (HT_RS) for too long is dropped then.
PixelsStored(s, slow) ==
  /\ Hearing(s) /\ Hears(s) /\ work[s] # NoWork
  /\ work[s].frame \in Listed
  /\ disk' = [disk EXCEPT ![work[s].frame] = @ \cup PixelsOf(work[s])]
  /\ work' = [work EXCEPT ![s] = NoWork]
  /\ IF slow THEN /\ state' = [state EXCEPT ![s] = "CLOSING"]
                  /\ cur' = [cur EXCEPT ![s] = NoFrame]
                  /\ nPipe' = LessPipe(s, nPipe)
             ELSE UNCHANGED <<state, cur, nPipe>>
  /\ Quiet /\ HandlerFrame /\ UNCHANGED <<running, todo>>

\* open() or bu_lseek() fails: remarked upon, and taken off sr_work.
PixelsUnopened(s) ==
  /\ Hearing(s) /\ Hears(s) /\ work[s] # NoWork
  /\ work' = [work EXCEPT ![s] = NoWork]
  /\ Quiet /\ HandlerFrame /\ UNCHANGED <<running, disk, todo, state, cur, nPipe>>

\* Mutant of PixelsUnwritten: the span is not put back.
PixelsUnwrittenMutant(s, n) ==
  /\ Hearing(s) /\ Hears(s) /\ work[s] # NoWork
  /\ work[s].frame \in Listed /\ n \in 0 .. work[s].stop - work[s].start
  /\ disk' = [disk EXCEPT ![work[s].frame] =
                @ \cup (work[s].start .. work[s].start + n - 1)]
  /\ running' = FALSE /\ work' = [work EXCEPT ![s] = NoWork]
  /\ Quiet /\ HandlerFrame /\ UNCHANGED <<todo, state, cur, nPipe>>

\* write() stops short, with the first n pixels stored whole: cd_stop(), and
\* the server is dropped so that its work is put back.  What it leaves of the
\* next pixel is written over with the rest of the span, and is told apart only
\* where a later dispatcher may scan it (RemrtResume).
PixelsUnwritten(s, n) ==
  /\ Hearing(s) /\ Hears(s) /\ work[s] # NoWork
  /\ work[s].frame \in Listed /\ n \in 0 .. work[s].stop - work[s].start
  /\ disk' = [disk EXCEPT ![work[s].frame] =
                @ \cup (work[s].start .. work[s].start + n - 1)]
  /\ running' = FALSE
  /\ DropServer(s)
  /\ Quiet /\ HandlerFrame

-----------------------------------------------------------------------------
(* ph_cmd(): a one-shot client's command is run, then its slot is dropped. *)

PhCmd(s) ==
  /\ Hearing(s) /\ cmdFrom' = s /\ UNCHANGED <<fpos, nxt, again, hosting>>
  /\ UNCHANGED <<disk, prot, conn, work, pipeEver, prevServ>>

Ran(s) == PhCmd(s) /\ phase' = "cmd" /\ UNCHANGED at /\ Quiet

\* cd_stop, cd_go, cd_allocate
CmdStop(s) ==
  /\ Ran(s) /\ running' = FALSE
  /\ UNCHANGED <<method, frames, todo, state, cur, nPipe>>
CmdGo(s) ==
  /\ Ran(s) /\ running' = (running \/ frames # <<>>)
  /\ UNCHANGED <<method, frames, todo, state, cur, nPipe>>
CmdAllocate(s, m) ==
  /\ Ran(s) /\ method' = m
  /\ UNCHANGED <<running, frames, todo, state, cur, nPipe>>

\* cd_drop (and the drop of cd_hold)
CmdDrop(s, t) ==
  /\ Hearing(s) /\ conn[t] # "none" /\ DropServer(t)
  /\ cmdFrom' = s /\ phase' = "cmd" /\ UNCHANGED <<at, fpos, nxt, again, hosting>>
  /\ Quiet
  /\ UNCHANGED <<running, method, frames, disk, prot, conn, pipeEver, prevServ>>

\* cd_reset: refused while running; an empty frame list trips CHECK_FRAME.
CmdReset(s) ==
  /\ PhCmd(s) /\ UNCHANGED at
  /\ IF running THEN phase' = "cmd" /\ UNCHANGED <<frames, todo, cur>>
     ELSE /\ phase' = IF frames = <<>> THEN "bomb" ELSE "cmd"
          /\ frames' = <<>>
          /\ todo' = [f \in FrameNums |-> IF f \in Listed THEN <<>> ELSE todo[f]]
          /\ Forget(Listed)
  /\ Quiet /\ UNCHANGED <<running, method, state, nPipe>>

\* cd_restart without an argument: send_restart() to every server in turn.
CmdRestart(s) ==
  /\ PhCmd(s) /\ phase' = "restart" /\ at' = NextSlot(0)
  /\ Quiet /\ UNCHANGED <<running, method, frames, todo, state, cur, nPipe>>

\* send_restart(): a failed send drops the server; RESTART in any case.
SendRestart(ok) ==
  /\ phase = "restart" /\ at # NoSlot
  /\ state' = [state EXCEPT ![at] = "RESTART"]
  /\ IF ok \/ state[at] \notin Requeues THEN UNCHANGED <<work, todo>>
     ELSE work' = [work EXCEPT ![at] = NoWork] /\ todo' = Requeued(at)
  /\ IF ok THEN UNCHANGED <<cur, nPipe>> /\ Send(at, <<Restart>>)
     ELSE cur' = [cur EXCEPT ![at] = NoFrame] /\ nPipe' = LessPipe(at, nPipe) /\ Quiet
  /\ at' = NextSlot(at) /\ UNCHANGED <<phase, fpos, nxt, again, hosting, cmdFrom>>
  /\ UNCHANGED <<running, method, frames, disk, prot, conn, pipeEver, prevServ>>

EndRestart ==
  /\ phase = "restart" /\ at = NoSlot /\ phase' = "cmd"
  /\ UNCHANGED <<at, fpos, nxt, again, hosting, cmdFrom>>
  /\ Quiet /\ UNCHANGED <<job, servers, counters>>

\* ph_cmd's own drop_server(sp, "one-shot command").
EndCmd ==
  /\ phase = "cmd" /\ DropServer(cmdFrom)
  /\ phase' = "input" /\ cmdFrom' = NoSlot /\ UNCHANGED <<at, fpos, nxt, again, hosting>>
  /\ Quiet
  /\ UNCHANGED <<running, method, frames, disk, prot, conn, pipeEver, prevServ>>

-----------------------------------------------------------------------------
(* What is required of the dispatcher, whatever it is composed with.       *)

Phases == {"start", "conn", "frames", "assign", "input", "cmd", "restart", "exit", "bomb"}
States == {"UNUSED", "NEW", "VERSOK", "DOING_DIRBUILD", "NEED_TREE", "READY",
           "RESTART", "CLOSING", "DOING_GETTREES"}

TodoOK ==
  /\ todo \in [FrameNums -> Seq(SpanSet)]
  /\ \A f \in FrameNums : \A i \in DOMAIN todo[f] : todo[f][i].frame = f

JobOK ==
  /\ running \in BOOLEAN /\ method \in {FRAME, LOAD, MOVIE}
  /\ frames \in Seq(FrameNums) /\ TodoOK
  /\ disk \in [FrameNums -> SUBSET Image] /\ prot \subseteq FrameNums

ServersOK ==
  /\ conn \in [Slots -> {"none", "tcp", "pipe"}] /\ state \in [Slots -> States]
  /\ work \in [Slots -> SpanSet \cup {NoWork}]
  /\ cur \in [Slots -> FrameNums \cup {NoFrame}]

CountersOK ==
  nPipe \in 0 .. MaxPipes /\ pipeEver \in BOOLEAN /\ prevServ \in BOOLEAN

LoopOK ==
  /\ phase \in Phases /\ at \in Slots \cup {NoSlot} /\ fpos \in Nat \ {0}
  /\ nxt \in 0 .. 2 /\ again \in BOOLEAN /\ hosting \in BOOLEAN
  /\ cmdFrom \in Slots \cup {NoSlot}

\* The types of the dispatcher's variables.
TypesOK == JobOK /\ ServersOK /\ CountersOK /\ LoopOK

\* The pixels of frame f that some server has been given.
OutOf(f) == UNION {PixelsOf(work[s]) : s \in {t \in Slots : work[t].frame = f}}

\* No pixel of a frame in progress is ever forgotten: it is on disk, waits in
\* fr_todo, or is assigned to a server (drop_server, task_server, ph_pixels).
NoPixelLost ==
  \A f \in Listed : Image \subseteq disk[f] \cup Pixels(todo[f]) \cup OutOf(f)

\* A server that holds work is one whose loss puts the work back: no span is
\* ever left in a slot that is restarting, closing or free (drop_server).
NoWorkStranded ==
  \A s \in Slots : work[s] # NoWork => conn[s] # "none" /\ state[s] \in Requeues

\* A frame is declared done and write-protected only with all its pixels on
\* disk (frame_is_done, this_frame_done).
FinishedComplete == \A f \in prot : disk[f] = Image

=============================================================================
