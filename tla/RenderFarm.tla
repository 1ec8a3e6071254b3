----------------------------- MODULE RenderFarm -----------------------------
(***************************************************************************)
(* remrt and its rtsrv workers together.  Packages arrive in order; a      *)
(* worker may exit or hang, after which sends to it may fail; the          *)
(* dispatcher's timeouts may strike early; a client may have all workers   *)
(* restarted.  At most MaxFaults such faults happen in a behaviour.        *)
(***************************************************************************)
EXTENDS Remrt, RtSrv

CONSTANTS
  MaxFaults,   \* bound on exits, hangs, early timeouts and restart commands
  Hangs,       \* whether workers may hang
  Restarts,    \* whether a client may send the "restart" command
  MatrixFails  \* whether a worker may be found gone when MSG_MATRIX is sent

ASSUME FarmAssumption ==
  MaxFaults \in Nat /\ Hangs \in BOOLEAN /\ Restarts \in BOOLEAN /\ MatrixFails \in BOOLEAN

VARIABLE faults   \* faults so far

farmVars == <<vars, workerVars, faults>>

FarmInit == Init /\ WorkerInit /\ faults = 0

Fault == faults < MaxFaults /\ faults' = faults + 1

\* What the dispatcher's step sent goes onto the connections whose worker is
\* still there.
Deliver ==
  /\ down' = [s \in Slots |-> IF worker[s] \in {"up", "hung"} THEN down[s] \o sent'[s] ELSE down[s]]
  /\ UNCHANGED <<worker, up, memory, faults>>

\* A send fails only on a connection whose worker is gone.
Works(failed) == failed > 0 => at # NoSlot /\ worker[at] = "gone"

\* A new worker, local or remote; the number of hosts is the number of slots.
FarmConnect ==
  /\ FreeSlot # {}
  /\ StartLocal \/ AcceptTcp
  /\ \E s \in FreeSlot : StartWorker(s)
  /\ UNCHANGED faults

\* One-shot clients are given slots too: they are AcceptTcp connections that
\* send MSG_CMD instead of MSG_VERSION.
FarmRestart ==
  /\ Restarts
  /\ \/ \E s \in Slots : up[s] = <<Version>> /\ CmdRestart(s) /\ up' = [up EXCEPT ![s] = <<>>]
                           /\ Fault /\ UNCHANGED <<worker, down, memory>>
     \/ (\E ok \in BOOLEAN : Works(IF ok THEN 0 ELSE 1) /\ SendRestart(ok)) /\ Deliver
     \/ (EndRestart \/ EndCmd) /\ Deliver

FarmPass ==
  /\ \/ BeginSchedule
     \/ \E failed \in 0 .. 2 : Works(failed) /\ SendDirbuild(failed)
     \/ CheckSetup(FALSE) \/ PassConn \/ EndConn
     \/ FrameIsDone \/ FrameNotDone \/ EndFrames
     \/ TaskRefused
     \/ \E failed \in 0 .. 2 : Works(failed) /\ TaskGettrees(failed)
     \/ \E lump \in 1 .. MaxLump :
          \/ TaskAssign(lump)
          \/ Works(1) /\ TaskLinesFail(lump)
          \/ MatrixFails /\ Works(1) /\ TaskMatrixFail(lump)
     \/ NextPass \/ NextFrame \/ EndAssign \/ EndInput \/ EndHosting
  /\ Deliver

FarmClose == LET s == at IN FinalClose /\ CloseLink(s) /\ UNCHANGED faults

\* The timeouts: due for a hung worker, early for any other.
Timeout == TaskTardy \/ CheckSetup(TRUE)
DueTimeout == at # NoSlot /\ worker[at] = "hung" /\ Timeout /\ Deliver
EarlyTimeout ==
  /\ at # NoSlot /\ worker[at] # "hung" /\ Timeout
  /\ Fault /\ UNCHANGED workerVars

\* The dispatcher handles the next message of slot s, or finds it closed.
Handle(s) ==
  LET m == Head(up[s])
  IN  CASE m.type = "VERSION" -> PhVersion(s)
        [] m.type = "DIRBUILD_REPLY" -> PhDirbuildReply(s)
        [] m.type = "GETTREES_REPLY" -> PhGettreesReply(s)
        [] OTHER -> PixelsIgnored(s) \/ PixelsMismatch(s, m.span, FALSE)
                      \/ (m.span = work[s] /\ PixelsStored(s, FALSE))

FarmReceive(s) ==
  /\ up[s] # <<>> /\ Handle(s)
  /\ up' = [up EXCEPT ![s] = Tail(@)]
  /\ UNCHANGED <<worker, down, memory, faults>>

FarmEof(s) ==
  /\ up[s] = <<>> /\ worker[s] = "gone"
  /\ LoseServer(s) /\ UNCHANGED <<workerVars, faults>>

FarmWorker(s) == WorkerStep(s) /\ UNCHANGED <<vars, faults>>

FarmFault(s) ==
  /\ WorkerExit(s) \/ (Hangs /\ WorkerHang(s))
  /\ Fault /\ UNCHANGED vars

FarmOver == phase = "exit" /\ UNCHANGED farmVars

FarmNext ==
  \/ FarmConnect \/ FarmRestart \/ FarmPass \/ FarmClose \/ DueTimeout \/ EarlyTimeout
  \/ \E s \in Slots : FarmReceive(s) \/ FarmEof(s) \/ FarmWorker(s) \/ FarmFault(s)
  \/ FarmOver

FarmSpec == FarmInit /\ [][FarmNext]_farmVars

\* The dispatcher's thread runs on (check_input() returns after 30 seconds);
\* start_servers() starts servers whenever it is due; messages arrive and closed
\* connections are noticed; workers that are up do their work; a hung worker's
\* timeout is due sooner or later.
FarmFairness ==
  /\ WF_farmVars(FarmPass) /\ WF_farmVars(FarmClose) /\ WF_farmVars(FarmRestart)
  /\ SF_farmVars(FarmConnect) /\ SF_farmVars(DueTimeout)
  /\ \A s \in Slots :
       SF_farmVars(FarmReceive(s)) /\ SF_farmVars(FarmEof(s)) /\ WF_farmVars(FarmWorker(s))

FairFarmSpec == FarmSpec /\ FarmFairness

-----------------------------------------------------------------------------
(* Properties *)

\* "Any rtsrv worker (or network link) that fails has its outstanding work
\* reassigned": what is not on disk of a frame in progress waits in fr_todo or
\* is with a server that is still connected (drop_server, schedule).
WorkReassigned ==
  \A f \in Listed :
    Image \subseteq disk[f] \cup Pixels(todo[f])
                       \cup UNION {PixelsOf(work[s]) : s \in
                                     {t \in Slots : conn[t] # "none" /\ work[t].frame = f}}

\* Every span of pixels on its way back was rendered under its own frame's
\* matrix: MSG_MATRIX, MSG_LINES and the frames they are about never cross.
RenderedWithOwnView ==
  \A s \in Slots : \A i \in DOMAIN up[s] :
    up[s][i].type = "PIXELS" => up[s][i].view = up[s][i].span.frame

\* No worker is ever handed lines it silently passes over (ph_lines before
\* MSG_GETTREES or MSG_MATRIX): the server would then only be saved by TARDY.
NoLinesIgnored ==
  \A s \in Slots : queue[s] # <<>> /\ Head(queue[s]).type = "LINES" =>
    trees[s] /\ view[s] # NoFrame

\* A well-behaved worker's answer is the answer its slot is waiting for:
\* nobody is dropped for "wrong state" or a mismatch.
AnswersExpected ==
  \A s \in Slots : up[s] # <<>> =>
    LET m == Head(up[s])
    IN  /\ m.type = "DIRBUILD_REPLY" => state[s] \in {"DOING_DIRBUILD", "CLOSING", "RESTART"}
        /\ m.type = "GETTREES_REPLY" => state[s] \in {"DOING_GETTREES", "CLOSING", "RESTART"}
        /\ m.type = "PIXELS" /\ state[s] \notin {"CLOSING", "RESTART"} => m.span = work[s]

\* An assignment never evaporates: while the worker is there, the span its slot
\* waits for is on its way to it, in its queue, or on its way back.  The timeout
\* of task_server is not reached for the last spans of a job, so a dispatcher
\* that waits for an answer nobody owes it would wait for ever (ph_lines,
\* ph_enqueue, ph_pixels, drop_server).
WorkUnderWay ==
  \A s \in Slots :
    worker[s] \in {"up", "hung"} /\ state[s] \in Requeues /\ work[s] # NoWork =>
      \/ \E i \in DOMAIN down[s] : down[s][i] = Lines(work[s])
      \/ \E i \in DOMAIN queue[s] : queue[s][i] = Lines(work[s])
      \/ \E i \in DOMAIN up[s] :
           up[s][i].type = "PIXELS" /\ up[s][i].span = work[s]

\* The job comes to an end: every frame is finished, or all servers are down.
JobEnds == <>(phase = "exit")

\* "servers that go into black hole mode": a hung server is dropped in time.
HungServerDropped ==
  \A s \in Slots : worker[s] = "hung" ~> (worker[s] # "hung" \/ phase = "exit")

=============================================================================
