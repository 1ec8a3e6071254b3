------------------------------ MODULE RemrtEnv ------------------------------
(***************************************************************************)
(* The remrt dispatcher against any workers and any network: connections   *)
(* come and go, sends fail, and a connected peer may send any message at   *)
(* any time.  Faults and Commands say which failures and which operator    *)
(* commands a configuration admits.                                        *)
(***************************************************************************)
EXTENDS Remrt

CONSTANTS
  Faults,     \* subset of FaultKinds
  Commands    \* subset of CommandKinds

\* eof: lost connections, rejected versions, undecodable packages; send: sends
\* that fail, matrix: among them MSG_MATRIX; setup, tardy: timeouts; mismatch:
\* wrong or short replies; slow: rays/second limit; hours: hosts whose time is
\* over; open, write: output file.
FaultKinds ==
  {"eof", "send", "matrix", "setup", "tardy", "mismatch", "slow", "hours", "open",
   "write"}
CommandKinds == {"stop", "go", "allocate", "drop", "restart", "reset"}

ASSUME EnvAssumption == Faults \subseteq FaultKinds /\ Commands \subseteq CommandKinds

\* The slots whose worker has not yet sent its MSG_VERSION: rtsrv sends it
\* once, first thing.
VARIABLE hello

envVars == <<vars, hello>>

EnvInit == Init /\ hello = {}

Connect ==
  /\ StartLocal \/ AcceptTcp
  /\ hello' = hello \cup FreeSlot

Hosts ==
  /\ \/ StartRemote \/ EndHosting
     \/ "hours" \in Faults /\ \E s \in Slots : AutoDrop(s)
  /\ UNCHANGED hello

Hello(s) == s \in hello /\ PhVersion(s) /\ hello' = hello \ {s}

Receive(s) ==
  /\ \/ "eof" \in Faults /\ LoseServer(s)
     \/ PhDirbuildReply(s) \/ PhGettreesReply(s)
     \/ PixelsIgnored(s)
     \/ "mismatch" \in Faults /\ PixelsMismatch(s, work[s], TRUE)
     \/ PixelsStored(s, FALSE)
     \/ "slow" \in Faults /\ PixelsStored(s, TRUE)
     \/ ("open" \in Faults \/ work[s].frame \notin Listed) /\ PixelsUnopened(s)
     \/ "write" \in Faults /\ \E n \in 0 .. NPix : PixelsUnwritten(s, n)
  /\ UNCHANGED hello

Command(s) ==
  /\ \/ "stop" \in Commands /\ CmdStop(s)
     \/ "go" \in Commands /\ CmdGo(s)
     \/ "allocate" \in Commands /\ \E m \in {FRAME, LOAD, MOVIE} : CmdAllocate(s, m)
     \/ "drop" \in Commands /\ \E t \in Slots : CmdDrop(s, t)
     \/ "reset" \in Commands /\ CmdReset(s)
     \/ "restart" \in Commands /\ CmdRestart(s)
  /\ UNCHANGED hello

EndCommand ==
  /\ \/ \E ok \in BOOLEAN : (ok \/ "send" \in Faults) /\ SendRestart(ok)
     \/ EndRestart \/ EndCmd
  /\ UNCHANGED hello

\* One step of a pass of do_work, up to check_input.
Pass ==
  /\ \/ BeginSchedule
     \/ \E failed \in 0 .. 2 :
          (failed > 0 => "send" \in Faults) /\ SendDirbuild(failed)
     \/ \E late \in BOOLEAN : (late => "setup" \in Faults) /\ CheckSetup(late)
     \/ FinalClose \/ PassConn \/ EndConn
     \/ FrameIsDone \/ FrameNotDone \/ EndFrames
     \/ "tardy" \in Faults /\ TaskTardy
     \/ TaskRefused
     \/ \E failed \in 0 .. 2 :
          (failed > 0 => "send" \in Faults) /\ TaskGettrees(failed)
     \/ \E lump \in 1 .. MaxLump :
          \/ TaskAssign(lump)
          \/ "send" \in Faults /\ TaskLinesFail(lump)
          \/ "matrix" \in Faults /\ TaskMatrixFail(lump)
     \/ NextPass \/ NextFrame \/ EndAssign
  /\ hello' = IF phase = "conn" /\ at # NoSlot /\ state[at] = "CLOSING"
                THEN hello \ {at} ELSE hello

Poll == EndInput /\ UNCHANGED hello

\* do_work has returned, or CHECK_FRAME has stopped the program.
Over == phase \in {"exit", "bomb"} /\ UNCHANGED envVars

Next ==
  \/ Connect \/ Hosts
  \/ \E s \in Slots : Hello(s) \/ Receive(s) \/ Command(s)
  \/ EndCommand \/ Pass \/ Poll \/ Over

Spec == EnvInit /\ [][Next]_envVars

-----------------------------------------------------------------------------
(* Properties *)

\* Type invariant of the dispatcher.
TypeOK == TypesOK /\ hello \subseteq Slots

\* No pixel is to be computed twice: the spans of fr_todo and of the servers'
\* assignments never overlap (task_server, drop_server).
NoDoubleAssignment ==
  /\ \A f \in Listed : Disjoint(todo[f]) /\ OutOf(f) \cap Pixels(todo[f]) = {}
  /\ \A s, t \in Slots :
       s # t /\ work[s].frame = work[t].frame =>
         PixelsOf(work[s]) \cap PixelsOf(work[t]) = {}

\* A server only ever works on the frame whose matrix it was sent last, and
\* never on one that has been finished (task_server, destroy_frame).
WorkHasView ==
  \A s \in Slots : work[s] # NoWork => cur[s] = work[s].frame /\ cur[s] \in Listed

\* "one server per frame": under OPT_MOVIE no two servers are on one frame.
MovieDedicates ==
  method = MOVIE =>
    \A s, t \in Slots : s # t /\ cur[s] # NoFrame => cur[s] # cur[t]

\* "No more scanlines being scheduled": once stopped, by a command or a disk
\* write error, nothing is assigned until "go" (schedule, cd_stop, ph_pixels).
StopHolds ==
  [][\A s \in Slots : (\E i \in DOMAIN sent'[s] : sent'[s][i].type = "LINES") => running]_envVars

\* "Count of active server connections using pipe/socket IPC transport": the
\* local servers that are connected and not yet dropped (addclient_ipc,
\* drop_server, schedule).
PipesCounted ==
  nPipe = Cardinality({s \in Slots : conn[s] = "pipe" /\ state[s] # "CLOSING"})

-----------------------------------------------------------------------------
(* The dispatcher implements the work pool. *)

Pool == INSTANCE WorkPool WITH
  Frames <- FrameNums, PixelSet <- Image, Workers <- Slots,
  waiting <- UNION {{f} \X Pixels(todo[f]) : f \in FrameNums},
  out <- [s \in Slots |-> {work[s].frame} \X PixelsOf(work[s])],
  stored <- UNION {{f} \X disk[f] : f \in FrameNums},
  finished <- prot

\* Every step of the dispatcher hands out, stores, takes back or finishes work
\* as WorkPool allows, or leaves the work alone.
ImplementsPool == Pool!PoolSpec

=============================================================================
