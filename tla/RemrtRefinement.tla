--------------------------- MODULE RemrtRefinement ---------------------------
(***************************************************************************)
(* The dispatcher against arbitrary workers (RemrtEnv): its types; that no *)
(* pixel is lost and frames are complete when they are declared done       *)
(* (NoPixelLost, NoWorkStranded, FinishedComplete); that no pixel is given *)
(* out twice (NoDoubleAssignment); that servers work on the frame whose    *)
(* view they have (WorkHasView), and one at most on a frame under          *)
(* OPT_MOVIE (MovieDedicates); that the dispatcher implements WorkPool;    *)
(* and that nothing is handed out once scheduling is stopped (StopHolds).  *)
(* Then the dispatcher that is killed and started again (RemrtResume):     *)
(* what the scan of the output files leaves to do (RestartResumes,         *)
(* SpansInclusive), that finished files stay as they are                   *)
(* (FinishedUntouched), and that restarts lose no pixel but those that a   *)
(* write() has torn (OnlyTornMissing) and give none out twice.  Last, what *)
(* the abstract WorkPool guarantees.                                       *)
(***************************************************************************)
EXTENDS RemrtResume, RemrtProofs, WorkPool

-----------------------------------------------------------------------------
(* Types *)

\* hello stays a set of slots.
LEMMA HelloType ==
  ASSUME hello \subseteq Slots, [Next]_envVars
  PROVE  hello' \subseteq Slots
<1>1. FreeSlot \subseteq Slots
  BY DEF FreeSlot
<1>2. hello' \subseteq hello \cup FreeSlot
  BY DEF Next, Connect, Hosts, Hello, Receive, Command, EndCommand, Pass, Poll, Over, envVars
<1> QED
  BY <1>1, <1>2

\* Every step keeps the types.
LEMMA NextType ==
  ASSUME TypeInv, [Next]_envVars
  PROVE  TypeInv'
<1>1. CASE UNCHANGED envVars
  BY <1>1 DEF envVars, vars, job, servers, counters, loop,
     TypeInv, TypesOK, JobOK, TodoOK, ServersOK, CountersOK, LoopOK, CommandSlot
<1>2. CASE Next
  <2>1. CASE Connect
    <3>1. 1 \in Slots
      BY ProtocolAssumption DEF Slots
    <3> QED
      BY <2>1, <3>1, StartType, InputType DEF Connect
  <2>2. CASE Hosts
    <3>1. ASSUME NEW s \in Slots, AutoDrop(s) PROVE TypeInv'
      <4>1. DropTimes(s, 1)
        BY <3>1 DEF AutoDrop, DropServer
      <4>2. LoopOK' /\ CommandSlot'
        BY <3>1 DEF AutoDrop, loop, TypeInv, TypesOK, LoopOK, CommandSlot
      <4>3. /\ UNCHANGED <<method, frames, prot, conn, pipeEver, prevServ>>
            /\ running' \in BOOLEAN /\ disk' \in [FrameNums -> SUBSET Image]
        BY <3>1 DEF AutoDrop, TypeInv, TypesOK, JobOK
      <4> QED
        BY <4>1, <4>2, <4>3, DropStepType
    <3> QED
      BY <2>2, <3>1, StartType DEF Hosts
  <2>3. ASSUME NEW s \in Slots, Hello(s) \/ Receive(s) PROVE TypeInv'
    BY <2>3, InputType DEF Hello, Receive
  <2>4. ASSUME NEW s \in Slots, Command(s) PROVE TypeInv'
    BY <2>4, CommandType DEF Command
  <2>5. CASE EndCommand
    BY <2>5, EndCommandType DEF EndCommand
  <2>6. CASE Pass
    BY <2>6, StartType, ConnType, FramesType, RefuseType, AssignType DEF Pass
  <2>7. CASE Poll
    BY <2>7, StartType DEF Poll
  <2>8. CASE Over
    BY <1>1, <2>8 DEF Over
  <2> QED
    BY <1>2, <2>1, <2>2, <2>3, <2>4, <2>5, <2>6, <2>7, <2>8 DEF Next
<1> QED
  BY <1>1, <1>2

\* The dispatcher's state is well typed whatever fails and whatever commands
\* it is sent, for any number of slots, frames and pixels: servers[], fr_todo,
\* sr_work and the counters keep to their ranges through all of remrt.c's
\* handlers.
THEOREM TypeCorrect == Spec => []TypeOK
<1>1. EnvInit => TypeInv /\ hello \subseteq Slots
  BY InitType DEF EnvInit
<1>2. TypeInv /\ hello \subseteq Slots /\ [Next]_envVars => (TypeInv /\ hello \subseteq Slots)'
  BY NextType, HelloType
<1>3. TypeInv /\ hello \subseteq Slots => TypeOK
  BY DEF TypeInv, TypeOK
<1> QED
  BY <1>1, <1>2, <1>3, PTL DEF Spec

-----------------------------------------------------------------------------
(* That remrt loses no pixel: for every failure but the two after which    *)
(* the code does forget work (MSG_MATRIX that cannot be sent, an output    *)
(* file that cannot be opened), and for every command but "restart", which *)
(* forgets it too.                                                         *)

\* The failures and commands after which the code puts work back.
RequeuedOnly == {"matrix", "open"} \cap Faults = {} /\ "restart" \notin Commands

\* A worker that has yet to send its MSG_VERSION has not got past NEW.
HelloNew == \A s \in hello : state[s] \in {"NEW", "CLOSING"}
HelloInv == hello \subseteq Slots /\ HelloNew

\* A server gets past NEW by its MSG_VERSION alone.
LEMMA NextHello ==
  ASSUME TypeInv, phase # "restart", HelloInv, [Next]_envVars, "restart" \notin Commands
  PROVE  HelloInv'
<1>1. /\ state \in [Slots -> States] /\ hello \subseteq Slots
      /\ \A s \in hello : state[s] \in {"NEW", "CLOSING"}
  BY DEF TypeInv, TypesOK, ServersOK, HelloInv, HelloNew
<1>2. hello' \subseteq Slots
  BY <1>1, HelloType
<1>3. CASE Connect
  <2>1. CASE FreeSlot = {}
    BY <1>1, <1>2, <1>3, <2>1 DEF Connect, StartLocal, AcceptTcp, servers, HelloInv, HelloNew
  <2>2. CASE FreeSlot # {}
    <3>1. PICK s \in FreeSlot : \E kind : AddClient(s, kind)
      BY <1>3, <2>2 DEF Connect, StartLocal, AcceptTcp
    <3>2. FreeSlot = {s}
      BY <3>1, FreeSlotOne
    <3> QED
      BY <1>1, <1>2, <1>3, <3>1, <3>2 DEF Connect, AddClient, HelloInv, HelloNew
  <2> QED
    BY <2>1, <2>2
<1>4. ASSUME hello' \subseteq hello, \A s \in hello' : state'[s] \in {state[s], "NEW", "CLOSING"}
      PROVE  HelloInv'
  BY <1>1, <1>2, <1>4 DEF HelloInv, HelloNew
<1>5. CASE UNCHANGED envVars \/ Hosts \/ Poll \/ Over
  BY <1>1, <1>4, <1>5 DEF envVars, vars, servers, Hosts, StartRemote, EndHosting, AutoDrop,
     DropServer, DropTimes, Poll, EndInput, Over
<1>6. ASSUME NEW s \in Slots, Hello(s) \/ Receive(s) PROVE HelloInv'
  <2>1. CASE Hello(s)
    BY <1>1, <1>4, <2>1 DEF Hello, PhVersion, Become
  <2>2. CASE Receive(s)
    BY <1>1, <1>4, <2>2 DEF Receive, LoseServer, PhDirbuildReply, PhGettreesReply, PixelsIgnored,
       PixelsMismatch, PixelsStored, PixelsUnopened, PixelsUnwritten, DropServer, DropTimes,
       Become, servers
  <2> QED
    BY <1>6, <2>1, <2>2
<1>7. ASSUME NEW s \in Slots, Command(s) PROVE HelloInv'
  BY <1>1, <1>4, <1>7 DEF Command, CmdStop, CmdGo, CmdAllocate, CmdDrop, CmdReset, Ran,
     DropServer, DropTimes
<1>8. CASE EndCommand
  BY <1>1, <1>4, <1>8 DEF EndCommand, SendRestart, EndRestart, EndCmd, DropServer, DropTimes,
     servers
<1>9. CASE Pass
  <2>1. hello' \subseteq hello
    BY <1>9 DEF Pass
  <2>2. CASE BeginSchedule \/ PassConn \/ EndConn \/ FrameIsDone \/ FrameNotDone \/ EndFrames
             \/ TaskRefused \/ NextPass \/ NextFrame \/ EndAssign
    BY <1>4, <2>1, <2>2 DEF BeginSchedule, PassConn, EndConn, FrameIsDone, FrameNotDone,
       EndFrames, TaskRefused, NextPass, NextFrame, EndAssign, servers
  <2>3. CASE TaskTardy \/ \E late \in BOOLEAN : CheckSetup(late)
    BY <1>1, <1>4, <2>1, <2>3 DEF TaskTardy, CheckSetup, DropServer, DropTimes
  <2>4. ASSUME NEW failed \in 0 .. 2, SendDirbuild(failed) \/ TaskGettrees(failed)
        PROVE  HelloInv'
    <3>1. state[at] \notin {"NEW", "CLOSING"}
      BY <2>4 DEF SendDirbuild, TaskGettrees, Eligible, Idle, Ready, Requeues
    <3> QED
      BY <1>1, <1>4, <2>1, <2>4, <3>1 DEF SendDirbuild, TaskGettrees, DropTimes, Become
  <2>5. ASSUME NEW lump \in 1 .. MaxLump,
               TaskAssign(lump) \/ TaskLinesFail(lump) \/ TaskMatrixFail(lump)
        PROVE  HelloInv'
    BY <1>1, <1>4, <2>1, <2>5 DEF TaskAssign, TaskLinesFail, TaskMatrixFail
  <2>6. CASE FinalClose
    <3>1. hello' = hello \ {at}
      BY <1>9, <2>6 DEF Pass, FinalClose
    <3> QED
      BY <1>1, <1>4, <2>6, <3>1 DEF FinalClose
  <2> QED
    BY <1>9, <2>2, <2>3, <2>4, <2>5, <2>6 DEF Pass
<1> QED
  BY <1>3, <1>5, <1>6, <1>7, <1>8, <1>9 DEF Next

\* Every step keeps the invariant.
LEMMA NextSafe ==
  ASSUME NEW T, SafeBut(T), HelloInv, [Next]_envVars, RequeuedOnly
  PROVE  SafeBut(T)' /\ HelloInv'
<1>1. TypeInv' /\ TypeInv /\ phase # "restart"
  BY NextType DEF SafeBut, Slotted, NotRestarting
<1>2. HelloInv'
  BY <1>1, NextHello DEF RequeuedOnly
<1>3. CASE UNCHANGED envVars \/ Over
  <2>1. QuietStep
    BY <1>1, <1>3 DEF Over, envVars, vars, job, servers, loop, QuietStep, Listed
  <2> QED
    BY <1>1, <1>2, <2>1, QuietSafe
<1>4. CASE Connect
  BY <1>1, <1>2, <1>4, ConnectSafe DEF Connect
<1>5. CASE Hosts
  BY <1>1, <1>2, <1>5, LoopSafe, DropsSafe DEF Hosts
<1>6. ASSUME NEW s \in Slots, Hello(s) \/ Receive(s) PROVE SafeBut(T)'
  <2>1. CASE Hello(s)
    <3>1. state[s] \notin Requeues
      BY <2>1 DEF Hello, HelloInv, HelloNew, Requeues
    <3> QED
      BY <1>1, <2>1, <3>1, ReceiveSafe DEF Hello
  <2>2. CASE LoseServer(s) \/ PixelsIgnored(s)
    BY <1>1, <2>2, ReceiveSafe
  <2>6. CASE PixelsMismatch(s, work[s], TRUE)
    BY <1>1, <2>6, ReceiveSafe, Zenon
  <2>3. CASE PhDirbuildReply(s) \/ PhGettreesReply(s)
    BY <1>1, <2>3, ReceiveSafe
  <2>4. CASE PixelsUnopened(s) /\ work[s].frame \notin Listed
    BY <1>1, <2>4, ReceiveSafe
  <2>5. CASE \/ \E slow \in BOOLEAN : PixelsStored(s, slow)
             \/ \E n \in 0 .. NPix : PixelsUnwritten(s, n)
    BY <1>1, <2>5, ReceiveSafe
  <2> QED
    BY <1>6, <2>1, <2>2, <2>3, <2>4, <2>5, <2>6 DEF Receive, RequeuedOnly
<1>7. ASSUME NEW s \in Slots, Command(s) PROVE SafeBut(T)'
  <2>1. CASE CmdStop(s) \/ CmdGo(s) \/ \E m \in {FRAME, LOAD, MOVIE} : CmdAllocate(s, m)
    <3>1. QuietStep
      BY <1>7, <2>1 DEF Command, CmdStop, CmdGo, CmdAllocate, Ran, PhCmd, QuietStep, Listed
    <3> QED
      BY <1>1, <3>1, QuietSafe
  <2>2. ASSUME NEW t \in Slots, CmdDrop(s, t) PROVE SafeBut(T)'
    BY <1>1, <1>7, <2>2, DropsSafe DEF Command
  <2>3. CASE CmdReset(s)
    BY <1>1, <1>7, <2>3, ResetSafe DEF Command
  <2> QED
    BY <1>7, <2>1, <2>2, <2>3 DEF Command, RequeuedOnly
<1>8. CASE EndCommand
  <2>1. EndCmd /\ cmdFrom \in Slots
    BY <1>1, <1>8 DEF EndCommand, SendRestart, EndRestart, EndCmd, TypeInv, CommandSlot
  <2> QED
    BY <1>1, <1>2, <2>1, DropsSafe
<1>9. CASE Pass \/ Poll
  BY <1>1, <1>2, <1>9, PassSafe DEF Pass, Poll, RequeuedOnly
<1> QED
  BY <1>2, <1>3, <1>4, <1>5, <1>6, <1>7, <1>8, <1>9 DEF Next

LEMMA SafeInvariant ==
  ASSUME RequeuedOnly
  PROVE  Spec => [](SafeInv /\ HelloInv)
<1>1. PICK T : T = NoneTorn
  OBVIOUS
<1>2. EnvInit => SafeBut(T) /\ HelloInv
  BY <1>1, InitSafe, SafeNone DEF EnvInit, HelloInv, HelloNew
<1>3. SafeBut(T) /\ HelloInv /\ [Next]_envVars => SafeBut(T)' /\ HelloInv'
  BY NextSafe
<1>4. SafeBut(T) => SafeInv
  BY <1>1, SafeNone
<1> QED
  BY <1>2, <1>3, <1>4, PTL DEF Spec

\* However servers come, fail and go, every pixel of a frame in progress is on
\* disk, in fr_todo or assigned: drop_server, task_server and ph_pixels forget
\* none between them.
THEOREM NoPixelIsLost ==
  ASSUME RequeuedOnly
  PROVE  Spec => []NoPixelLost
<1>1. SafeInv => NoPixelLost
  BY DEF SafeInv
<1> QED
  BY <1>1, SafeInvariant, PTL

\* Work is only ever held by a connected server in a state from which
\* drop_server puts it back.
THEOREM NoWorkIsStranded ==
  ASSUME RequeuedOnly
  PROVE  Spec => []NoWorkStranded
<1>1. SafeInv => NoWorkStranded
  BY DEF SafeInv, Slotted
<1> QED
  BY <1>1, SafeInvariant, PTL

\* frame_is_done write-protects complete files only.
THEOREM FinishedFramesComplete ==
  ASSUME RequeuedOnly
  PROVE  Spec => []FinishedComplete
<1>1. SafeInv => FinishedComplete
  BY DEF SafeInv
<1> QED
  BY <1>1, SafeInvariant, PTL

-----------------------------------------------------------------------------
(* Lists of spans that do not overlap                                      *)

\* A span in front of a list that has none of its pixels.
LEMMA DisjointPush ==
  ASSUME NEW q \in Seq(SpanSet), NEW x \in SpanSet, Disjoint(q),
         PixelsOf(x) \cap Pixels(q) = {}
  PROVE  Disjoint(Push(x, q))
<1>1. /\ DOMAIN Push(x, q) = 1 .. Len(q) + 1 /\ Push(x, q)[1] = x
      /\ \A i \in 1 .. Len(q) : Push(x, q)[i + 1] = q[i]
  BY DEF Push
<1>2. \A k \in 1 .. Len(q) + 1 : k # 1 => k - 1 \in DOMAIN q /\ Push(x, q)[k] = q[k - 1]
  BY <1>1
<1>3. \A k \in DOMAIN q : PixelsOf(x) \cap PixelsOf(q[k]) = {}
  BY DEF Pixels
<1> SUFFICES ASSUME NEW i \in 1 .. Len(q) + 1, NEW j \in 1 .. Len(q) + 1, i # j
             PROVE  PixelsOf(Push(x, q)[i]) \cap PixelsOf(Push(x, q)[j]) = {}
  BY <1>1 DEF Disjoint
<1>4. CASE i = 1
  BY <1>1, <1>2, <1>3, <1>4
<1>5. CASE j = 1
  BY <1>1, <1>2, <1>3, <1>5
<1>6. CASE i # 1 /\ j # 1
  <2>1. i - 1 # j - 1
    OBVIOUS
  <2> QED
    BY <1>2, <1>6, <2>1 DEF Disjoint
<1> QED
  BY <1>4, <1>5, <1>6

\* The first span of a list has none of the pixels of the others.
LEMMA DisjointTail ==
  ASSUME NEW q \in Seq(SpanSet), q # <<>>, Disjoint(q)
  PROVE  Disjoint(Tail(q)) /\ PixelsOf(Head(q)) \cap Pixels(Tail(q)) = {}
<1>1. /\ DOMAIN Tail(q) = 1 .. Len(q) - 1 /\ Head(q) = q[1] /\ 1 \in DOMAIN q
      /\ \A i \in 1 .. Len(q) - 1 : i + 1 \in DOMAIN q /\ Tail(q)[i] = q[i + 1]
  OBVIOUS
<1>2. Disjoint(Tail(q))
  <2> SUFFICES ASSUME NEW i \in 1 .. Len(q) - 1, NEW j \in 1 .. Len(q) - 1, i # j
               PROVE  PixelsOf(Tail(q)[i]) \cap PixelsOf(Tail(q)[j]) = {}
    BY <1>1 DEF Disjoint
  <2>1. i + 1 # j + 1
    OBVIOUS
  <2> QED
    BY <1>1, <2>1 DEF Disjoint
<1>3. ASSUME NEW i \in 1 .. Len(q) - 1 PROVE PixelsOf(Head(q)) \cap PixelsOf(Tail(q)[i]) = {}
  <2>1. i + 1 # 1
    OBVIOUS
  <2> QED
    BY <1>1, <2>1 DEF Disjoint
<1> QED
  BY <1>1, <1>2, <1>3 DEF Pixels

\* task_server cuts a lump off a list without overlap.
LEMMA LumpApart ==
  ASSUME NEW q \in Seq(SpanSet), q # <<>>, NEW lump \in Nat \ {0}, Disjoint(q)
  PROVE  /\ Disjoint(WithoutLump(q, lump))
         /\ PixelsOf(Lump(q, lump)) \cap Pixels(WithoutLump(q, lump)) = {}
<1> DEFINE h == Head(q)
           b == h.start + lump - 1
           rest == [h EXCEPT !.start = b + 1]
<1>1. h \in SpanSet /\ Tail(q) \in Seq(SpanSet)
  OBVIOUS
<1>2. h.start \in Image /\ h.stop \in Image /\ h.frame \in FrameNums /\ b \in Int
  BY <1>1, ProtocolAssumption DEF SpanSet, Image
<1>3. Disjoint(Tail(q)) /\ PixelsOf(h) \cap Pixels(Tail(q)) = {}
  BY DisjointTail
<1>4. CASE b >= h.stop
  <2>1. Lump(q, lump) = Span(h.frame, h.start, h.stop) /\ WithoutLump(q, lump) = Tail(q)
    BY <1>4 DEF Lump, WithoutLump
  <2>2. PixelsOf(Lump(q, lump)) = PixelsOf(h)
    BY <2>1 DEF PixelsOf, Span
  <2> QED
    BY <1>3, <2>1, <2>2
<1>5. CASE ~(b >= h.stop)
  <2>1. Lump(q, lump) = Span(h.frame, h.start, b) /\ WithoutLump(q, lump) = Push(rest, Tail(q))
    BY <1>5 DEF Lump, WithoutLump
  <2>2. b \in Image /\ b + 1 \in Image
    BY <1>2, <1>5, ProtocolAssumption DEF Image
  <2>3. rest \in SpanSet /\ rest.start = b + 1 /\ rest.stop = h.stop
    BY <1>1, <2>2 DEF SpanSet
  <2>4. /\ PixelsOf(rest) \subseteq PixelsOf(h) /\ PixelsOf(Lump(q, lump)) \subseteq PixelsOf(h)
        /\ PixelsOf(Lump(q, lump)) \cap PixelsOf(rest) = {}
    BY <1>2, <1>5, <2>1, <2>2, <2>3 DEF PixelsOf, Span, Image
  <2> HIDE DEF rest
  <2>5. Disjoint(Push(rest, Tail(q)))
    BY <1>1, <1>3, <2>3, <2>4, DisjointPush
  <2>6. Pixels(Push(rest, Tail(q))) = PixelsOf(rest) \cup Pixels(Tail(q))
    BY <1>1, <2>3, PixelsPush
  <2> QED
    BY <1>3, <2>1, <2>4, <2>5, <2>6
<1> QED
  BY <1>4, <1>5

-----------------------------------------------------------------------------
(* No pixel twice                                                          *)

\* A pixel is once in fr_todo at most, with one server at most, and not in both.
\* This is about finished and discarded frames too: a server may still put
\* pixels of one back.
WaitingOnce == \A f \in FrameNums : Disjoint(todo[f])
OutOnce ==
  \A s, t \in Slots :
    s # t /\ work[s].frame = work[t].frame =>
      PixelsOf(work[s]) \cap PixelsOf(work[t]) = {}
WaitingOrOut ==
  \A s \in Slots, f \in FrameNums :
    work[s].frame = f => PixelsOf(work[s]) \cap Pixels(todo[f]) = {}
Exclusive == WaitingOnce /\ OutOnce /\ WaitingOrOut

\* What a step may do to the work: a server lets go of its span, which is put
\* back or not; an idle server is given a lump of a frame's list, or nearly so;
\* lists are emptied.
LetsGo(s) == work' = [work EXCEPT ![s] = NoWork]
Assigns(s, f, lump) ==
  /\ work[s] = NoWork /\ todo[f] # <<>>
  /\ work' = [work EXCEPT ![s] = Lump(todo[f], lump)]
  /\ todo' = [todo EXCEPT ![f] = WithoutLump(todo[f], lump)]
Reassigns(f, lump) ==
  /\ todo[f] # <<>> /\ work' = work
  /\ todo' = [todo EXCEPT ![f] = Push(Lump(todo[f], lump), WithoutLump(todo[f], lump))]
Empties ==
  /\ work' = work
  /\ \E F \in SUBSET FrameNums :
       todo' = [f \in FrameNums |-> IF f \in F THEN <<>> ELSE todo[f]]
WorkStep ==
  \/ UNCHANGED <<work, todo>>
  \/ \E s \in Slots : LetsGo(s) /\ todo' \in {todo, Requeued(s)}
  \/ \E s \in Slots, f \in FrameNums, lump \in 1 .. MaxLump : Assigns(s, f, lump)
  \/ \E f \in FrameNums, lump \in 1 .. MaxLump : Reassigns(f, lump)
  \/ Empties

\* An empty sr_work has no pixel.
LEMMA NoWorkEmpty == PixelsOf(NoWork) = {} /\ NoWork.frame \notin FrameNums
BY ProtocolAssumption DEF PixelsOf, NoWork, Span, NoFrame, FrameNums

\* A server that lets go of its span makes nothing overlap, wherever the span
\* goes.
LEMMA LetsGoExclusive ==
  ASSUME TypeInv, Exclusive, NEW s \in Slots, LetsGo(s), todo' \in {todo, Requeued(s)}
  PROVE  Exclusive'
<1>1. /\ todo \in [FrameNums -> Seq(SpanSet)]
      /\ work \in [Slots -> SpanSet \cup {NoWork}]
      /\ \A t \in Slots \ {s} : work'[t] = work[t]
      /\ work'[s] = NoWork /\ work' \in [Slots -> SpanSet \cup {NoWork}]
  BY DEF TypeInv, TypesOK, JobOK, TodoOK, ServersOK, LetsGo
<1>2. OutOnce'
  BY <1>1, NoWorkEmpty DEF Exclusive, OutOnce
<1>3. CASE todo' = todo
  BY <1>1, <1>2, <1>3, NoWorkEmpty DEF Exclusive, WaitingOnce, WaitingOrOut
<1>4. CASE todo' = Requeued(s) /\ work[s] # NoWork
  <2> DEFINE x == work[s]
             g == x.frame
  <2>1. x \in SpanSet /\ g \in FrameNums
    BY <1>1, <1>4 DEF SpanSet
  <2>2. todo' = [todo EXCEPT ![g] = Push(x, todo[g])]
    BY <1>4 DEF Requeued
  <2>3. PixelsOf(x) \cap Pixels(todo[g]) = {} /\ Disjoint(todo[g]) /\ todo[g] \in Seq(SpanSet)
    BY <1>1, <2>1 DEF Exclusive, WaitingOrOut, WaitingOnce
  <2>4. ASSUME NEW t \in Slots, t # s, work[t].frame = g
        PROVE  PixelsOf(work[t]) \cap PixelsOf(x) = {}
    BY <2>4 DEF Exclusive, OutOnce
  <2>5. \A f \in FrameNums : todo'[f] = IF f = g THEN Push(x, todo[g]) ELSE todo[f]
    BY <1>1, <2>2
  <2> HIDE DEF x, g
  <2>6. /\ Disjoint(Push(x, todo[g]))
        /\ Pixels(Push(x, todo[g])) = PixelsOf(x) \cup Pixels(todo[g])
    BY <2>1, <2>3, DisjointPush, PixelsPush
  <2>7. WaitingOnce'
    BY <2>5, <2>6 DEF Exclusive, WaitingOnce
  <2>8. WaitingOrOut'
    <3> SUFFICES ASSUME NEW t \in Slots, NEW f \in FrameNums, work'[t].frame = f
                 PROVE  PixelsOf(work'[t]) \cap Pixels(todo'[f]) = {}
      BY DEF WaitingOrOut
    <3>1. CASE t = s
      BY <1>1, <3>1, NoWorkEmpty
    <3>2. CASE t # s
      <4>1. /\ work'[t] = work[t] /\ work[t].frame = f
            /\ PixelsOf(work[t]) \cap Pixels(todo[f]) = {}
        BY <1>1, <3>2 DEF Exclusive, WaitingOrOut
      <4>2. CASE f = g
        BY <2>4, <2>5, <2>6, <3>2, <4>1, <4>2
      <4>3. CASE f # g
        BY <2>5, <4>1, <4>3
      <4> QED
        BY <4>2, <4>3
    <3> QED
      BY <3>1, <3>2
  <2> QED
    BY <1>2, <2>7, <2>8 DEF Exclusive
<1>5. CASE todo' = Requeued(s) /\ work[s] = NoWork
  BY <1>3, <1>5 DEF Requeued
<1> QED
  BY <1>3, <1>4, <1>5

\* Nor does handing out a lump.
LEMMA AssignsExclusive ==
  ASSUME TypeInv, Exclusive, NEW s \in Slots, NEW f \in FrameNums, NEW lump \in 1 .. MaxLump,
         Assigns(s, f, lump)
  PROVE  Exclusive'
<1> DEFINE q == todo[f]
           x == Lump(q, lump)
           rest == WithoutLump(q, lump)
<1>1. /\ todo \in [FrameNums -> Seq(SpanSet)] /\ q \in Seq(SpanSet) /\ q # <<>>
      /\ work \in [Slots -> SpanSet \cup {NoWork}] /\ work[s] = NoWork
      /\ \A i \in DOMAIN q : q[i].frame = f
  BY DEF TypeInv, TypesOK, JobOK, TodoOK, ServersOK, Assigns
<1>2. lump \in Nat \ {0} /\ Disjoint(q)
  BY RemrtAssumption DEF Exclusive, WaitingOnce
<1>30. /\ x \in SpanSet /\ rest \in Seq(SpanSet) /\ Pixels(q) = PixelsOf(x) \cup Pixels(rest)
       /\ Disjoint(rest) /\ PixelsOf(x) \cap Pixels(rest) = {}
  BY <1>1, <1>2, LumpDivides, LumpApart
<1>31. x.frame = f
  BY <1>1, <1>2, WithoutLumpFramed
<1>3. /\ x \in SpanSet /\ rest \in Seq(SpanSet) /\ Pixels(q) = PixelsOf(x) \cup Pixels(rest)
      /\ Disjoint(rest) /\ PixelsOf(x) \cap Pixels(rest) = {} /\ x.frame = f
  BY <1>30, <1>31
<1>4. /\ \A t \in Slots : work'[t] = IF t = s THEN x ELSE work[t]
      /\ \A g \in FrameNums : todo'[g] = IF g = f THEN rest ELSE todo[g]
  BY <1>1 DEF Assigns
<1>5. \A t \in Slots : work[t].frame = f => PixelsOf(work[t]) \cap Pixels(q) = {}
  BY DEF Exclusive, WaitingOrOut
<1>6. \A t \in Slots, g \in FrameNums :
        work[t].frame = g => PixelsOf(work[t]) \cap Pixels(todo[g]) = {}
  BY DEF Exclusive, WaitingOrOut
<1> HIDE DEF q, x, rest
<1>7. WaitingOnce'
  BY <1>3, <1>4 DEF Exclusive, WaitingOnce
<1>8. OutOnce'
  <2> SUFFICES ASSUME NEW t \in Slots, NEW u \in Slots, t # u, work'[t].frame = work'[u].frame
               PROVE  PixelsOf(work'[t]) \cap PixelsOf(work'[u]) = {}
    BY DEF OutOnce
  <2>1. CASE t # s /\ u # s
    BY <1>4, <2>1 DEF Exclusive, OutOnce
  <2>2. CASE t = s
    BY <1>3, <1>4, <1>5, <2>2
  <2>3. CASE u = s
    BY <1>3, <1>4, <1>5, <2>3
  <2> QED
    BY <2>1, <2>2, <2>3
<1>9. WaitingOrOut'
  <2> SUFFICES ASSUME NEW t \in Slots, NEW g \in FrameNums, work'[t].frame = g
               PROVE  PixelsOf(work'[t]) \cap Pixels(todo'[g]) = {}
    BY DEF WaitingOrOut
  <2>1. CASE t = s
    BY <1>3, <1>4, <2>1
  <2>2. CASE t # s /\ g = f
    BY <1>3, <1>4, <1>5, <2>2
  <2>3. CASE t # s /\ g # f
    BY <1>4, <1>6, <2>3
  <2> QED
    BY <2>1, <2>2, <2>3
<1> QED
  BY <1>7, <1>8, <1>9 DEF Exclusive

\* Nor does a lump that is handed out and put back.
LEMMA ReassignsExclusive ==
  ASSUME TypeInv, Exclusive, NEW f \in FrameNums, NEW lump \in 1 .. MaxLump,
         Reassigns(f, lump)
  PROVE  Exclusive' /\ \A g \in FrameNums : Pixels(todo'[g]) = Pixels(todo[g])
<1> DEFINE q == todo[f]
           x == Lump(q, lump)
           rest == WithoutLump(q, lump)
<1>1. todo \in [FrameNums -> Seq(SpanSet)] /\ q \in Seq(SpanSet) /\ q # <<>> /\ work' = work
  BY DEF TypeInv, TypesOK, JobOK, TodoOK, Reassigns
<1>2. lump \in Nat \ {0} /\ Disjoint(q)
  BY RemrtAssumption DEF Exclusive, WaitingOnce
<1>3. /\ x \in SpanSet /\ rest \in Seq(SpanSet) /\ Pixels(q) = PixelsOf(x) \cup Pixels(rest)
      /\ Disjoint(rest) /\ PixelsOf(x) \cap Pixels(rest) = {}
  BY <1>1, <1>2, LumpDivides, LumpApart
<1>4. \A g \in FrameNums : todo'[g] = IF g = f THEN Push(x, rest) ELSE todo[g]
  BY <1>1 DEF Reassigns
<1>5. Disjoint(Push(x, rest)) /\ Pixels(Push(x, rest)) = Pixels(q)
  <2> HIDE DEF q, x, rest
  <2> QED
    BY <1>3, DisjointPush, PixelsPush
<1>6. \A g \in FrameNums : Pixels(todo'[g]) = Pixels(todo[g])
  BY <1>4, <1>5
<1> HIDE DEF q, x, rest
<1>7. WaitingOnce'
  BY <1>4, <1>5 DEF Exclusive, WaitingOnce
<1>8. OutOnce' /\ WaitingOrOut'
  BY <1>1, <1>6 DEF Exclusive, OutOnce, WaitingOrOut
<1> QED
  BY <1>6, <1>7, <1>8 DEF Exclusive

\* Nor does throwing frames away.
LEMMA EmptiesExclusive ==
  ASSUME TypeInv, Exclusive, Empties
  PROVE  Exclusive'
<1>1. /\ work' = work
      /\ \A f \in FrameNums : todo'[f] = todo[f] \/ todo'[f] = <<>>
  BY DEF Empties
<1>2. Disjoint(<<>>) /\ Pixels(<<>>) = {}
  BY DEF Disjoint, Pixels
<1> QED
  BY <1>1, <1>2 DEF Exclusive, WaitingOnce, OutOnce, WaitingOrOut

LEMMA WorkStepExclusive ==
  ASSUME TypeInv, Exclusive, WorkStep
  PROVE  Exclusive'
<1>1. CASE UNCHANGED <<work, todo>>
  BY <1>1 DEF Exclusive, WaitingOnce, OutOnce, WaitingOrOut
<1> QED
  BY <1>1, LetsGoExclusive, AssignsExclusive, ReassignsExclusive, EmptiesExclusive DEF WorkStep

\* drop_server, any number of times, and send_restart are steps of this kind.
LEMMA DropWork ==
  ASSUME NEW s \in Slots, NEW n, DropTimes(s, n)
  PROVE  WorkStep
BY DEF DropTimes, WorkStep, LetsGo

\* So is connecting a client.
LEMMA AddWork ==
  ASSUME NEW s \in FreeSlot, NEW kind, AddClient(s, kind), todo' = todo
  PROVE  WorkStep
BY DEF AddClient, FreeSlot, WorkStep, LetsGo

\* So is every outcome of task_server.
LEMMA TaskWork ==
  ASSUME TypeInv,
         \/ TaskTardy \/ TaskRefused
         \/ \E n \in 0 .. 2 : TaskGettrees(n)
         \/ \E lump \in 1 .. MaxLump :
              TaskAssign(lump) \/ TaskLinesFail(lump) \/ TaskMatrixFail(lump)
  PROVE  WorkStep
<1>1. Tasking /\ at \in Slots
  BY DEF TypeInv, TypesOK, LoopOK, Tasking, TaskTardy, TaskRefused, TaskGettrees, TaskAssign,
     TaskLinesFail, TaskMatrixFail, CanAssign, Eligible
<1>2. CASE TaskTardy \/ \E n \in 1 .. 2 : TaskGettrees(n)
  <2>1. \E n \in 1 .. 2 : DropTimes(at, n)
    BY <1>2 DEF TaskTardy, DropServer, TaskGettrees
  <2> QED
    BY <1>1, <2>1, DropWork
<1>3. CASE TaskRefused \/ TaskGettrees(0)
  BY <1>3 DEF TaskRefused, TaskGettrees, job, servers, WorkStep
<1>4. ASSUME NEW lump \in 1 .. MaxLump,
             TaskAssign(lump) \/ TaskLinesFail(lump) \/ TaskMatrixFail(lump)
      PROVE  WorkStep
  <2>1. todo[Fr] # <<>> /\ Idle(at)
    BY <1>4 DEF TaskAssign, TaskLinesFail, TaskMatrixFail, CanAssign, Eligible
  <2>2. Fr \in FrameNums
    BY <1>1, <2>1, LumpType, <1>4
  <2>3. Assigns(at, Fr, lump) \/ Reassigns(Fr, lump)
    BY <1>4, <2>1 DEF TaskAssign, TaskLinesFail, TaskMatrixFail, Idle, Assigns, Reassigns
  <2> QED
    BY <1>1, <2>2, <2>3 DEF WorkStep
<1>5. \A n \in 0 .. 2 : n = 0 \/ n \in 1 .. 2
  OBVIOUS
<1> QED
  BY <1>2, <1>3, <1>4, <1>5

\* So is every step of the dispatcher, with any failure and any command.
LEMMA NextWork ==
  ASSUME TypeInv, [Next]_envVars
  PROVE  WorkStep
<1>1. CASE UNCHANGED envVars
  BY <1>1 DEF envVars, vars, job, servers, WorkStep
<1>2. CASE Connect
  <2>1. todo' = todo /\ (work' = work \/ \E s \in FreeSlot, kind \in {"tcp", "pipe"} : AddClient(s, kind))
    BY <1>2 DEF Connect, StartLocal, AcceptTcp, job, servers
  <2> QED
    BY <2>1, AddWork DEF WorkStep
<1>3. CASE Hosts
  <2>1. (\E s \in Slots : DropTimes(s, 1)) \/ UNCHANGED <<work, todo>>
    BY <1>3 DEF Hosts, StartRemote, EndHosting, AutoDrop, DropServer, job, servers
  <2> QED
    BY <2>1, DropWork DEF WorkStep
<1>4. ASSUME NEW s \in Slots, Hello(s) PROVE WorkStep
  BY <1>4 DEF Hello, PhVersion, Become, WorkStep
<1>5. ASSUME NEW s \in Slots, Receive(s) PROVE WorkStep
  <2>1. \/ DropTimes(s, 1)
        \/ UNCHANGED <<work, todo>>
        \/ LetsGo(s) /\ todo' = todo
    BY <1>5 DEF Receive, LoseServer, PhDirbuildReply, PhGettreesReply, Become, PixelsIgnored,
       PixelsMismatch, PixelsStored, PixelsUnopened, PixelsUnwritten, DropServer, LetsGo,
       job, servers
  <2> QED
    BY <2>1, DropWork DEF WorkStep
<1>6. ASSUME NEW s \in Slots, Command(s) PROVE WorkStep
  <2>1. CASE CmdReset(s)
    <3>1. Listed \subseteq FrameNums
      BY ListedType
    <3> QED
      BY <2>1, <3>1 DEF CmdReset, PhCmd, WorkStep, Empties
  <2>2. CASE ~CmdReset(s)
    <3>1. (\E t \in Slots : DropTimes(t, 1)) \/ UNCHANGED <<work, todo>>
      BY <1>6, <2>2 DEF Command, CmdStop, CmdGo, CmdAllocate, CmdDrop, CmdRestart, Ran,
         PhCmd, DropServer
    <3> QED
      BY <3>1, DropWork DEF WorkStep
  <2> QED
    BY <2>1, <2>2
<1>7. CASE EndCommand
  <2>1. ASSUME NEW ok \in BOOLEAN, SendRestart(ok) PROVE WorkStep
    <3>1. at \in Slots
      BY <2>1 DEF SendRestart, TypeInv, TypesOK, LoopOK
    <3>2. \/ UNCHANGED <<work, todo>>
          \/ work' = [work EXCEPT ![at] = NoWork] /\ todo' = Requeued(at)
      BY <2>1, Zenon DEF SendRestart
    <3> QED
      BY <3>1, <3>2 DEF WorkStep, LetsGo
  <2>2. CASE EndRestart
    BY <2>2 DEF EndRestart, job, servers, WorkStep
  <2>3. CASE EndCmd
    <3>1. cmdFrom \in Slots /\ DropTimes(cmdFrom, 1)
      BY <2>3 DEF EndCmd, DropServer, TypeInv, CommandSlot
    <3> QED
      BY <3>1, DropWork
  <2> QED
    BY <1>7, <2>1, <2>2, <2>3 DEF EndCommand
<1>8. CASE Pass
  <2>1. CASE \/ BeginSchedule \/ PassConn \/ EndConn \/ FinalClose \/ FrameIsDone
             \/ FrameNotDone \/ EndFrames \/ NextPass \/ NextFrame \/ EndAssign
    <3>1. UNCHANGED <<work, todo>>
      BY <2>1 DEF BeginSchedule, PassConn, EndConn, FinalClose, FrameIsDone, FrameNotDone,
         EndFrames, NextPass, NextFrame, EndAssign, job, servers
    <3> QED
      BY <3>1 DEF WorkStep
  <2>2. ASSUME NEW n \in 0 .. 2, SendDirbuild(n) PROVE WorkStep
    <3>1. at \in Slots /\ (UNCHANGED <<work, todo>> \/ DropTimes(at, n))
      BY <2>2 DEF SendDirbuild, Become, TypeInv, TypesOK, LoopOK
    <3> QED
      BY <3>1, DropWork DEF WorkStep
  <2>3. ASSUME NEW late \in BOOLEAN, CheckSetup(late) PROVE WorkStep
    <3>1. at \in Slots /\ (UNCHANGED <<work, todo>> \/ DropTimes(at, 1))
      BY <2>3 DEF CheckSetup, DropServer, TypeInv, TypesOK, LoopOK
    <3> QED
      BY <3>1, DropWork DEF WorkStep
  <2> QED
    BY <1>8, <2>1, <2>2, <2>3, TaskWork DEF Pass
<1>9. CASE Poll \/ Over
  BY <1>1, <1>9 DEF Poll, EndInput, Over, job, servers, WorkStep
<1> QED
  BY <1>1, <1>2, <1>3, <1>4, <1>5, <1>6, <1>7, <1>8, <1>9 DEF Next

\* At the start each frame is one span, and nobody has work.
LEMMA InitExclusive == EnvInit => Exclusive
<1> SUFFICES ASSUME EnvInit PROVE Exclusive
  OBVIOUS
<1>1. /\ \A s \in Slots : work[s] = NoWork
      /\ \A f \in FrameNums : todo[f] = <<Span(f, 0, NPix - 1)>>
  BY DEF EnvInit, Init
<1>2. WaitingOnce
  BY <1>1 DEF WaitingOnce, Disjoint
<1>3. OutOnce /\ WaitingOrOut
  BY <1>1, NoWorkEmpty DEF OutOnce, WaitingOrOut
<1> QED
  BY <1>2, <1>3 DEF Exclusive

LEMMA ExclusiveShows ==
  ASSUME TypeInv, Exclusive
  PROVE  NoDoubleAssignment
<1>1. Listed \subseteq FrameNums
  BY ListedType
<1>2. ASSUME NEW f \in Listed PROVE Disjoint(todo[f]) /\ OutOf(f) \cap Pixels(todo[f]) = {}
  <2>1. \A s \in Slots : work[s].frame = f => PixelsOf(work[s]) \cap Pixels(todo[f]) = {}
    BY <1>1 DEF Exclusive, WaitingOrOut
  <2> QED
    BY <1>1, <2>1 DEF Exclusive, WaitingOnce, OutOf
<1> QED
  BY <1>2 DEF Exclusive, OutOnce, NoDoubleAssignment

LEMMA ExclusiveInvariant == Spec => [](TypeInv /\ Exclusive)
<1>1. EnvInit => TypeInv /\ Exclusive
  BY InitType, InitExclusive DEF EnvInit
<1>2. TypeInv /\ Exclusive /\ [Next]_envVars => TypeInv' /\ Exclusive'
  BY NextType, NextWork, WorkStepExclusive
<1> QED
  BY <1>1, <1>2, PTL DEF Spec

\* Whatever fails and whatever commands are run, restart and reset among them,
\* no pixel waits twice, is with two servers, or is with one and waits:
\* task_server and drop_server only ever move spans.
THEOREM NoPixelTwice == Spec => []NoDoubleAssignment
<1>1. TypeInv /\ Exclusive => NoDoubleAssignment
  BY ExclusiveShows
<1> QED
  BY <1>1, ExclusiveInvariant, PTL

-----------------------------------------------------------------------------
(* One server per frame                                                    *)

\* What a step may do to sr_curframe: forget it, or move an eligible server to
\* the frame at hand.
CurStep ==
  /\ method' = MOVIE => method = MOVIE
  /\ \/ \A s \in Slots : cur'[s] \in {cur[s], NoFrame}
     \/ Eligible /\ cur' = [cur EXCEPT ![at] = Fr]

LEMMA CurStepDedicates ==
  ASSUME TypeInv, MovieDedicates, CurStep
  PROVE  MovieDedicates'
<1>1. cur \in [Slots -> FrameNums \cup {NoFrame}]
  BY DEF TypeInv, TypesOK, ServersOK
<1> SUFFICES ASSUME method' = MOVIE, NEW s \in Slots, NEW t \in Slots, s # t, cur'[s] # NoFrame
             PROVE  cur'[s] # cur'[t]
  BY DEF MovieDedicates
<1>2. cur[s] # NoFrame => cur[s] # cur[t]
  BY DEF CurStep, MovieDedicates
<1>3. CASE \A u \in Slots : cur'[u] \in {cur[u], NoFrame}
  BY <1>2, <1>3
<1>4. CASE Eligible /\ cur' = [cur EXCEPT ![at] = Fr]
  <2>1. CASE cur[at] = Fr
    BY <1>1, <1>2, <1>4, <2>1
  <2>2. CASE \A u \in Slots : cur[u] # Fr
    BY <1>1, <1>2, <1>4, <2>2
  <2> QED
    BY <1>4, <2>1, <2>2 DEF Eligible, CurStep
<1> QED
  BY <1>3, <1>4 DEF CurStep

\* drop_server forgets the frame.
LEMMA DropCur ==
  ASSUME TypeInv, NEW s \in Slots, NEW n, DropTimes(s, n), method' = method
  PROVE  CurStep
BY DEF TypeInv, TypesOK, ServersOK, DropTimes, CurStep

\* Every step is of this kind, but for the command that chooses OPT_MOVIE.
LEMMA NextCur ==
  ASSUME TypeInv, [Next]_envVars, "allocate" \notin Commands
  PROVE  CurStep
<1>0. cur \in [Slots -> FrameNums \cup {NoFrame}] /\ method \in {FRAME, LOAD, MOVIE}
  BY DEF TypeInv, TypesOK, ServersOK, JobOK
<1>1. CASE UNCHANGED envVars
  BY <1>1 DEF envVars, vars, job, servers, CurStep
<1>2. CASE Connect
  BY <1>0, <1>2 DEF Connect, StartLocal, AcceptTcp, AddClient, FreeSlot, job, servers, CurStep
<1>3. CASE Hosts
  <2>1. /\ method' = method
        /\ (\E s \in Slots : DropTimes(s, 1)) \/ cur' = cur
    BY <1>3 DEF Hosts, StartRemote, EndHosting, AutoDrop, DropServer, job, servers
  <2> QED
    BY <2>1, DropCur DEF CurStep
<1>4. ASSUME NEW s \in Slots, Hello(s) PROVE CurStep
  BY <1>4 DEF Hello, PhVersion, Become, HandlerFrame, CurStep
<1>5. ASSUME NEW s \in Slots, Receive(s) PROVE CurStep
  <2>1. /\ method' = method
        /\ DropTimes(s, 1) \/ cur' \in {cur, [cur EXCEPT ![s] = NoFrame]}
    BY <1>5 DEF Receive, LoseServer, PhDirbuildReply, PhGettreesReply, Become, PixelsIgnored,
       PixelsMismatch, PixelsStored, PixelsUnopened, PixelsUnwritten, DropServer,
       HandlerFrame, job, servers
  <2> QED
    BY <1>0, <2>1, DropCur DEF CurStep
<1>6. ASSUME NEW s \in Slots, Command(s) PROVE CurStep
  <2>1. CASE CmdReset(s)
    BY <1>0, <2>1 DEF CmdReset, PhCmd, Forget, CurStep
  <2>2. CASE ~CmdReset(s)
    <3>1. /\ method' = method
          /\ (\E t \in Slots : DropTimes(t, 1)) \/ cur' = cur
      BY <1>6, <2>2 DEF Command, CmdStop, CmdGo, CmdDrop, CmdRestart, Ran, PhCmd, DropServer
    <3> QED
      BY <3>1, DropCur DEF CurStep
  <2> QED
    BY <2>1, <2>2
<1>7. CASE EndCommand
  <2>1. ASSUME NEW ok \in BOOLEAN, SendRestart(ok) PROVE CurStep
    <3>1. method' = method /\ cur' \in {cur, [cur EXCEPT ![at] = NoFrame]}
      BY <2>1 DEF SendRestart
    <3> QED
      BY <1>0, <3>1 DEF CurStep
  <2>2. CASE EndRestart
    BY <2>2 DEF EndRestart, job, servers, CurStep
  <2>3. CASE EndCmd
    <3>1. cmdFrom \in Slots /\ DropTimes(cmdFrom, 1) /\ method' = method
      BY <2>3 DEF EndCmd, DropServer, TypeInv, CommandSlot
    <3> QED
      BY <3>1, DropCur
  <2> QED
    BY <1>7, <2>1, <2>2, <2>3 DEF EndCommand
<1>8. CASE Pass
  <2>1. CASE \/ BeginSchedule \/ PassConn \/ EndConn \/ FinalClose \/ FrameNotDone
             \/ EndFrames \/ NextPass \/ NextFrame \/ TaskRefused
    <3>1. UNCHANGED <<method, cur>>
      BY <2>1 DEF BeginSchedule, PassConn, EndConn, FinalClose, FrameNotDone, EndFrames,
         NextPass, NextFrame, TaskRefused, job, servers
    <3> QED
      BY <3>1 DEF CurStep
  <2>2. CASE EndAssign
    BY <1>0, <2>2 DEF EndAssign, servers, CurStep, MOVIE, LOAD, FRAME
  <2>3. CASE FrameIsDone
    BY <1>0, <2>3 DEF FrameIsDone, Forget, CurStep
  <2>4. ASSUME NEW n \in 0 .. 2, SendDirbuild(n) PROVE CurStep
    <3>1. at \in Slots /\ method' = method /\ (cur' = cur \/ DropTimes(at, n))
      BY <2>4 DEF SendDirbuild, Become, TypeInv, TypesOK, LoopOK
    <3> QED
      BY <3>1, DropCur DEF CurStep
  <2>5. CASE TaskTardy \/ \E late \in BOOLEAN : CheckSetup(late)
    <3>1. at \in Slots /\ method' = method /\ (cur' = cur \/ DropTimes(at, 1))
      BY <2>5 DEF TaskTardy, Tasking, CheckSetup, DropServer, TypeInv, TypesOK, LoopOK
    <3> QED
      BY <3>1, DropCur DEF CurStep
  <2>6. ASSUME NEW n \in 0 .. 2, TaskGettrees(n) PROVE CurStep
    <3>1. at \in Slots /\ method' = method
      BY <2>6 DEF TaskGettrees, Eligible, Tasking, TypeInv, TypesOK, LoopOK
    <3>2. DropTimes(at, n) \/ (Eligible /\ cur' = [cur EXCEPT ![at] = Fr])
      BY <2>6 DEF TaskGettrees
    <3> QED
      BY <3>1, <3>2, DropCur DEF CurStep
  <2>7. ASSUME NEW lump \in 1 .. MaxLump,
               TaskAssign(lump) \/ TaskLinesFail(lump) \/ TaskMatrixFail(lump)
        PROVE  CurStep
    <3>1. /\ method' = method /\ Eligible
          /\ cur' \in {cur, [cur EXCEPT ![at] = Fr], [cur EXCEPT ![at] = NoFrame]}
      BY <2>7 DEF TaskAssign, TaskLinesFail, TaskMatrixFail, CanAssign
    <3> QED
      BY <1>0, <3>1 DEF CurStep
  <2> QED
    BY <1>8, <2>1, <2>2, <2>3, <2>4, <2>5, <2>6, <2>7 DEF Pass
<1>9. CASE Poll \/ Over
  BY <1>1, <1>9 DEF Poll, EndInput, Over, job, servers, CurStep
<1> QED
  BY <1>1, <1>2, <1>3, <1>4, <1>5, <1>6, <1>7, <1>8, <1>9 DEF Next

\* As long as nobody turns OPT_MOVIE back on, no two servers share a frame under
\* it, whatever fails (task_server's scan for others on the frame).
THEOREM MovieIsDedicated ==
  ASSUME "allocate" \notin Commands
  PROVE  Spec => []MovieDedicates
<1>1. EnvInit => TypeInv /\ MovieDedicates
  BY InitType DEF EnvInit, Init, MovieDedicates
<1>2. TypeInv /\ MovieDedicates /\ [Next]_envVars => TypeInv' /\ MovieDedicates'
  BY NextType, NextCur, CurStepDedicates
<1> QED
  BY <1>1, <1>2, PTL DEF Spec

-----------------------------------------------------------------------------
(* A server works on the frame it has the view of                          *)

\* No failure or command after which the dispatcher discards work or frames.
NothingDiscarded == RequeuedOnly /\ "reset" \notin Commands

\* A server without work after the step, one that the step leaves alone, and
\* one that it gives work of the frame it is on.
Keeping(s) ==
  /\ work'[s] = work[s] /\ cur'[s] = cur[s]
  /\ cur[s] \in Listed => cur[s] \in Listed'
Viewing(s) == cur'[s] = work'[s].frame /\ cur'[s] \in Listed'
ViewStep == \A s \in Slots : work'[s] = NoWork \/ Keeping(s) \/ Viewing(s)

LEMMA ViewStepHolds ==
  ASSUME WorkHasView, ViewStep
  PROVE  WorkHasView'
BY DEF WorkHasView, ViewStep, Keeping, Viewing

\* Work that drop_server leaves in place is none.
LEMMA DropView ==
  ASSUME SafeInv, NEW s \in Slots, NEW n, DropTimes(s, n), frames' = frames
  PROVE  ViewStep
<1>1. /\ work \in [Slots -> SpanSet \cup {NoWork}]
      /\ cur \in [Slots -> FrameNums \cup {NoFrame}]
      /\ state[s] \notin Requeues => work[s] = NoWork
  BY DEF SafeInv, TypeInv, TypesOK, ServersOK, Slotted, NoWorkStranded
<1>2. work'[s] = NoWork
  BY <1>1 DEF DropTimes
<1>3. \A t \in Slots : t # s => work'[t] = work[t] /\ cur'[t] = cur[t]
  BY <1>1 DEF DropTimes
<1>4. Listed' = Listed
  BY DEF Listed
<1> QED
  BY <1>2, <1>3, <1>4 DEF ViewStep, Keeping

\* Taking one frame off the list leaves the others.
LEMMA RemoveFrameKeeps ==
  ASSUME frames \in Seq(FrameNums), NEW k \in 1 .. Len(frames), frames' = RemoveFrame(k)
  PROVE  Listed \ {frames[k]} \subseteq Listed'
<1> DEFINE A == SubSeq(frames, 1, k - 1)
           B == SubSeq(frames, k + 1, Len(frames))
<1>1. k \in Nat /\ Len(frames) \in Nat /\ 1 <= k /\ k <= Len(frames)
  OBVIOUS
<1>2. /\ A \in Seq(FrameNums) /\ Len(A) = k - 1
      /\ \A i \in 1 .. k - 1 : A[i] = frames[i]
  <2>1. \A i \in 1 .. k - 1 : frames[i] \in FrameNums
    BY <1>1
  <2> QED
    BY <1>1, <2>1
<1>3. /\ B \in Seq(FrameNums) /\ Len(B) = Len(frames) - k
      /\ \A i \in 1 .. Len(frames) - k : B[i] = frames[k + i]
  <2>1. \A i \in k + 1 .. Len(frames) : frames[i] \in FrameNums
    BY <1>1
  <2>2. Len(B) = Len(frames) - k
    BY <1>1
  <2> QED
    BY <1>1, <2>1, <2>2
<1>4. frames' = A \o B
  BY DEF RemoveFrame
<1> HIDE DEF A, B
<1>5. ASSUME NEW i \in 1 .. Len(frames), i # k PROVE frames[i] \in Listed'
  <2>1. CASE i < k
    <3>1. i \in 1 .. Len(A) + Len(B) /\ (A \o B)[i] = A[i] /\ i \in 1 .. k - 1
      BY <1>1, <1>2, <1>3, <2>1
    <3>2. i \in DOMAIN frames' /\ frames'[i] = frames[i]
      BY <1>2, <1>3, <1>4, <3>1
    <3> QED
      BY <3>2 DEF Listed
  <2>2. CASE i > k
    <3>1. /\ i - 1 \in 1 .. Len(A) + Len(B) /\ i - k \in 1 .. Len(frames) - k
          /\ (i - 1) - Len(A) = i - k
      BY <1>1, <1>2, <1>3, <1>5, <2>2
    <3>2. (A \o B)[i - 1] = B[i - k]
      BY <1>1, <1>2, <1>3, <2>2, <3>1
    <3>3. B[i - k] = frames[i]
      <4>1. k + (i - k) = i
        BY <1>1
      <4> QED
        BY <1>3, <3>1, <4>1
    <3>4. i - 1 \in DOMAIN frames' /\ frames'[i - 1] = frames[i]
      BY <1>2, <1>3, <1>4, <3>1, <3>2, <3>3
    <3> QED
      BY <3>4 DEF Listed
  <2> QED
    BY <1>1, <1>5, <2>1, <2>2
<1>6. ASSUME NEW g \in Listed, g # frames[k] PROVE g \in Listed'
  <2>1. PICK i \in 1 .. Len(frames) : g = frames[i]
    BY DEF Listed
  <2>2. i # k
    BY <1>6, <2>1
  <2> QED
    BY <1>5, <2>1, <2>2
<1> QED
  BY <1>6

\* frame_is_done takes a frame off the list that no server works on.
LEMMA DoneView ==
  ASSUME SafeInv, WorkHasView, FrameIsDone
  PROVE  ViewStep
<1> DEFINE f == frames[fpos]
<1>1. /\ frames \in Seq(FrameNums) /\ fpos \in 1 .. Len(frames)
      /\ cur \in [Slots -> FrameNums \cup {NoFrame}]
  BY DEF SafeInv, TypeInv, TypesOK, JobOK, ServersOK, LoopOK, FrameIsDone
<1>2. /\ NoneOutstanding(f) /\ Forget({f}) /\ work' = work /\ frames' = RemoveFrame(fpos)
  BY DEF FrameIsDone
<1> HIDE DEF f
<1>3. Listed \ {f} \subseteq Listed'
  BY <1>1, <1>2, RemoveFrameKeeps DEF f
<1>4. ASSUME NEW s \in Slots, work[s] # NoWork PROVE Keeping(s)
  <2>1. conn[s] # "none" /\ cur[s] = work[s].frame /\ cur[s] \in Listed
    BY <1>4 DEF SafeInv, Slotted, NoWorkStranded, WorkHasView
  <2>2. cur[s] # f
    BY <1>2, <2>1 DEF NoneOutstanding
  <2>3. cur'[s] = cur[s]
    BY <1>2, <2>2 DEF Forget
  <2> QED
    BY <1>2, <1>3, <2>1, <2>2, <2>3 DEF Keeping
<1> QED
  BY <1>2, <1>4 DEF ViewStep

\* A step that touches neither work nor frames.
LEMMA QuietView ==
  ASSUME UNCHANGED <<work, cur, frames>>
  PROVE  ViewStep
BY DEF ViewStep, Keeping, Listed

\* Every step gives work only with its view.
LEMMA NextView ==
  ASSUME SafeInv, WorkHasView, [Next]_envVars, NothingDiscarded
  PROVE  ViewStep
<1>0. /\ cur \in [Slots -> FrameNums \cup {NoFrame}] /\ at \in Slots \cup {NoSlot}
      /\ work \in [Slots -> SpanSet \cup {NoWork}] /\ TypeInv /\ phase # "restart"
  BY DEF SafeInv, TypeInv, TypesOK, ServersOK, LoopOK, Slotted, NotRestarting
<1>1. CASE UNCHANGED envVars
  BY <1>1, QuietView DEF envVars, vars, job, servers
<1>2. CASE Connect
  <2>1. CASE UNCHANGED servers
    <3>1. frames' = frames
      BY <1>2 DEF Connect, StartLocal, AcceptTcp, job
    <3> QED
      BY <2>1, <3>1, QuietView DEF servers
  <2>2. ASSUME NEW s \in FreeSlot, NEW kind, AddClient(s, kind) PROVE ViewStep
    <3>1. /\ frames' = frames /\ s \in Slots
          /\ \A t \in Slots : t # s => work'[t] = work[t] /\ cur'[t] = cur[t]
          /\ work'[s] = NoWork
      BY <1>0, <1>2, <2>2 DEF Connect, StartLocal, AcceptTcp, AddClient, FreeSlot, job
    <3> QED
      BY <3>1 DEF ViewStep, Keeping, Listed
  <2> QED
    BY <1>2, <2>1, <2>2 DEF Connect, StartLocal, AcceptTcp
<1>3. CASE Hosts
  <2>1. /\ frames' = frames
        /\ (\E s \in Slots : DropTimes(s, 1)) \/ UNCHANGED <<work, cur>>
    BY <1>3 DEF Hosts, StartRemote, EndHosting, AutoDrop, DropServer, job, servers
  <2> QED
    BY <2>1, DropView, QuietView
<1>4. ASSUME NEW s \in Slots, Hello(s) PROVE ViewStep
  BY <1>4, QuietView DEF Hello, PhVersion, Become, HandlerFrame
<1>5. ASSUME NEW s \in Slots, Receive(s) PROVE ViewStep
  <2>1. /\ frames' = frames
        /\ \/ DropTimes(s, 1)
           \/ UNCHANGED <<work, cur>>
           \/ LetsGo(s) /\ cur' \in {cur, [cur EXCEPT ![s] = NoFrame]}
    BY <1>5 DEF Receive, LoseServer, PhDirbuildReply, PhGettreesReply, Become, PixelsIgnored,
       PixelsMismatch, PixelsStored, PixelsUnopened, PixelsUnwritten, DropServer,
       HandlerFrame, LetsGo, job, servers
  <2>2. CASE LetsGo(s) /\ cur' \in {cur, [cur EXCEPT ![s] = NoFrame]}
    <3>1. /\ work'[s] = NoWork
          /\ \A t \in Slots : t # s => work'[t] = work[t] /\ cur'[t] = cur[t]
      BY <1>0, <2>2 DEF LetsGo
    <3> QED
      BY <2>1, <3>1 DEF ViewStep, Keeping, Listed
  <2> QED
    BY <2>1, <2>2, DropView, QuietView
<1>6. ASSUME NEW s \in Slots, Command(s) PROVE ViewStep
  <2>1. /\ frames' = frames
        /\ (\E t \in Slots : DropTimes(t, 1)) \/ UNCHANGED <<work, cur>>
    BY <1>6 DEF Command, CmdStop, CmdGo, CmdAllocate, CmdDrop, Ran, PhCmd, DropServer,
       NothingDiscarded, RequeuedOnly
  <2> QED
    BY <2>1, DropView, QuietView
<1>7. CASE EndCommand
  <2>1. cmdFrom \in Slots /\ DropTimes(cmdFrom, 1) /\ frames' = frames
    BY <1>0, <1>7 DEF EndCommand, SendRestart, EndRestart, EndCmd, DropServer, TypeInv,
       CommandSlot
  <2> QED
    BY <2>1, DropView
<1>8. CASE Pass
  <2>1. CASE \/ BeginSchedule \/ PassConn \/ EndConn \/ FinalClose \/ FrameNotDone
             \/ EndFrames \/ NextPass \/ NextFrame \/ EndAssign \/ TaskRefused
    <3>1. UNCHANGED <<work, cur, frames>>
      BY <2>1 DEF BeginSchedule, PassConn, EndConn, FinalClose, FrameNotDone, EndFrames,
         NextPass, NextFrame, EndAssign, TaskRefused, job, servers
    <3> QED
      BY <3>1, QuietView
  <2>2. CASE FrameIsDone
    BY <2>2, DoneView
  <2>3. ASSUME NEW n \in 0 .. 2, SendDirbuild(n) PROVE ViewStep
    <3>1. at \in Slots /\ frames' = frames /\ (UNCHANGED <<work, cur>> \/ DropTimes(at, n))
      BY <1>0, <2>3 DEF SendDirbuild, Become
    <3> QED
      BY <3>1, DropView, QuietView
  <2>4. CASE TaskTardy \/ \E late \in BOOLEAN : CheckSetup(late)
    <3>1. at \in Slots /\ frames' = frames /\ (UNCHANGED <<work, cur>> \/ DropTimes(at, 1))
      BY <1>0, <2>4 DEF TaskTardy, Tasking, CheckSetup, DropServer
    <3> QED
      BY <3>1, DropView, QuietView
  <2>5. ASSUME NEW n \in 0 .. 2, TaskGettrees(n) PROVE ViewStep
    <3>1. at \in Slots /\ frames' = frames
      BY <1>0, <2>5 DEF TaskGettrees, Eligible, Tasking
    <3>2. CASE n = 0
      <4>1. work[at] = NoWork /\ work' = work /\ cur' = [cur EXCEPT ![at] = Fr]
        BY <2>5, <3>2 DEF TaskGettrees, Eligible, Idle
      <4>2. \A t \in Slots : t # at => cur'[t] = cur[t]
        BY <1>0, <4>1
      <4> QED
        BY <3>1, <4>1, <4>2 DEF ViewStep, Keeping, Listed
    <3>3. CASE n # 0
      BY <2>5, <3>1, <3>3, DropView DEF TaskGettrees
    <3> QED
      BY <3>2, <3>3
  <2>6. ASSUME NEW lump \in 1 .. MaxLump, TaskLinesFail(lump) PROVE ViewStep
    <3>1. /\ at \in Slots /\ frames' = frames /\ work' = work /\ work[at] = NoWork
          /\ cur' = [cur EXCEPT ![at] = NoFrame]
      BY <1>0, <2>6 DEF TaskLinesFail, CanAssign, Eligible, Tasking, Idle
    <3>2. \A t \in Slots : t # at => cur'[t] = cur[t]
      BY <1>0, <3>1
    <3> QED
      BY <3>1, <3>2 DEF ViewStep, Keeping, Listed
  <2>7. ASSUME NEW lump \in 1 .. MaxLump, TaskAssign(lump) PROVE ViewStep
    <3>1. /\ Tasking /\ todo[Fr] # <<>> /\ frames' = frames
          /\ work' = [work EXCEPT ![at] = Lump(todo[Fr], lump)]
          /\ cur' = [cur EXCEPT ![at] = Fr]
      BY <2>7 DEF TaskAssign, CanAssign, Eligible
    <3>2. at \in Slots /\ Lump(todo[Fr], lump).frame = Fr
      BY <1>0, <3>1, LumpType
    <3>3. Fr \in Listed
      BY <1>0, <3>1 DEF Tasking, Fr, Listed, TypeInv, TypesOK, JobOK, LoopOK
    <3>4. /\ work'[at].frame = Fr /\ cur'[at] = Fr
          /\ \A t \in Slots : t # at => work'[t] = work[t] /\ cur'[t] = cur[t]
      BY <1>0, <3>1, <3>2
    <3> QED
      BY <3>1, <3>2, <3>3, <3>4 DEF ViewStep, Keeping, Viewing, Listed
  <2> QED
    BY <1>8, <2>1, <2>2, <2>3, <2>4, <2>5, <2>6, <2>7
       DEF Pass, NothingDiscarded, RequeuedOnly
<1>9. CASE Poll \/ Over
  BY <1>1, <1>9, QuietView DEF Poll, EndInput, Over, job, servers
<1> QED
  BY <1>1, <1>2, <1>3, <1>4, <1>5, <1>6, <1>7, <1>8, <1>9 DEF Next

LEMMA ViewInvariant ==
  ASSUME NothingDiscarded
  PROVE  Spec => [](SafeInv /\ HelloInv /\ WorkHasView)
<1>1. EnvInit => WorkHasView
  BY DEF EnvInit, Init, WorkHasView
<1>2. SafeInv /\ WorkHasView /\ [Next]_envVars => WorkHasView'
  BY NextView, ViewStepHolds DEF NothingDiscarded
<1>3. Spec => [](SafeInv /\ HelloInv)
  BY SafeInvariant DEF NothingDiscarded
<1> QED
  BY <1>1, <1>2, <1>3, PTL DEF Spec

\* A server is only ever at work on the frame whose matrix it was sent last, and
\* on none that has been finished, in whatever order servers and frames come
\* and go (task_server, destroy_frame).
THEOREM ServersHaveTheView ==
  ASSUME NothingDiscarded
  PROVE  Spec => []WorkHasView
<1>1. SafeInv /\ WorkHasView => WorkHasView
  OBVIOUS
<1> QED
  BY <1>1, ViewInvariant, PTL

-----------------------------------------------------------------------------
(* The dispatcher implements WorkPool                                      *)

\* The state of the pool that a state of the dispatcher stands for.
Waiting == UNION {{f} \X Pixels(todo[f]) : f \in FrameNums}
Out == [s \in Slots |-> {work[s].frame} \X PixelsOf(work[s])]
Stored == UNION {{f} \X disk[f] : f \in FrameNums}

\* How the units of all frames follow the pixels of one.
LEMMA UnitsSame ==
  ASSUME \A f \in FrameNums : Pixels(todo'[f]) = Pixels(todo[f])
  PROVE  Waiting' = Waiting
BY DEF Waiting

LEMMA UnitsGained ==
  ASSUME NEW g \in FrameNums, NEW D,
         \A f \in FrameNums :
           Pixels(todo'[f]) = IF f = g THEN Pixels(todo[g]) \cup D ELSE Pixels(todo[f])
  PROVE  Waiting' = Waiting \cup ({g} \X D)
BY DEF Waiting

LEMMA UnitsLost ==
  ASSUME NEW g \in FrameNums, NEW D,
         \A f \in FrameNums :
           Pixels(todo'[f]) = IF f = g THEN Pixels(todo[g]) \ D ELSE Pixels(todo[f])
  PROVE  Waiting' = Waiting \ ({g} \X D)
BY DEF Waiting

LEMMA UnitsStored ==
  ASSUME NEW g \in FrameNums, NEW D,
         \A f \in FrameNums : disk'[f] = IF f = g THEN disk[g] \cup D ELSE disk[f]
  PROVE  Stored' = Stored \cup ({g} \X D)
BY DEF Stored

\* What one server's assignment stands for when it changes.
LEMMA OutMoves ==
  ASSUME TypeInv, NEW s \in Slots, NEW x, work' = [work EXCEPT ![s] = x]
  PROVE  Out' = [Out EXCEPT ![s] = {x.frame} \X PixelsOf(x)]
BY DEF Out, TypeInv, TypesOK, ServersOK

\* The steps of the dispatcher, by what they are to the pool.
Idles ==
  /\ UNCHANGED <<work, disk, prot>>
  /\ \A f \in FrameNums : Pixels(todo'[f]) = Pixels(todo[f])
GivesOut ==
  /\ UNCHANGED <<disk, prot>>
  /\ \E s \in Slots, f \in FrameNums, lump \in 1 .. MaxLump : Assigns(s, f, lump)
Writes(s, D) == disk' = [disk EXCEPT ![work[s].frame] = @ \cup D]
Stores(s) ==
  /\ UNCHANGED <<todo, prot>> /\ work[s] # NoWork
  /\ LetsGo(s) /\ Writes(s, PixelsOf(work[s]))
GivesUp(s) ==
  /\ UNCHANGED prot /\ work[s] # NoWork
  /\ LetsGo(s) /\ todo' = Requeued(s)
  /\ \E D \in SUBSET PixelsOf(work[s]) : Writes(s, D)
Finishes ==
  /\ UNCHANGED <<todo, disk, work>>
  /\ \E f \in FrameNums :
       /\ todo[f] = <<>> /\ \A s \in Slots : work[s].frame # f
       /\ prot' = prot \cup {f}

PoolStep == [Pool!PoolNext]_(Pool!poolVars)

LEMMA IdlesPool ==
  ASSUME Idles
  PROVE  PoolStep
<1>1. Waiting' = Waiting
  BY UnitsSame DEF Idles
<1>2. Out' = Out /\ Stored' = Stored /\ prot' = prot
  BY DEF Idles, Out, Stored
<1> QED
  BY <1>1, <1>2 DEF PoolStep, Pool!poolVars, Waiting, Out, Stored

\* A server without work has nothing of the pool's.
LEMMA OutEmpty ==
  ASSUME TypeInv, NEW s \in Slots
  PROVE  work[s] = NoWork => Out[s] = {}
BY NoWorkEmpty DEF Out

\* A lump that is handed out has waited, and is one worker's.
LEMMA GivesOutPool ==
  ASSUME TypeInv, Exclusive, GivesOut
  PROVE  PoolStep
<1>1. PICK s \in Slots, f \in FrameNums, lump \in 1 .. MaxLump : Assigns(s, f, lump)
  BY DEF GivesOut
<1> DEFINE q == todo[f]
           x == Lump(q, lump)
           rest == WithoutLump(q, lump)
           P == {f} \X PixelsOf(x)
<1>2. /\ todo \in [FrameNums -> Seq(SpanSet)] /\ q \in Seq(SpanSet) /\ q # <<>>
      /\ work[s] = NoWork /\ \A i \in DOMAIN q : q[i].frame = f
  BY <1>1 DEF TypeInv, TypesOK, JobOK, TodoOK, Assigns
<1>3. lump \in Nat \ {0} /\ Disjoint(q)
  BY RemrtAssumption DEF Exclusive, WaitingOnce
<1>4. /\ x \in SpanSet /\ Pixels(q) = PixelsOf(x) \cup Pixels(rest)
      /\ PixelsOf(x) \cap Pixels(rest) = {} /\ x.frame = f
  BY <1>2, <1>3, LumpDivides, LumpApart, WithoutLumpFramed
<1>5. \A g \in FrameNums : todo'[g] = IF g = f THEN rest ELSE todo[g]
  BY <1>1, <1>2 DEF Assigns
<1>6. work' = [work EXCEPT ![s] = x]
  BY <1>1 DEF Assigns
<1> HIDE DEF x, rest
<1>7. Waiting' = Waiting \ P
  <2>1. \A g \in FrameNums :
          Pixels(todo'[g]) = IF g = f THEN Pixels(todo[f]) \ PixelsOf(x) ELSE Pixels(todo[g])
    BY <1>4, <1>5
  <2> QED
    BY <2>1, UnitsLost
<1>8. Out' = [Out EXCEPT ![s] = P] /\ Out[s] = {}
  BY <1>2, <1>4, <1>6, OutMoves, OutEmpty
<1>9. Stored' = Stored /\ prot' = prot
  BY DEF GivesOut, Stored
<1>10. P \subseteq Waiting /\ P \subseteq {f} \X Image
  <2>1. PixelsOf(x) \subseteq Image
    BY <1>4, ProtocolAssumption DEF SpanSet, PixelsOf, Image
  <2>2. PixelsOf(x) \subseteq Pixels(todo[f])
    BY <1>4
  <2> QED
    BY <2>1, <2>2 DEF Waiting
<1>11. CASE P = {}
  <2>1. Waiting' = Waiting /\ Out' = Out
    BY <1>7, <1>8, <1>11 DEF Out
  <2> QED
    BY <1>9, <2>1 DEF PoolStep, Pool!poolVars, Waiting, Out, Stored
<1>12. CASE P # {}
  <2> HIDE DEF P
  <2>1. /\ Out[s] = {} /\ P \in SUBSET (Waiting \cap ({f} \X Image)) /\ P # {}
        /\ Waiting' = Waiting \ P /\ Out' = [Out EXCEPT ![s] = P]
    BY <1>7, <1>8, <1>10, <1>12
  <2>2. Pool!HandOut(s)
    BY <1>9, <2>1 DEF Pool!HandOut, Pool!UnitsOf, Waiting, Out, Stored
  <2> QED
    BY <2>2 DEF PoolStep, Pool!PoolNext
<1> QED
  BY <1>11, <1>12

\* What ph_pixels has written is off the worker.
LEMMA StoresPool ==
  ASSUME TypeInv, NEW s \in Slots, Stores(s)
  PROVE  PoolStep
<1> DEFINE g == work[s].frame
           D == PixelsOf(work[s])
<1>1. /\ g \in FrameNums /\ disk \in [FrameNums -> SUBSET Image]
      /\ Out[s] = {g} \X D
  BY DEF TypeInv, TypesOK, ServersOK, JobOK, Stores, SpanSet, Out
<1>2. Stored' = Stored \cup ({g} \X D)
  <2>1. \A f \in FrameNums : disk'[f] = IF f = g THEN disk[g] \cup D ELSE disk[f]
    BY <1>1 DEF Stores, Writes
  <2> QED
    BY <1>1, <2>1, UnitsStored
<1>3. Out' = [Out EXCEPT ![s] = {}]
  <2>1. work' = [work EXCEPT ![s] = NoWork]
    BY DEF Stores, LetsGo
  <2>2. {NoWork.frame} \X PixelsOf(NoWork) = {}
    BY NoWorkEmpty
  <2> QED
    BY <2>1, <2>2, OutMoves
<1>4. Waiting' = Waiting /\ prot' = prot
  BY DEF Stores, Waiting
<1>5. CASE Out[s] = {}
  <2>1. Out' = Out /\ Stored' = Stored
    BY <1>1, <1>2, <1>3, <1>5 DEF Out
  <2> QED
    BY <1>4, <2>1 DEF PoolStep, Pool!poolVars, Waiting, Out, Stored
<1>6. CASE Out[s] # {}
  <2>1. Stored' = Stored \cup Out[s]
    BY <1>1, <1>2
  <2>2. Pool!Store(s)
    BY <1>3, <1>4, <1>6, <2>1 DEF Pool!Store, Waiting, Out, Stored
  <2> QED
    BY <2>2 DEF PoolStep, Pool!PoolNext
<1> QED
  BY <1>5, <1>6

\* What drop_server puts back waits again, whatever of it has been written.
LEMMA GivesUpPool ==
  ASSUME TypeInv, NEW s \in Slots, GivesUp(s)
  PROVE  PoolStep
<1> DEFINE g == work[s].frame
           x == work[s]
<1>1. PICK D \in SUBSET PixelsOf(x) : Writes(s, D)
  BY DEF GivesUp
<1>2. /\ x \in SpanSet /\ g \in FrameNums /\ disk \in [FrameNums -> SUBSET Image]
      /\ todo \in [FrameNums -> Seq(SpanSet)]
      /\ Out[s] = {g} \X PixelsOf(x)
  <2>1. /\ x \in SpanSet /\ disk \in [FrameNums -> SUBSET Image]
        /\ todo \in [FrameNums -> Seq(SpanSet)]
    BY DEF TypeInv, TypesOK, ServersOK, JobOK, TodoOK, GivesUp
  <2>2. x.frame \in FrameNums
    BY <2>1 DEF SpanSet
  <2> QED
    BY <2>1, <2>2 DEF Out
<1>3. Stored' = Stored \cup ({g} \X D)
  <2>1. \A f \in FrameNums : disk'[f] = IF f = g THEN disk[g] \cup D ELSE disk[f]
    BY <1>1, <1>2 DEF Writes
  <2> QED
    BY <1>2, <2>1, UnitsStored
<1>4. Out' = [Out EXCEPT ![s] = {}]
  <2>1. work' = [work EXCEPT ![s] = NoWork]
    BY DEF GivesUp, LetsGo
  <2>2. {NoWork.frame} \X PixelsOf(NoWork) = {}
    BY NoWorkEmpty
  <2> QED
    BY <2>1, <2>2, OutMoves
<1>5. Waiting' = Waiting \cup ({g} \X PixelsOf(x))
  <2>1. todo' = [todo EXCEPT ![g] = Push(x, todo[g])]
    BY DEF GivesUp, Requeued
  <2>2. Pixels(Push(x, todo[g])) = PixelsOf(x) \cup Pixels(todo[g])
    BY <1>2, PixelsPush
  <2>3. \A f \in FrameNums :
          Pixels(todo'[f]) = IF f = g THEN Pixels(todo[g]) \cup PixelsOf(x) ELSE Pixels(todo[f])
    BY <1>2, <2>1, <2>2
  <2> QED
    BY <1>2, <2>3, UnitsGained
<1>6. prot' = prot
  BY DEF GivesUp
<1>7. CASE Out[s] = {}
  <2>1. \A p \in PixelsOf(x) : <<g, p>> \in {g} \X PixelsOf(x)
    OBVIOUS
  <2>2. PixelsOf(x) = {} /\ D = {}
    BY <1>2, <1>7, <2>1
  <2>3. Out' = Out /\ Stored' = Stored /\ Waiting' = Waiting
    BY <1>3, <1>4, <1>5, <1>7, <2>2 DEF Out
  <2> QED
    BY <1>6, <2>3 DEF PoolStep, Pool!poolVars, Waiting, Out, Stored
<1>8. CASE Out[s] # {}
  <2>1. {g} \X D \in SUBSET Out[s] /\ Waiting' = Waiting \cup Out[s]
    BY <1>2, <1>5
  <2>2. Pool!TakeBack(s)
    BY <1>3, <1>4, <1>6, <1>8, <2>1 DEF Pool!TakeBack, Waiting, Out, Stored
  <2> QED
    BY <2>2 DEF PoolStep, Pool!PoolNext
<1> QED
  BY <1>7, <1>8

\* A frame that is done has nothing waiting and nothing out.
LEMMA FinishesPool ==
  ASSUME TypeInv, Finishes
  PROVE  PoolStep
<1>1. PICK f \in FrameNums : /\ todo[f] = <<>> /\ \A s \in Slots : work[s].frame # f
                             /\ prot' = prot \cup {f}
  BY DEF Finishes
<1>2. Waiting' = Waiting /\ Out' = Out /\ Stored' = Stored
  BY DEF Finishes, Waiting, Out, Stored
<1>3. Waiting \cap ({f} \X Image) = {}
  <2>1. Pixels(todo[f]) = {}
    BY <1>1 DEF Pixels
  <2> QED
    BY <2>1 DEF Waiting
<1>4. \A s \in Slots : Out[s] \cap ({f} \X Image) = {}
  BY <1>1 DEF Out
<1>5. CASE f \in prot
  <2>1. prot' = prot
    BY <1>1, <1>5
  <2> QED
    BY <1>2, <2>1 DEF PoolStep, Pool!poolVars, Waiting, Out, Stored
<1>6. CASE f \notin prot
  <2>1. Pool!Finish(f)
    BY <1>1, <1>2, <1>3, <1>4, <1>6 DEF Pool!Finish, Pool!UnitsOf, Waiting, Out, Stored
  <2> QED
    BY <2>1 DEF PoolStep, Pool!PoolNext
<1> QED
  BY <1>5, <1>6

\* drop_server gives up the server's work, if it has any.
LEMMA DropPool ==
  ASSUME SafeInv, NEW s \in Slots, NEW n, DropTimes(s, n), UNCHANGED <<disk, prot>>
  PROVE  PoolStep
<1>1. TypeInv
  BY DEF SafeInv
<1>2. CASE UNCHANGED <<work, todo>>
  BY <1>2, IdlesPool DEF Idles
<1>3. CASE LetsGo(s) /\ todo' = Requeued(s) /\ work[s] = NoWork
  <2>1. todo' = todo /\ work' = work
    BY <1>1, <1>3 DEF Requeued, LetsGo, TypeInv, TypesOK, ServersOK
  <2> QED
    BY <2>1, IdlesPool DEF Idles
<1>4. CASE LetsGo(s) /\ todo' = Requeued(s) /\ work[s] # NoWork
  <2>1. work[s].frame \in FrameNums /\ disk \in [FrameNums -> SUBSET Image]
    BY <1>1, <1>4 DEF TypeInv, TypesOK, ServersOK, JobOK, SpanSet
  <2>2. {} \in SUBSET PixelsOf(work[s]) /\ Writes(s, {})
    BY <2>1 DEF Writes
  <2>3. GivesUp(s)
    BY <1>4, <2>2 DEF GivesUp
  <2> QED
    BY <1>1, <2>3, GivesUpPool
<1> QED
  BY <1>2, <1>3, <1>4 DEF DropTimes, LetsGo

\* A step that moves no work.
LEMMA QuietPool ==
  ASSUME UNCHANGED <<todo, work, disk, prot>>
  PROVE  PoolStep
BY IdlesPool DEF Idles

\* ph_pixels of pixels that are written, wholly or in part.
LEMMA PixelsPool ==
  ASSUME SafeInv, WorkHasView, NothingDiscarded, NEW s \in Slots,
         \/ \E slow \in BOOLEAN : PixelsStored(s, slow)
         \/ PixelsUnopened(s) /\ work[s].frame \notin Listed
         \/ \E n \in 0 .. NPix : PixelsUnwritten(s, n)
  PROVE  PoolStep
<1>1. TypeInv /\ work[s] # NoWork
  BY DEF SafeInv, PixelsStored, PixelsUnopened, PixelsUnwritten
<1>2. work[s] \in SpanSet /\ work[s].frame \in Listed
  BY <1>1 DEF TypeInv, TypesOK, ServersOK, WorkHasView
<1>3. ASSUME NEW slow \in BOOLEAN, PixelsStored(s, slow) PROVE PoolStep
  <2>1. Stores(s)
    BY <1>1, <1>3 DEF PixelsStored, HandlerFrame, Stores, LetsGo, Writes
  <2> QED
    BY <1>1, <2>1, StoresPool
<1>4. ASSUME NEW n \in 0 .. NPix, PixelsUnwritten(s, n) PROVE PoolStep
  <2> DEFINE D == work[s].start .. work[s].start + n - 1
  <2>1. /\ n \in 0 .. work[s].stop - work[s].start /\ Writes(s, D)
        /\ DropTimes(s, 1) /\ prot' = prot
    BY <1>4 DEF PixelsUnwritten, DropServer, HandlerFrame, Writes
  <2>2. D \in SUBSET PixelsOf(work[s])
    BY <1>2, <2>1, ProtocolAssumption DEF SpanSet, Image, PixelsOf
  <2>3. state[s] \in Requeues
    BY <1>1 DEF SafeInv, Slotted, NoWorkStranded
  <2>4. LetsGo(s) /\ todo' = Requeued(s)
    BY <2>1, <2>3 DEF DropTimes, LetsGo
  <2>5. GivesUp(s)
    BY <1>1, <2>1, <2>2, <2>4 DEF GivesUp
  <2> QED
    BY <1>1, <2>5, GivesUpPool
<1> QED
  BY <1>2, <1>3, <1>4

\* schedule hands out what waits, puts a lump back that could not be sent, or
\* declares a frame done of which nothing waits and nothing is out.
LEMMA PassPool ==
  ASSUME SafeInv, WorkHasView, Exclusive, NothingDiscarded, Pass
  PROVE  PoolStep
<1>0. TypeInv /\ at \in Slots \cup {NoSlot}
  BY DEF SafeInv, TypeInv, TypesOK, LoopOK
<1>1. CASE \/ BeginSchedule \/ PassConn \/ EndConn \/ FinalClose \/ FrameNotDone
           \/ EndFrames \/ NextPass \/ NextFrame \/ EndAssign \/ TaskRefused
  <2>1. UNCHANGED <<todo, work, disk, prot>>
    BY <1>1 DEF BeginSchedule, PassConn, EndConn, FinalClose, FrameNotDone, EndFrames,
       NextPass, NextFrame, EndAssign, TaskRefused, job, servers
  <2> QED
    BY <2>1, QuietPool
<1>2. CASE FrameIsDone
  <2> DEFINE f == frames[fpos]
  <2>1. /\ f \in FrameNums /\ todo[f] = <<>> /\ NoneOutstanding(f) /\ prot' = prot \cup {f}
        /\ UNCHANGED <<todo, disk, work>>
    BY <1>0, <1>2 DEF FrameIsDone, TypeInv, TypesOK, JobOK, LoopOK
  <2>2. ASSUME NEW s \in Slots PROVE work[s].frame # f
    <3>1. CASE conn[s] # "none"
      BY <2>1, <3>1 DEF NoneOutstanding
    <3>2. CASE conn[s] = "none"
      BY <2>1, <3>2, NoWorkEmpty DEF SafeInv, Slotted, NoWorkStranded
    <3> QED
      BY <3>1, <3>2
  <2>3. Finishes
    <3> HIDE DEF f
    <3> QED
      BY <2>1, <2>2 DEF Finishes
  <2> QED
    BY <1>0, <2>3, FinishesPool
<1>3. ASSUME NEW n \in 0 .. 2, SendDirbuild(n) PROVE PoolStep
  <2>1. /\ at \in Slots /\ UNCHANGED <<disk, prot>>
        /\ UNCHANGED <<work, todo>> \/ DropTimes(at, n)
    BY <1>0, <1>3 DEF SendDirbuild, Become, job
  <2> QED
    BY <2>1, DropPool, QuietPool
<1>4. CASE TaskTardy \/ \E late \in BOOLEAN : CheckSetup(late)
  <2>1. /\ at \in Slots /\ UNCHANGED <<disk, prot>>
        /\ UNCHANGED <<work, todo>> \/ DropTimes(at, 1)
    BY <1>0, <1>4 DEF TaskTardy, Tasking, CheckSetup, DropServer, job, servers
  <2> QED
    BY <2>1, DropPool, QuietPool
<1>5. ASSUME NEW n \in 0 .. 2, TaskGettrees(n) PROVE PoolStep
  <2>1. /\ at \in Slots /\ UNCHANGED <<disk, prot>>
        /\ UNCHANGED <<work, todo>> \/ DropTimes(at, n)
    BY <1>0, <1>5 DEF TaskGettrees, Eligible, Tasking
  <2> QED
    BY <2>1, DropPool, QuietPool
<1>6. ASSUME NEW lump \in 1 .. MaxLump, TaskAssign(lump) \/ TaskLinesFail(lump)
      PROVE  PoolStep
  <2>1. Tasking /\ todo[Fr] # <<>> /\ Idle(at) /\ UNCHANGED <<disk, prot>>
    BY <1>6 DEF TaskAssign, TaskLinesFail, CanAssign, Eligible
  <2>2. Fr \in FrameNums /\ at \in Slots
    BY <1>0, <2>1, LumpType
  <2>3. CASE TaskAssign(lump)
    <3>1. Assigns(at, Fr, lump)
      BY <2>1, <2>3 DEF TaskAssign, Idle, Assigns
    <3> QED
      BY <1>0, <2>1, <2>2, <3>1, GivesOutPool DEF GivesOut
  <2>4. CASE TaskLinesFail(lump)
    <3>1. Reassigns(Fr, lump)
      BY <2>1, <2>4 DEF TaskLinesFail, Reassigns
    <3>2. \A g \in FrameNums : Pixels(todo'[g]) = Pixels(todo[g])
      BY <1>0, <2>2, <3>1, ReassignsExclusive
    <3> QED
      BY <2>1, <3>1, <3>2, IdlesPool DEF Idles, Reassigns
  <2> QED
    BY <1>6, <2>3, <2>4
<1> QED
  BY <1>1, <1>2, <1>3, <1>4, <1>5, <1>6 DEF Pass, NothingDiscarded, RequeuedOnly

\* Every step of the dispatcher is one of the pool, or leaves the work alone.
LEMMA NextPool ==
  ASSUME SafeInv, WorkHasView, Exclusive, NothingDiscarded, [Next]_envVars
  PROVE  PoolStep
<1>0. TypeInv /\ phase # "restart"
  BY DEF SafeInv, Slotted, NotRestarting
<1>1. CASE UNCHANGED envVars
  BY <1>1, QuietPool DEF envVars, vars, job, servers
<1>2. CASE Connect
  <2>1. UNCHANGED <<todo, disk, prot>>
    BY <1>2 DEF Connect, StartLocal, AcceptTcp, job
  <2>2. CASE UNCHANGED servers
    BY <2>1, <2>2, QuietPool DEF servers
  <2>3. ASSUME NEW s \in FreeSlot, NEW kind, AddClient(s, kind) PROVE PoolStep
    <3>1. /\ work' = [work EXCEPT ![s] = NoWork] /\ s \in Slots /\ conn[s] = "none"
          /\ work \in [Slots -> SpanSet \cup {NoWork}]
      BY <1>0, <2>3 DEF AddClient, FreeSlot, TypeInv, TypesOK, ServersOK
    <3>2. work[s] = NoWork
      BY <3>1 DEF SafeInv, Slotted, NoWorkStranded
    <3>3. work' = work
      BY <3>1, <3>2
    <3> QED
      BY <2>1, <3>3, QuietPool
  <2> QED
    BY <1>2, <2>2, <2>3 DEF Connect, StartLocal, AcceptTcp
<1>3. CASE Hosts
  <2>1. /\ UNCHANGED <<disk, prot>>
        /\ (\E s \in Slots : DropTimes(s, 1)) \/ UNCHANGED <<work, todo>>
    BY <1>3 DEF Hosts, StartRemote, EndHosting, AutoDrop, DropServer, job, servers
  <2> QED
    BY <2>1, DropPool, QuietPool
<1>4. ASSUME NEW s \in Slots, Hello(s) PROVE PoolStep
  BY <1>4, QuietPool DEF Hello, PhVersion, Become, HandlerFrame
<1>5. ASSUME NEW s \in Slots, Receive(s) PROVE PoolStep
  <2>1. CASE \/ \E slow \in BOOLEAN : PixelsStored(s, slow)
             \/ PixelsUnopened(s) /\ work[s].frame \notin Listed
             \/ \E n \in 0 .. NPix : PixelsUnwritten(s, n)
    BY <2>1, PixelsPool
  <2>2. CASE \/ LoseServer(s) \/ PhDirbuildReply(s) \/ PhGettreesReply(s)
             \/ PixelsIgnored(s) \/ PixelsMismatch(s, work[s], TRUE)
    <3>1. /\ UNCHANGED <<disk, prot>>
          /\ DropTimes(s, 1) \/ UNCHANGED <<work, todo>>
      BY <2>2 DEF LoseServer, PhDirbuildReply, PhGettreesReply, Become, PixelsIgnored,
         PixelsMismatch, DropServer, HandlerFrame, job, servers
    <3> QED
      BY <3>1, DropPool, QuietPool
  <2> QED
    BY <1>5, <2>1, <2>2 DEF Receive, NothingDiscarded, RequeuedOnly
<1>6. ASSUME NEW s \in Slots, Command(s) PROVE PoolStep
  <2>1. /\ UNCHANGED <<disk, prot>>
        /\ (\E t \in Slots : DropTimes(t, 1)) \/ UNCHANGED <<work, todo>>
    BY <1>6 DEF Command, CmdStop, CmdGo, CmdAllocate, CmdDrop, Ran, PhCmd, DropServer,
       NothingDiscarded, RequeuedOnly
  <2> QED
    BY <2>1, DropPool, QuietPool
<1>7. CASE EndCommand
  <2>1. cmdFrom \in Slots /\ DropTimes(cmdFrom, 1) /\ UNCHANGED <<disk, prot>>
    BY <1>0, <1>7 DEF EndCommand, SendRestart, EndRestart, EndCmd, DropServer, TypeInv,
       CommandSlot
  <2> QED
    BY <2>1, DropPool
<1>8. CASE Pass
  BY <1>8, PassPool
<1>9. CASE Poll \/ Over
  BY <1>1, <1>9, QuietPool DEF Poll, EndInput, Over, job, servers
<1> QED
  BY <1>1, <1>2, <1>3, <1>4, <1>5, <1>6, <1>7, <1>8, <1>9 DEF Next

\* At the start every pixel of every frame waits.
LEMMA InitPool == EnvInit => Pool!PoolInit
<1> SUFFICES ASSUME EnvInit PROVE Pool!PoolInit
  OBVIOUS
<1>1. /\ \A f \in FrameNums : todo[f] = <<Span(f, 0, NPix - 1)>>
      /\ \A s \in Slots : work[s] = NoWork
      /\ \A f \in FrameNums : disk[f] = {}
      /\ prot = {}
  BY DEF EnvInit, Init
<1>2. ASSUME NEW f \in FrameNums PROVE Pixels(todo[f]) = Image
  <2> DEFINE x == Span(f, 0, NPix - 1)
  <2>1. DOMAIN todo[f] = {1} /\ todo[f][1] = x
    BY <1>1
  <2>2. PixelsOf(x) = Image
    BY DEF PixelsOf, Span, Image
  <2> HIDE DEF x
  <2> QED
    BY <2>1, <2>2 DEF Pixels
<1>3. Waiting = FrameNums \X Image
  BY <1>2 DEF Waiting
<1>4. Out = [s \in Slots |-> {}] /\ Stored = {}
  BY <1>1, NoWorkEmpty DEF Out, Stored
<1> QED
  BY <1>1, <1>3, <1>4 DEF Pool!PoolInit, Pool!Units, Waiting, Out, Stored

\* Whatever servers, the network and the operator do, the dispatcher only hands
\* out what waits to a server that has nothing, stores what that server was
\* given, or takes all of it back, and declares a frame done when nothing of it
\* waits or is out: it implements WorkPool.
THEOREM PoolImplemented ==
  ASSUME NothingDiscarded
  PROVE  Spec => ImplementsPool
<1>1. Spec => [](SafeInv /\ WorkHasView) /\ [](TypeInv /\ Exclusive)
  BY ViewInvariant, ExclusiveInvariant
<1>2. SafeInv /\ WorkHasView /\ TypeInv /\ Exclusive /\ [Next]_envVars
        => [Pool!PoolNext]_(Pool!poolVars)
  BY NextPool DEF PoolStep
<1>3. EnvInit => Pool!PoolInit
  BY InitPool
<1> QED
  BY <1>1, <1>2, <1>3, PTL DEF Spec, ImplementsPool, Pool!PoolSpec

-----------------------------------------------------------------------------
(* Nothing is handed out once scheduling is stopped                        *)

\* schedule gets to handing out work only when it is running, and nothing in
\* between stops it.
AssignsRunning == phase = "assign" => running

LinesSent == \E s \in Slots : \E i \in DOMAIN sent'[s] : sent'[s][i].type = "LINES"
StopStep == (LinesSent => running) /\ AssignsRunning'

\* Steps that send nothing, or one message of another kind.
LEMMA QuietSendsNone ==
  ASSUME Quiet
  PROVE  ~LinesSent
BY DEF Quiet, Nothing, LinesSent

LEMMA OtherSendsNone ==
  ASSUME NEW s \in Slots, NEW m, m.type # "LINES", Send(s, <<m>>)
  PROVE  ~LinesSent
<1>1. /\ \A t \in Slots : sent'[t] = IF t = s THEN <<m>> ELSE <<>>
  BY DEF Send, Nothing
<1>2. \A t \in Slots : \A i \in DOMAIN sent'[t] : sent'[t][i] = m
  BY <1>1
<1> QED
  BY <1>2 DEF LinesSent

\* Every step keeps to it.
LEMMA NextStops ==
  ASSUME TypeInv, AssignsRunning, Next
  PROVE  StopStep \/ UNCHANGED envVars
<1>1. CASE Connect \/ Hosts \/ Poll
  <2>1. Quiet /\ phase' # "assign"
    BY <1>1 DEF Connect, StartLocal, AcceptTcp, Hosts, StartRemote, EndHosting, AutoDrop,
       Hosting, Poll, EndInput, loop
  <2> QED
    BY <2>1, QuietSendsNone DEF StopStep, AssignsRunning
<1>2. ASSUME NEW s \in Slots, Hello(s) \/ Receive(s) PROVE StopStep
  <2>1. Quiet /\ phase' = "input"
    BY <1>2 DEF Hello, PhVersion, Receive, LoseServer, PhDirbuildReply, PhGettreesReply,
       PixelsIgnored, PixelsMismatch, PixelsStored, PixelsUnopened, PixelsUnwritten,
       Hearing, HandlerFrame, loop
  <2> QED
    BY <2>1, QuietSendsNone DEF StopStep, AssignsRunning
<1>3. ASSUME NEW s \in Slots, Command(s) PROVE StopStep
  <2>1. Quiet /\ phase' # "assign"
    BY <1>3 DEF Command, CmdStop, CmdGo, CmdAllocate, CmdDrop, CmdReset, CmdRestart, Ran
  <2> QED
    BY <2>1, QuietSendsNone DEF StopStep, AssignsRunning
<1>4. CASE EndCommand
  <2>1. phase' # "assign"
    BY <1>4 DEF EndCommand, SendRestart, EndRestart, EndCmd
  <2>2. Quiet \/ (at \in Slots /\ Send(at, <<Restart>>))
    BY <1>4 DEF EndCommand, SendRestart, EndRestart, EndCmd, TypeInv, TypesOK, LoopOK
  <2>3. Restart.type # "LINES"
    BY DEF Restart
  <2> QED
    BY <2>1, <2>2, <2>3, QuietSendsNone, OtherSendsNone DEF StopStep, AssignsRunning
<1>5. CASE Pass
  <2>1. CASE phase = "assign"
    <3>1. phase' # "assign" \/ running' = running
      BY <1>5, <2>1 DEF Pass, BeginSchedule, SendDirbuild, CheckSetup, FinalClose, PassConn,
         EndConn, FrameIsDone, FrameNotDone, EndFrames, TaskTardy, TaskRefused, TaskGettrees,
         TaskAssign, TaskLinesFail, TaskMatrixFail, NextPass, NextFrame, EndAssign, job
    <3> QED
      BY <2>1, <3>1 DEF StopStep, AssignsRunning
  <2>2. CASE phase # "assign"
    <3>1. CASE EndFrames
      <4>1. Quiet /\ AssignsRunning'
        BY <3>1 DEF EndFrames, AssignsRunning
      <4> QED
        BY <4>1, QuietSendsNone DEF StopStep
    <3>2. ASSUME NEW n \in 0 .. 2, SendDirbuild(n) PROVE StopStep
      <4>1. phase' # "assign" /\ at \in Slots /\ (Quiet \/ Send(at, <<Dirbuild>>))
        BY <2>2, <3>2 DEF SendDirbuild, AdvanceConn, TypeInv, TypesOK, LoopOK
      <4>2. Dirbuild.type # "LINES"
        BY DEF Dirbuild
      <4> QED
        BY <4>1, <4>2, QuietSendsNone, OtherSendsNone DEF StopStep, AssignsRunning
    <3>3. CASE \/ BeginSchedule \/ FinalClose \/ PassConn \/ EndConn
               \/ FrameIsDone \/ FrameNotDone \/ \E late \in BOOLEAN : CheckSetup(late)
      <4>1. Quiet /\ phase' # "assign"
        BY <3>3 DEF BeginSchedule, FinalClose, PassConn, EndConn, FrameIsDone,
           FrameNotDone, CheckSetup, AdvanceConn, loop
      <4> QED
        BY <4>1, QuietSendsNone DEF StopStep, AssignsRunning
    <3> QED
      BY <1>5, <2>2, <3>1, <3>2, <3>3 DEF Pass, TaskTardy, TaskRefused, TaskGettrees, TaskAssign,
         TaskLinesFail, TaskMatrixFail, CanAssign, Eligible, Tasking, NextPass, NextFrame,
         EndAssign
  <2> QED
    BY <2>1, <2>2
<1>6. CASE Over
  BY <1>6 DEF Over
<1> QED
  BY <1>1, <1>2, <1>3, <1>4, <1>5, <1>6 DEF Next

\* Once scheduling is stopped, by cd_stop or because ph_pixels could not write,
\* no server is sent MSG_LINES until it is turned on again: the pass that is
\* under way has found it running and cannot be interrupted.
THEOREM StoppedMeansStopped == Spec => StopHolds
<1>1. EnvInit => TypeInv /\ AssignsRunning
  BY InitType DEF EnvInit, Init, AssignsRunning
<1>2. TypeInv /\ AssignsRunning /\ [Next]_envVars => TypeInv' /\ AssignsRunning'
  <2> SUFFICES ASSUME TypeInv, AssignsRunning, [Next]_envVars
               PROVE  TypeInv' /\ AssignsRunning'
    OBVIOUS
  <2>1. CASE UNCHANGED envVars
    BY <2>1, NextType DEF envVars, vars, job, loop, AssignsRunning
  <2>2. CASE Next /\ ~UNCHANGED envVars
    BY <2>2, NextType, NextStops DEF StopStep
  <2> QED
    BY <2>1, <2>2
<1>3. TypeInv /\ AssignsRunning /\ [Next]_envVars => [LinesSent => running]_envVars
  BY NextStops DEF StopStep
<1>4. Spec => [][LinesSent => running]_envVars
  BY <1>1, <1>2, <1>3, PTL DEF Spec
<1>5. [LinesSent => running]_envVars
        => [\A s \in Slots : (\E i \in DOMAIN sent'[s] : sent'[s][i].type = "LINES") => running]_envVars
  BY DEF LinesSent
<1> QED
  BY <1>4, <1>5, PTL DEF StopHolds

-----------------------------------------------------------------------------
(* Recursive functions, in the only form of induction the proofs use.      *)

\* A set that holds 0 and, with every number below N, the next one.
LEMMA Climbs ==
  ASSUME NEW N \in Nat, NEW T, 0 \in T, \A n \in 1 .. N : n - 1 \in T => n \in T
  PROVE  \A n \in 0 .. N : n \in T
<1> DEFINE Missed == {n \in 0 .. N : n \notin T}
<1> SUFFICES ASSUME Missed # {} PROVE FALSE
  OBVIOUS
<1>1. Missed \subseteq Nat
  OBVIOUS
<1>2. PICK n \in Missed : \A m \in Missed : n <= m
  BY <1>1, Least
<1>3. n # 0 /\ n \in 0 .. N /\ n \notin T
  OBVIOUS
<1>4. n \in 1 .. N /\ n - 1 \in 0 .. N /\ ~(n <= n - 1)
  BY <1>3
<1>5. n - 1 \in T
  BY <1>2, <1>4
<1> QED
  BY <1>3, <1>4, <1>5

\* A value that is computed from x in the steps g, and what it is after each.
Steps(N, X) == [1 .. N -> [X -> X]]
Course(N, X, x, g, u) ==
  u \in [0 .. N -> X] /\ u[0] = x /\ \A n \in 1 .. N : u[n] = g[n][u[n - 1]]

LEMMA Iterates ==
  ASSUME NEW N \in Nat, NEW X, NEW x \in X, NEW g \in Steps(N, X)
  PROVE  \E u : Course(N, X, x, g, u)
<1> USE DEF Steps, Course
<1> DEFINE P(k, u) == u[0] = x /\ \A n \in 1 .. k : u[n] = g[n][u[n - 1]]
           T == {k \in 0 .. N : \E u \in [0 .. N -> X] : P(k, u)}
<1>1. 0 \in T
  <2>1. /\ [n \in 0 .. N |-> x] \in [0 .. N -> X]
        /\ [n \in 0 .. N |-> x][0] = x
        /\ 1 .. 0 = {} /\ 0 \in 0 .. N
    OBVIOUS
  <2> QED
    BY <2>1
<1>2. ASSUME NEW k \in 1 .. N, k - 1 \in T PROVE k \in T
  <2>1. PICK u \in [0 .. N -> X] : P(k - 1, u)
    BY <1>2
  <2> DEFINE v == [u EXCEPT ![k] = g[k][u[k - 1]]]
  <2>2. k \in 0 .. N /\ k - 1 \in 0 .. N /\ k # 0
    OBVIOUS
  <2>3. g[k][u[k - 1]] \in X
    BY <2>2
  <2>4. v \in [0 .. N -> X] /\ v[0] = x
    BY <2>1, <2>2, <2>3
  <2>5. ASSUME NEW n \in 1 .. k PROVE v[n] = g[n][v[n - 1]]
    <3>1. n \in 0 .. N /\ n - 1 \in 0 .. N /\ n - 1 # k
      OBVIOUS
    <3>2. v[n - 1] = u[n - 1]
      BY <3>1
    <3>3. CASE n = k
      BY <2>2, <3>2, <3>3
    <3>4. CASE n # k
      <4>1. n \in 1 .. k - 1
        BY <3>4
      <4>2. v[n] = u[n] /\ u[n] = g[n][u[n - 1]]
        BY <2>1, <3>1, <3>4, <4>1
      <4> QED
        BY <3>2, <4>2
    <3> QED
      BY <3>3, <3>4
  <2> HIDE DEF v
  <2> QED
    BY <2>2, <2>4, <2>5
<1> HIDE DEF T
<1>3. N \in T
  <2>1. \A n \in 1 .. N : n - 1 \in T => n \in T
    BY <1>2
  <2>2. \A n \in 0 .. N : n \in T
    BY <1>1, <2>1, Climbs
  <2> QED
    BY <2>2
<1> QED
  BY <1>3 DEF T

-----------------------------------------------------------------------------
(* create_outputfilename: the frames that are queued.                      *)

LEMMA QueueIs ==
  /\ Queue \in [0 .. NFrames -> Seq(FrameNums)]
  /\ Queue[0] = <<>>
  /\ \A f \in FrameNums : Queue[f] = IF f \in prot THEN Queue[f - 1] ELSE Append(Queue[f - 1], f)
<1> DEFINE Queues(f, q) == IF f \in prot THEN q ELSE Append(q, f)
           P(u) == u = [f \in 0 .. NFrames |-> IF f = 0 THEN <<>>
                          ELSE IF f \in prot THEN u[f - 1] ELSE Append(u[f - 1], f)]
           g == [f \in 1 .. NFrames |-> [q \in Seq(FrameNums) |-> Queues(f, q)]]
<1>0. NFrames \in Nat /\ FrameNums = 1 .. NFrames
  BY ProtocolAssumption DEF FrameNums
<1>1. g \in [1 .. NFrames -> [Seq(FrameNums) -> Seq(FrameNums)]]
  <2>1. \A f \in 1 .. NFrames, q \in Seq(FrameNums) : Queues(f, q) \in Seq(FrameNums)
    <3>1. \A f \in 1 .. NFrames : f \in FrameNums
      BY <1>0
    <3>2. \A f \in FrameNums, q \in Seq(FrameNums) : Append(q, f) \in Seq(FrameNums)
      OBVIOUS
    <3> QED
      BY <3>1, <3>2, Zenon
  <2> HIDE DEF Queues
  <2> QED
    BY <2>1, Zenon
<1>2. \A f \in 1 .. NFrames, q \in Seq(FrameNums) : g[f][q] = Queues(f, q)
  OBVIOUS
<1> HIDE DEF g
<1>3. PICK u : Course(NFrames, Seq(FrameNums), <<>>, g, u)
  <2>1. <<>> \in Seq(FrameNums) /\ g \in Steps(NFrames, Seq(FrameNums))
    BY <1>1 DEF Steps
  <2> QED
    BY <1>0, <2>1, Iterates
<1>4. ASSUME NEW f \in 0 .. NFrames
      PROVE  u[f] = IF f = 0 THEN <<>>
                    ELSE IF f \in prot THEN u[f - 1] ELSE Append(u[f - 1], f)
  <2>1. CASE f = 0
    BY <1>3, <2>1 DEF Course
  <2>2. CASE f # 0
    <3>1. f \in 1 .. NFrames /\ f - 1 \in 0 .. NFrames
      BY <1>0, <2>2
    <3>2. u[f] = g[f][u[f - 1]] /\ u[f - 1] \in Seq(FrameNums)
      BY <1>3, <2>2, <3>1 DEF Course
    <3> QED
      BY <1>2, <2>2, <3>1, <3>2
  <2> QED
    BY <2>1, <2>2
<1>5. P(u)
  <2>1. u = [f \in 0 .. NFrames |-> u[f]]
    BY <1>3 DEF Course
  <2> QED
    BY <1>4, <2>1
<1>6. \E w : P(w)
  BY <1>5
<1>7. Queue = CHOOSE w : P(w)
  BY Zenon DEF Queue
<1>8. P(CHOOSE w : P(w))
  BY <1>6, Zenon
<1>9. P(Queue)
  BY <1>7, <1>8, Zenon
<1>10. \A f \in 0 .. NFrames : Queue[f] = IF f = 0 THEN <<>>
          ELSE IF f \in prot THEN Queue[f - 1] ELSE Append(Queue[f - 1], f)
  <2> DEFINE W == Queue
  <2>1. W = [f \in 0 .. NFrames |-> IF f = 0 THEN <<>>
               ELSE IF f \in prot THEN W[f - 1] ELSE Append(W[f - 1], f)]
    BY <1>9
  <2> HIDE DEF W
  <2>2. \A f \in 0 .. NFrames : W[f] = IF f = 0 THEN <<>>
               ELSE IF f \in prot THEN W[f - 1] ELSE Append(W[f - 1], f)
    BY <2>1, Zenon
  <2> QED
    BY <2>2 DEF W
<1>11. DOMAIN Queue = 0 .. NFrames /\ Queue = [f \in 0 .. NFrames |-> Queue[f]]
  <2> DEFINE W == Queue
  <2>1. W = [f \in 0 .. NFrames |-> IF f = 0 THEN <<>>
               ELSE IF f \in prot THEN W[f - 1] ELSE Append(W[f - 1], f)]
    BY <1>9
  <2> HIDE DEF W
  <2>2. DOMAIN W = 0 .. NFrames /\ W = [f \in 0 .. NFrames |-> W[f]]
    BY <2>1
  <2> QED
    BY <2>2 DEF W
<1>13. Queue[0] = <<>> /\ \A f \in FrameNums :
         Queue[f] = IF f \in prot THEN Queue[f - 1] ELSE Append(Queue[f - 1], f)
  <2>1. 0 \in 0 .. NFrames /\ \A f \in FrameNums : f \in 0 .. NFrames /\ f # 0
    BY <1>0
  <2> QED
    BY <1>10, <2>1
<1> HIDE DEF P, Queues
<1> DEFINE Typed == {f \in 0 .. NFrames : Queue[f] \in Seq(FrameNums)}
<1>12. \A f \in 0 .. NFrames : f \in Typed
  <2>1. 0 \in 0 .. NFrames
    BY <1>0
  <2>2. 0 \in Typed
    <3>1. <<>> \in Seq(FrameNums)
      OBVIOUS
    <3> QED
      BY <1>13, <2>1, <3>1, Zenon
  <2>3. ASSUME NEW f \in 1 .. NFrames, f - 1 \in Typed PROVE f \in Typed
    <3>1. f \in 0 .. NFrames /\ f # 0 /\ f \in FrameNums /\ Queue[f - 1] \in Seq(FrameNums)
      BY <1>0, <2>3
    <3>2. Append(Queue[f - 1], f) \in Seq(FrameNums)
      BY <3>1
    <3>3. Queue[f] \in Seq(FrameNums)
      BY <1>13, <3>1, <3>2, Zenon
    <3> QED
      BY <3>1, <3>3
  <2> HIDE DEF Typed
  <2> QED
    BY <1>0, <2>2, <2>3, Climbs
<1> QED
  BY <1>11, <1>12, <1>13

\* No two entries are the same.
NoRepeats(q) == \A i, j \in DOMAIN q : i # j => q[i] # q[j]
Held(q) == {q[i] : i \in DOMAIN q}

LEMMA HeldAppend ==
  ASSUME NEW S, NEW q \in Seq(S), NEW x \in S, NoRepeats(q), x \notin Held(q)
  PROVE  NoRepeats(Append(q, x)) /\ Held(Append(q, x)) = Held(q) \cup {x}
<1> DEFINE r == Append(q, x)
<1>1. /\ DOMAIN r = 1 .. Len(q) + 1 /\ DOMAIN q = 1 .. Len(q) /\ Len(q) \in Nat
      /\ \A i \in 1 .. Len(q) : r[i] = q[i]
      /\ r[Len(q) + 1] = x
  OBVIOUS
<1> HIDE DEF r
<1>2. \A i \in 1 .. Len(q) + 1 : i \in 1 .. Len(q) \/ i = Len(q) + 1
  BY <1>1
<1>3. \A i \in 1 .. Len(q) : i \in 1 .. Len(q) + 1
  BY <1>1
<1>4. Len(q) + 1 \in 1 .. Len(q) + 1
  BY <1>1
<1>5. NoRepeats(r)
  BY <1>1, <1>2 DEF NoRepeats, Held
<1>6. Held(r) = Held(q) \cup {x}
  BY <1>1, <1>2, <1>3, <1>4, Zenon DEF Held
<1> QED
  BY <1>5, <1>6 DEF r

\* Exactly the frames whose file is not protected are queued, each once.
LEMMA QueuedAll ==
  /\ Queued \in Seq(FrameNums) /\ NoRepeats(Queued)
  /\ Held(Queued) = FrameNums \ prot
<1>0. NFrames \in Nat /\ FrameNums = 1 .. NFrames
  BY ProtocolAssumption DEF FrameNums
<1> DEFINE T == {n \in 0 .. NFrames : NoRepeats(Queue[n]) /\ Held(Queue[n]) = (1 .. n) \ prot}
<1>1. 0 \in T
  <2>1. Queue[0] = <<>> /\ 0 \in 0 .. NFrames /\ 1 .. 0 = {}
    BY <1>0, QueueIs
  <2>2. DOMAIN <<>> = {}
    OBVIOUS
  <2>3. NoRepeats(<<>>) /\ Held(<<>>) = {}
    BY <2>2 DEF NoRepeats, Held
  <2> QED
    BY <2>1, <2>3
<1>2. ASSUME NEW n \in 1 .. NFrames, n - 1 \in T PROVE n \in T
  <2>1. /\ n \in FrameNums /\ n \in 0 .. NFrames /\ n - 1 \in 0 .. NFrames
        /\ 1 .. n = (1 .. n - 1) \cup {n} /\ n \notin 1 .. n - 1
    BY <1>0
  <2>2. /\ NoRepeats(Queue[n - 1]) /\ Held(Queue[n - 1]) = (1 .. n - 1) \ prot
        /\ Queue[n - 1] \in Seq(FrameNums)
        /\ Queue[n] = IF n \in prot THEN Queue[n - 1] ELSE Append(Queue[n - 1], n)
    BY <1>2, <2>1, QueueIs
  <2>3. CASE n \in prot
    BY <2>1, <2>2, <2>3
  <2>4. CASE n \notin prot
    <3>1. n \notin Held(Queue[n - 1])
      BY <2>1, <2>2
    <3>2. NoRepeats(Queue[n]) /\ Held(Queue[n]) = Held(Queue[n - 1]) \cup {n}
      BY <2>1, <2>2, <2>4, <3>1, HeldAppend
    <3> QED
      BY <2>1, <2>2, <2>4, <3>2
  <2> QED
    BY <2>3, <2>4
<1> HIDE DEF T
<1>3. NFrames \in T
  <2>1. \A n \in 0 .. NFrames : n \in T
    BY <1>0, <1>1, <1>2, Climbs
  <2> QED
    BY <1>0, <2>1
<1> QED
  BY <1>0, <1>3, QueueIs DEF T, Queued

-----------------------------------------------------------------------------
(* list_remove, of a run that is all there.                                *)

\* fr_todo as the scan finds it: spans of frame f, none empty, in order, with
\* a gap between any two.
Proper(f, q) ==
  /\ q \in Seq(SpanSet)
  /\ \A i \in DOMAIN q : q[i].frame = f /\ q[i].start <= q[i].stop
  /\ \A i, j \in DOMAIN q : i < j => q[i].stop + 1 < q[j].start

\* Element k of a list replaced by those of m.
Splice(q, k, m) == SubSeq(q, 1, k - 1) \o m \o SubSeq(q, k + 1, Len(q))

LEMMA SpliceIs ==
  ASSUME NEW S, NEW q \in Seq(S), NEW k \in 1 .. Len(q), NEW m \in Seq(S)
  PROVE  /\ Splice(q, k, m) \in Seq(S)
         /\ Len(Splice(q, k, m)) = Len(q) - 1 + Len(m)
         /\ \A i \in 1 .. k - 1 : Splice(q, k, m)[i] = q[i]
         /\ \A i \in 1 .. Len(m) : Splice(q, k, m)[k - 1 + i] = m[i]
         /\ \A i \in k + 1 .. Len(q) : Splice(q, k, m)[i - 1 + Len(m)] = q[i]
<1> DEFINE A == SubSeq(q, 1, k - 1)
           B == SubSeq(q, k + 1, Len(q))
           n == Len(q)
           l == Len(m)
           AM == A \o m
           r == AM \o B
<1>1. n \in Nat /\ l \in Nat /\ k \in Nat /\ 1 <= k /\ k <= n
  OBVIOUS
<1>2. A \in Seq(S) /\ Len(A) = k - 1 /\ \A i \in 1 .. k - 1 : A[i] = q[i]
  <2>1. \A i \in 1 .. k - 1 : q[i] \in S
    BY <1>1
  <2> QED
    BY <1>1, <2>1
<1>3. B \in Seq(S) /\ Len(B) = n - k /\ \A i \in 1 .. n - k : B[i] = q[k + i]
  <2>1. \A i \in k + 1 .. n : q[i] \in S
    BY <1>1
  <2>2. Len(B) = n - k
    BY <1>1
  <2> QED
    BY <1>1, <2>1, <2>2
<1> HIDE DEF A, B, n, l
<1>4. /\ AM \in Seq(S) /\ Len(AM) = k - 1 + l
      /\ \A i \in 1 .. k - 1 : AM[i] = q[i]
      /\ \A i \in 1 .. l : AM[k - 1 + i] = m[i]
  <2>1. AM \in Seq(S) /\ Len(AM) = k - 1 + l
    <3>1. AM \in Seq(S)
      BY <1>2
    <3>2. Len(AM) = Len(A) + l
      BY <1>2 DEF l
    <3> QED
      BY <1>2, <3>1, <3>2
  <2>2. ASSUME NEW i \in 1 .. k - 1 PROVE AM[i] = q[i]
    <3>1. i \in 1 .. Len(A) + Len(m) /\ i <= Len(A)
      BY <1>1, <1>2 DEF l
    <3>2. AM[i] = A[i]
      BY <1>2, <3>1
    <3> QED
      BY <1>2, <3>2
  <2>3. ASSUME NEW i \in 1 .. l PROVE AM[k - 1 + i] = m[i]
    <3>1. /\ k - 1 + i \in 1 .. Len(A) + Len(m) /\ ~(k - 1 + i <= Len(A))
          /\ (k - 1 + i) - Len(A) = i
      BY <1>1, <1>2 DEF l
    <3>2. AM[k - 1 + i] = m[(k - 1 + i) - Len(A)]
      BY <1>2, <3>1
    <3> QED
      BY <3>1, <3>2
  <2> QED
    BY <2>1, <2>2, <2>3
<1> HIDE DEF AM
<1>5. /\ r \in Seq(S) /\ Len(r) = n - 1 + l
      /\ \A i \in 1 .. k - 1 + l : r[i] = AM[i]
  <2>1. r \in Seq(S) /\ Len(r) = n - 1 + l
    <3>0. AM \in Seq(S) /\ B \in Seq(S)
      BY <1>3, <1>4
    <3>1. r \in Seq(S) /\ Len(r) = Len(AM) + Len(B)
      BY <3>0
    <3> HIDE DEF r
    <3> QED
      BY <1>1, <1>3, <1>4, <3>1
  <2>2. ASSUME NEW i \in 1 .. k - 1 + l PROVE r[i] = AM[i]
    <3>1. i \in 1 .. Len(AM) + Len(B) /\ i <= Len(AM)
      BY <1>1, <1>3, <1>4
    <3> QED
      BY <1>3, <1>4, <3>1
  <2> QED
    BY <2>1, <2>2
<1>6. ASSUME NEW i \in k + 1 .. n PROVE r[i - 1 + l] = q[i]
  <2>1. /\ i - 1 + l \in 1 .. Len(AM) + Len(B) /\ ~(i - 1 + l <= Len(AM))
        /\ (i - 1 + l) - Len(AM) = i - k /\ i - k \in 1 .. n - k /\ k + (i - k) = i
    BY <1>1, <1>3, <1>4
  <2>2. r[i - 1 + l] = B[(i - 1 + l) - Len(AM)]
    BY <1>3, <1>4, <2>1
  <2> QED
    BY <1>3, <2>1, <2>2
<1>7. r = Splice(q, k, m)
  BY DEF AM, A, B, Splice
<1> HIDE DEF r
<1>8. \A i \in 1 .. k - 1 : i \in 1 .. k - 1 + l
  BY <1>1
<1>9. \A i \in 1 .. l : k - 1 + i \in 1 .. k - 1 + l
  BY <1>1
<1>10. /\ \A i \in 1 .. k - 1 : r[i] = q[i]
       /\ \A i \in 1 .. l : r[k - 1 + i] = m[i]
  BY <1>4, <1>5, <1>8, <1>9
<1> QED
  BY <1>5, <1>6, <1>7, <1>10 DEF n, l

\* What of a span is left when its part a..b is gone.
LEMMA SpliceProper ==
  ASSUME NEW f, NEW q, Proper(f, q), NEW k \in DOMAIN q, NEW m, Proper(f, m),
         \A i \in DOMAIN m : q[k].start <= m[i].start /\ m[i].stop <= q[k].stop
  PROVE  /\ Proper(f, Splice(q, k, m))
         /\ Pixels(Splice(q, k, m)) = (Pixels(q) \ PixelsOf(q[k])) \cup Pixels(m)
<1> DEFINE n == Len(q)
           l == Len(m)
           r == Splice(q, k, m)
<1>1. /\ q \in Seq(SpanSet) /\ m \in Seq(SpanSet) /\ n \in Nat /\ l \in Nat
      /\ DOMAIN q = 1 .. n /\ DOMAIN m = 1 .. l /\ k \in 1 .. n
  BY DEF Proper
<1>2. /\ r \in Seq(SpanSet) /\ Len(r) = n - 1 + l /\ DOMAIN r = 1 .. n - 1 + l
      /\ \A i \in 1 .. k - 1 : r[i] = q[i]
      /\ \A i \in 1 .. l : r[k - 1 + i] = m[i]
      /\ \A i \in k + 1 .. n : r[i - 1 + l] = q[i]
  <2>1. /\ r \in Seq(SpanSet) /\ Len(r) = n - 1 + l
        /\ \A i \in 1 .. k - 1 : r[i] = q[i]
        /\ \A i \in 1 .. l : r[k - 1 + i] = m[i]
        /\ \A i \in k + 1 .. n : r[i - 1 + l] = q[i]
    <3>1. q \in Seq(SpanSet) /\ k \in 1 .. Len(q) /\ m \in Seq(SpanSet)
      BY <1>1
    <3>2. /\ Splice(q, k, m) \in Seq(SpanSet)
          /\ Len(Splice(q, k, m)) = Len(q) - 1 + Len(m)
          /\ \A i \in 1 .. k - 1 : Splice(q, k, m)[i] = q[i]
          /\ \A i \in 1 .. Len(m) : Splice(q, k, m)[k - 1 + i] = m[i]
          /\ \A i \in k + 1 .. Len(q) : Splice(q, k, m)[i - 1 + Len(m)] = q[i]
      BY ONLY <3>1, SpliceIs
    <3> QED
      BY <3>2
  <2> HIDE DEF r
  <2>2. DOMAIN r = 1 .. n - 1 + l
    BY <2>1
  <2> QED
    BY <2>1, <2>2
<1>3. /\ \A i \in 1 .. n : /\ q[i].frame = f /\ q[i].start \in Int /\ q[i].stop \in Int
                           /\ q[i].start <= q[i].stop
      /\ \A i \in 1 .. l : /\ m[i].frame = f /\ m[i].start \in Int /\ m[i].stop \in Int
                           /\ m[i].start <= m[i].stop
                           /\ q[k].start <= m[i].start /\ m[i].stop <= q[k].stop
      /\ \A i, j \in 1 .. n : i < j => q[i].stop + 1 < q[j].start
      /\ \A i, j \in 1 .. l : i < j => m[i].stop + 1 < m[j].start
  <2>1. /\ \A i \in 1 .. n : q[i] \in SpanSet
        /\ \A i \in 1 .. l : m[i] \in SpanSet
    BY <1>1
  <2>2. \A x \in SpanSet : x.start \in Int /\ x.stop \in Int
    BY ProtocolAssumption DEF SpanSet, Image
  <2> QED
    BY <1>1, <2>1, <2>2 DEF Proper
<1> HIDE DEF n, l, r
\* Where an element of the result comes from.
<1>4. \A i \in 1 .. n - 1 + l :
        \/ i \in 1 .. k - 1 /\ r[i] = q[i]
        \/ i - (k - 1) \in 1 .. l /\ r[i] = m[i - (k - 1)]
        \/ i - l + 1 \in k + 1 .. n /\ r[i] = q[i - l + 1]
  <2> TAKE i \in 1 .. n - 1 + l
  <2>1. CASE i \in 1 .. k - 1
    BY <1>2, <2>1
  <2>2. CASE i - (k - 1) \in 1 .. l
    <3>1. k - 1 + (i - (k - 1)) = i
      BY <1>1
    <3> QED
      BY <1>2, <2>2, <3>1
  <2>3. CASE i - l + 1 \in k + 1 .. n
    <3>1. (i - l + 1) - 1 + l = i
      BY <1>1
    <3> QED
      BY <1>2, <2>3, <3>1
  <2> QED
    BY <1>1, <2>1, <2>2, <2>3
<1>5. ASSUME NEW i \in 1 .. n - 1 + l PROVE r[i].frame = f /\ r[i].start <= r[i].stop
  <2>1. (1 .. k - 1) \subseteq 1 .. n /\ (k + 1 .. n) \subseteq 1 .. n
    BY <1>1
  <2> QED
    BY <1>3, <1>4, <2>1
<1>6. ASSUME NEW i \in 1 .. n - 1 + l, NEW j \in 1 .. n - 1 + l, i < j
      PROVE  r[i].stop + 1 < r[j].start
  <2>1. /\ k \in 1 .. n
        /\ \A x \in 1 .. k - 1 : x \in 1 .. n /\ x < k
        /\ \A x \in k + 1 .. n : x \in 1 .. n /\ k < x
    BY <1>1
  <2>2. CASE i \in 1 .. k - 1 /\ r[i] = q[i]
    <3>1. CASE j \in 1 .. k - 1 /\ r[j] = q[j]
      BY <1>3, <1>6, <2>1, <2>2, <3>1
    <3>2. CASE j - (k - 1) \in 1 .. l /\ r[j] = m[j - (k - 1)]
      <4>1. /\ r[j].start \in Int /\ q[k].start \in Int /\ q[k].start <= r[j].start
            /\ q[i].stop \in Int /\ q[i].stop + 1 < q[k].start
        BY <1>3, <2>1, <2>2, <3>2
      <4> QED
        BY <2>2, <4>1
    <3>3. CASE j - l + 1 \in k + 1 .. n /\ r[j] = q[j - l + 1]
      <4>1. i < j - l + 1 /\ i \in 1 .. n /\ j - l + 1 \in 1 .. n
        BY <1>1, <2>1, <2>2, <3>3
      <4> QED
        BY <1>3, <2>2, <3>3, <4>1
    <3> QED
      BY <1>4, <3>1, <3>2, <3>3
  <2>3. CASE i - (k - 1) \in 1 .. l /\ r[i] = m[i - (k - 1)]
    <3>1. ~(j \in 1 .. k - 1)
      BY <1>1, <1>6, <2>3
    <3>2. CASE j - (k - 1) \in 1 .. l /\ r[j] = m[j - (k - 1)]
      <4>1. i - (k - 1) < j - (k - 1)
        BY <1>1, <1>6
      <4> QED
        BY <1>3, <2>3, <3>2, <4>1
    <3>3. CASE j - l + 1 \in k + 1 .. n /\ r[j] = q[j - l + 1]
      <4>1. /\ r[i].stop \in Int /\ q[k].stop \in Int /\ r[i].stop <= q[k].stop
            /\ r[j].start \in Int /\ q[k].stop + 1 < r[j].start
        BY <1>3, <2>1, <2>3, <3>3
      <4> QED
        BY <4>1
    <3> QED
      BY <1>4, <3>1, <3>2, <3>3
  <2>4. CASE i - l + 1 \in k + 1 .. n /\ r[i] = q[i - l + 1]
    <3>1. ~(j \in 1 .. k - 1) /\ ~(j - (k - 1) \in 1 .. l)
      BY <1>1, <1>6, <2>4
    <3>2. j - l + 1 \in k + 1 .. n /\ r[j] = q[j - l + 1]
      BY <1>4, <3>1
    <3>3. i - l + 1 < j - l + 1
      BY <1>1, <1>6
    <3> QED
      BY <1>3, <2>1, <2>4, <3>2, <3>3
  <2> QED
    BY <1>4, <2>2, <2>3, <2>4
<1>7. Proper(f, r)
  BY <1>2, <1>5, <1>6 DEF Proper
<1>8. ASSUME NEW p PROVE p \in Pixels(r) <=> p \in (Pixels(q) \ PixelsOf(q[k])) \cup Pixels(m)
  <2>1. ASSUME p \in Pixels(r) PROVE p \in (Pixels(q) \ PixelsOf(q[k])) \cup Pixels(m)
    <3>1. PICK i \in 1 .. n - 1 + l : p \in PixelsOf(r[i])
      BY <1>2, <2>1 DEF Pixels
    <3>2. CASE i - (k - 1) \in 1 .. l /\ r[i] = m[i - (k - 1)]
      BY <1>1, <3>1, <3>2 DEF Pixels
    <3>3. ASSUME NEW x \in 1 .. n, x # k, r[i] = q[x] PROVE p \in Pixels(q) \ PixelsOf(q[k])
      <4>1. p \in Pixels(q)
        BY <1>1, <3>1, <3>3 DEF Pixels
      <4>2. p \in Int /\ q[x].start <= p /\ p <= q[x].stop
        BY <1>3, <3>1, <3>3 DEF PixelsOf
      <4>3. x < k \/ k < x
        BY <1>1, <3>3
      <4>4. ~(q[k].start <= p /\ p <= q[k].stop)
        BY <1>1, <1>3, <4>2, <4>3
      <4> QED
        BY <4>1, <4>4 DEF PixelsOf
    <3>4. CASE i \in 1 .. k - 1 /\ r[i] = q[i]
      <4>1. i \in 1 .. n /\ i # k
        BY <1>1, <3>4
      <4> QED
        BY <3>3, <3>4, <4>1
    <3>5. CASE i - l + 1 \in k + 1 .. n /\ r[i] = q[i - l + 1]
      <4>1. i - l + 1 \in 1 .. n /\ i - l + 1 # k
        BY <1>1, <3>5
      <4> QED
        BY <3>3, <3>5, <4>1
    <3> QED
      BY <1>4, <3>2, <3>4, <3>5
  <2>2. ASSUME p \in Pixels(m) PROVE p \in Pixels(r)
    <3>1. PICK i \in 1 .. l : p \in PixelsOf(m[i])
      BY <1>1, <2>2 DEF Pixels
    <3>2. k - 1 + i \in 1 .. n - 1 + l /\ r[k - 1 + i] = m[i]
      BY <1>1, <1>2
    <3> QED
      BY <1>2, <3>1, <3>2 DEF Pixels
  <2>3. ASSUME p \in Pixels(q), p \notin PixelsOf(q[k]) PROVE p \in Pixels(r)
    <3>1. PICK i \in 1 .. n : p \in PixelsOf(q[i])
      BY <1>1, <2>3 DEF Pixels
    <3>2. CASE i < k
      <4>1. i \in 1 .. k - 1 /\ i \in 1 .. n - 1 + l
        BY <1>1, <3>2
      <4> QED
        BY <1>2, <3>1, <4>1 DEF Pixels
    <3>3. CASE i > k
      <4>1. i \in k + 1 .. n /\ i - 1 + l \in 1 .. n - 1 + l
        BY <1>1, <3>3
      <4>2. r[i - 1 + l] = q[i]
        BY <1>2, <4>1
      <4> QED
        BY <1>2, <3>1, <4>1, <4>2 DEF Pixels
    <3>4. i # k
      BY <2>3, <3>1
    <3> QED
      BY <1>1, <3>2, <3>3, <3>4
  <2> QED
    BY <2>1, <2>2, <2>3
<1> QED
  BY <1>7, <1>8 DEF r

\* list_remove of a run of pixels that all wait takes exactly these off, and
\* leaves the list in order.
LEMMA ListRemoveTakes ==
  ASSUME NEW f \in FrameNums, NEW q, Proper(f, q), NEW a \in Image, NEW b \in Image, a <= b,
         a .. b \subseteq Pixels(q)
  PROVE  /\ Proper(f, ListRemove(q, a, b))
         /\ Pixels(ListRemove(q, a, b)) = Pixels(q) \ (a .. b)
<1> DEFINE n == Len(q)
<1>1. /\ q \in Seq(SpanSet) /\ n \in Nat /\ DOMAIN q = 1 .. n
      /\ a \in Int /\ b \in Int /\ 0 <= a /\ b <= NPix - 1 /\ NPix \in Int
  BY ProtocolAssumption DEF Proper, Image
<1>2. /\ \A i \in 1 .. n : /\ q[i] \in SpanSet /\ q[i].frame = f
                           /\ q[i].start \in Int /\ q[i].stop \in Int
                           /\ 0 <= q[i].start /\ q[i].stop <= NPix - 1
                           /\ q[i].start <= q[i].stop
      /\ \A i, j \in 1 .. n : i < j => q[i].stop + 1 < q[j].start
  <2>1. \A i \in 1 .. n : q[i] \in SpanSet
    BY <1>1
  <2>2. \A x \in SpanSet : x.start \in Int /\ x.stop \in Int /\ 0 <= x.start /\ x.stop <= NPix - 1
    BY ProtocolAssumption DEF SpanSet, Image
  <2> QED
    BY <1>1, <2>1, <2>2 DEF Proper
<1> HIDE DEF n
\* The run lies within one span.
<1>3. PICK k \in 1 .. n : q[k].start <= a /\ b <= q[k].stop
  <2>1. a \in a .. b
    BY <1>1
  <2>2. PICK k \in 1 .. n : q[k].start <= a /\ a <= q[k].stop
    BY <1>1, <2>1 DEF Pixels, PixelsOf
  <2>3. SUFFICES ASSUME q[k].stop < b PROVE FALSE
    BY <1>1, <1>2, <2>2
  <2>4. q[k].stop + 1 \in a .. b
    BY <1>1, <1>2, <2>2, <2>3
  <2>5. PICK j \in 1 .. n : q[j].start <= q[k].stop + 1 /\ q[k].stop + 1 <= q[j].stop
    <3>1. q[k].stop + 1 \in Pixels(q)
      BY <2>4
    <3>2. PICK j \in 1 .. n : q[k].stop + 1 \in PixelsOf(q[j])
      BY <1>1, <3>1 DEF Pixels
    <3> QED
      BY <3>2 DEF PixelsOf
  <2>6. j < k \/ j = k \/ k < j
    BY <1>1
  <2>7. CASE j < k
    BY <1>2, <2>2, <2>5, <2>7
  <2>8. CASE j = k
    BY <1>2, <2>5, <2>8
  <2>9. CASE k < j
    BY <1>2, <2>5, <2>9
  <2> QED
    BY <2>6, <2>7, <2>8, <2>9
\* No other is met.
<1> DEFINE hits == {i \in DOMAIN q : q[i].start = a \/ q[i].stop = b
                                      \/ (a <= q[i].stop /\ q[i].start <= b)}
<1>4. hits = {k}
  <2>1. k \in hits
    BY <1>1, <1>2, <1>3
  <2>2. ASSUME NEW i \in hits, i # k PROVE FALSE
    <3>1. i \in 1 .. n /\ (i < k \/ k < i)
      BY <1>1, <2>2
    <3>2. CASE i < k
      BY <1>1, <1>2, <1>3, <2>2, <3>1, <3>2
    <3>3. CASE k < i
      BY <1>1, <1>2, <1>3, <2>2, <3>1, <3>3
    <3> QED
      BY <3>1, <3>2, <3>3
  <2> QED
    BY <2>1, <2>2
<1> DEFINE x == q[k]
           before == [x EXCEPT !.stop = a - 1]
           after == [x EXCEPT !.start = b + 1]
           kept == CASE x.start = a /\ x.stop = b -> <<>>
                     [] x.start = a /\ x.stop # b -> <<after>>
                     [] x.start # a /\ x.stop = b -> <<before>>
                     [] OTHER -> <<before, after>>
<1>5. ListRemove(q, a, b) = Splice(q, k, kept)
  <2>1. (CHOOSE j \in hits : \A h \in hits : j <= h) = k
    BY <1>4
  <2> HIDE DEF kept
  <2>2. k \in DOMAIN q
    BY <1>1
  <2>3. ListRemove(q, a, b) = SubSeq(q, 1, k - 1) \o kept \o SubSeq(q, k + 1, Len(q))
    BY <1>4, <2>1 DEF ListRemove, kept
  <2> QED
    BY <2>3 DEF Splice
<1>6. /\ x \in SpanSet /\ x.frame = f /\ x.start \in Int /\ x.stop \in Int
      /\ 0 <= x.start /\ x.stop <= NPix - 1 /\ x.start <= a /\ b <= x.stop
  BY <1>2, <1>3
<1> HIDE DEF hits, x
<1>7. /\ Proper(f, kept)
      /\ \A i \in DOMAIN kept : x.start <= kept[i].start /\ kept[i].stop <= x.stop
      /\ Pixels(kept) = PixelsOf(x) \ (a .. b)
  <2>0. SpanSet = [frame : FrameNums, start : Image, stop : Image] /\ Image = 0 .. NPix - 1
    BY DEF SpanSet, Image
  <2>1. x.start # a => /\ before \in SpanSet /\ before.frame = f
                       /\ before.start = x.start /\ before.stop = a - 1
                       /\ x.start <= a - 1 /\ a - 1 \in Int
    <3> SUFFICES ASSUME x.start # a
                 PROVE  /\ before \in SpanSet /\ before.frame = f
                        /\ before.start = x.start /\ before.stop = a - 1
                        /\ x.start <= a - 1 /\ a - 1 \in Int
      OBVIOUS
    <3>1. x.start <= a - 1 /\ a - 1 \in Int /\ a - 1 \in Image
      BY <1>1, <1>6, <2>0
    <3>2. /\ before \in SpanSet /\ before.frame = x.frame
          /\ before.start = x.start /\ before.stop = a - 1
      BY <1>6, <2>0, <3>1, Zenon
    <3> QED
      BY <1>6, <3>1, <3>2
  <2>2. x.stop # b => /\ after \in SpanSet /\ after.frame = f
                      /\ after.start = b + 1 /\ after.stop = x.stop
                      /\ b + 1 <= x.stop /\ b + 1 \in Int
    <3> SUFFICES ASSUME x.stop # b
                 PROVE  /\ after \in SpanSet /\ after.frame = f
                        /\ after.start = b + 1 /\ after.stop = x.stop
                        /\ b + 1 <= x.stop /\ b + 1 \in Int
      OBVIOUS
    <3>1. b + 1 <= x.stop /\ b + 1 \in Int /\ b + 1 \in Image
      BY <1>1, <1>6, <2>0
    <3>2. /\ after \in SpanSet /\ after.frame = x.frame
          /\ after.start = b + 1 /\ after.stop = x.stop
      BY <1>6, <2>0, <3>1, Zenon
    <3> QED
      BY <1>6, <3>1, <3>2
  <2> HIDE DEF before, after
  <2>3. CASE x.start = a /\ x.stop = b
    <3>1. kept = <<>> /\ DOMAIN <<>> = {}
      BY <2>3
    <3> HIDE DEF kept
    <3> QED
      BY <2>3, <3>1 DEF Proper, Pixels, PixelsOf
  <2>4. CASE x.start = a /\ x.stop # b
    <3>1. kept = <<after>>
      BY <2>4
    <3> HIDE DEF kept
    <3>2. /\ kept \in Seq(SpanSet) /\ DOMAIN kept = {1} /\ kept[1] = after
      BY <2>2, <2>4, <3>1
    <3>3. Pixels(kept) = PixelsOf(after)
      BY <3>2 DEF Pixels
    <3>4. PixelsOf(after) = PixelsOf(x) \ (a .. b)
      BY <1>1, <1>6, <2>2, <2>4 DEF PixelsOf
    <3> QED
      BY <1>1, <1>6, <2>2, <2>4, <3>2, <3>3, <3>4 DEF Proper
  <2>5. CASE x.start # a /\ x.stop = b
    <3>1. kept = <<before>>
      BY <2>5
    <3> HIDE DEF kept
    <3>2. /\ kept \in Seq(SpanSet) /\ DOMAIN kept = {1} /\ kept[1] = before
      BY <2>1, <2>5, <3>1
    <3>3. Pixels(kept) = PixelsOf(before)
      BY <3>2 DEF Pixels
    <3>4. PixelsOf(before) = PixelsOf(x) \ (a .. b)
      BY <1>1, <1>6, <2>1, <2>5 DEF PixelsOf
    <3> QED
      BY <1>1, <1>6, <2>1, <2>5, <3>2, <3>3, <3>4 DEF Proper
  <2>6. CASE x.start # a /\ x.stop # b
    <3>1. kept = <<before, after>>
      BY <2>6
    <3> HIDE DEF kept
    <3>2. /\ kept \in Seq(SpanSet) /\ DOMAIN kept = {1, 2}
          /\ kept[1] = before /\ kept[2] = after
      BY <2>1, <2>2, <2>6, <3>1
    <3>3. Pixels(kept) = PixelsOf(before) \cup PixelsOf(after)
      BY <3>2 DEF Pixels
    <3>4. PixelsOf(before) \cup PixelsOf(after) = PixelsOf(x) \ (a .. b)
      BY <1>1, <1>6, <2>1, <2>2, <2>6 DEF PixelsOf
    <3>5. \A i \in DOMAIN kept : /\ kept[i].frame = f /\ kept[i].start <= kept[i].stop
                                 /\ x.start <= kept[i].start /\ kept[i].stop <= x.stop
      BY <1>1, <1>6, <2>1, <2>2, <2>6, <3>2
    <3>6. \A i, j \in DOMAIN kept : i < j => kept[i].stop + 1 < kept[j].start
      BY <1>1, <1>6, <2>1, <2>2, <2>6, <3>2
    <3> QED
      BY <3>2, <3>3, <3>4, <3>5, <3>6 DEF Proper
  <2> QED
    BY <2>3, <2>4, <2>5, <2>6
<1> HIDE DEF kept
<1>8. /\ Proper(f, Splice(q, k, kept))
      /\ Pixels(Splice(q, k, kept)) = (Pixels(q) \ PixelsOf(q[k])) \cup Pixels(kept)
  BY <1>1, <1>7, SpliceProper DEF x
<1>9. PixelsOf(q[k]) \subseteq Pixels(q) /\ a .. b \subseteq PixelsOf(q[k])
  <2>1. k \in DOMAIN q
    BY <1>1
  <2>2. PixelsOf(q[k]) \subseteq Pixels(q)
    BY <2>1 DEF Pixels
  <2>3. a .. b \subseteq PixelsOf(q[k])
    BY <1>1, <1>2, <1>3 DEF PixelsOf
  <2> QED
    BY <2>2, <2>3
<1> QED
  BY <1>5, <1>7, <1>8, <1>9 DEF x

-----------------------------------------------------------------------------
(* scan_frame_for_finished_pixels.                                         *)

\* A run ends where the first pixel is missing.
LEMMA RunEndIs ==
  ASSUME NEW D \in SUBSET Image, NEW p \in D
  PROVE  /\ RunEnd(D, p) \in D /\ p <= RunEnd(D, p)
         /\ p .. RunEnd(D, p) \subseteq D /\ RunEnd(D, p) + 1 \notin D
<1> DEFINE T == {e \in Nat : p <= e /\ e + 1 \notin D}
<1>0. NPix \in Nat /\ p \in Nat /\ \A x \in D : x \in Nat /\ x <= NPix - 1
  BY ProtocolAssumption DEF Image
<1>1. NPix \in T
  BY <1>0
<1>2. T \subseteq Nat
  OBVIOUS
<1>3. PICK e \in T : \A t \in T : e <= t
  BY <1>1, <1>2, Least
<1>4. ASSUME NEW x \in p .. e PROVE x \in D
  <2>1. CASE x = p
    BY <2>1
  <2>2. CASE x # p
    <3>1. x - 1 \in Nat /\ p <= x - 1 /\ ~(e <= x - 1) /\ (x - 1) + 1 = x
      BY <1>0, <1>2, <2>2
    <3>2. x - 1 \notin T
      BY <1>3, <3>1
    <3> QED
      BY <3>1, <3>2
  <2> QED
    BY <2>1, <2>2
<1>5. e \in D /\ p <= e /\ p .. e \subseteq D /\ e + 1 \notin D
  BY <1>0, <1>2, <1>3, <1>4
<1> HIDE DEF T
<1> QED
  BY <1>5 DEF RunEnd

\* The pixels of the runs that begin below p.
RunsBelow(D, p) == {d \in D : \E s \in RunStarts(D) : s < p /\ s <= d /\ s .. d \subseteq D}

LEMMA BelowStep ==
  ASSUME NEW D \in SUBSET Image, NEW p \in 1 .. NPix
  PROVE  IF p - 1 \in RunStarts(D)
         THEN /\ RunsBelow(D, p) = RunsBelow(D, p - 1) \cup (p - 1 .. RunEnd(D, p - 1))
              /\ RunsBelow(D, p - 1) \cap (p - 1 .. RunEnd(D, p - 1)) = {}
         ELSE RunsBelow(D, p) = RunsBelow(D, p - 1)
<1>0. /\ NPix \in Nat /\ p \in Nat /\ p - 1 \in Nat
      /\ \A x \in D : x \in Nat /\ x <= NPix - 1
      /\ RunStarts(D) \subseteq D /\ \A s \in RunStarts(D) : s - 1 \notin D
  BY ProtocolAssumption DEF Image, RunStarts
<1>1. \A s \in RunStarts(D) : s < p <=> s < p - 1 \/ s = p - 1
  BY <1>0
<1>2. CASE p - 1 \notin RunStarts(D)
  BY <1>1, <1>2 DEF RunsBelow
<1>3. CASE p - 1 \in RunStarts(D)
  <2> DEFINE a == p - 1
             b == RunEnd(D, a)
  <2>1. /\ b \in D /\ a <= b /\ a .. b \subseteq D /\ b + 1 \notin D
        /\ a \in D /\ a \in Nat /\ b \in Nat
    BY <1>0, <1>3, RunEndIs
  <2> HIDE DEF b
  <2>2. ASSUME NEW d \in D PROVE a <= d /\ a .. d \subseteq D <=> d \in a .. b
    <3>1. ASSUME a <= d, a .. d \subseteq D PROVE d <= b
      <4> SUFFICES ASSUME b + 1 <= d PROVE FALSE
        BY <1>0, <2>1
      <4>1. b + 1 \in a .. d
        BY <1>0, <2>1
      <4> QED
        BY <2>1, <3>1, <4>1
    <3>2. ASSUME d \in a .. b PROVE a .. d \subseteq D
      BY <1>0, <2>1, <3>2
    <3> QED
      BY <1>0, <2>1, <3>1, <3>2
  <2>3. ASSUME NEW d \in D
        PROVE  d \in RunsBelow(D, p) <=> d \in RunsBelow(D, a) \/ d \in a .. b
    <3> DEFINE R(s) == s <= d /\ s .. d \subseteq D
    <3>1. /\ d \in RunsBelow(D, p) <=> \E s \in RunStarts(D) : s < p /\ R(s)
          /\ d \in RunsBelow(D, a) <=> \E s \in RunStarts(D) : s < a /\ R(s)
      BY Zenon DEF RunsBelow
    <3>2. R(a) <=> d \in a .. b
      BY <2>2
    <3> HIDE DEF R
    <3>3. (\E s \in RunStarts(D) : s < p /\ R(s))
          <=> ((\E s \in RunStarts(D) : s < a /\ R(s)) \/ R(a))
      <4> HIDE DEF a
      <4>1. a \in RunStarts(D) /\ \A s \in RunStarts(D) : s < p <=> s < a \/ s = a
        BY <1>1, <1>3 DEF a
      <4> QED
        BY <4>1, Zenon
    <3> QED
      BY <3>1, <3>2, <3>3, Zenon
  <2>4. a .. b \subseteq D /\ RunsBelow(D, p) \subseteq D /\ RunsBelow(D, a) \subseteq D
    BY <2>1 DEF RunsBelow
  <2>5. RunsBelow(D, p) = RunsBelow(D, a) \cup (a .. b)
    BY <2>3, <2>4
  <2>6. ASSUME NEW d \in a .. b, d \in RunsBelow(D, a) PROVE FALSE
    <3>1. PICK s \in RunStarts(D) : s < a /\ s <= d /\ s .. d \subseteq D
      BY <2>6 DEF RunsBelow
    <3>2. a - 1 \in s .. d
      <4>1. s \in Nat /\ a - 1 \in Int /\ d \in Int /\ a <= d
        <5>1. s \in D
          BY <1>0
        <5>2. s \in Nat
          BY <1>0, <5>1
        <5> QED
          BY <2>1, <5>2
      <4> QED
        BY <2>1, <3>1, <4>1
    <3> QED
      BY <1>0, <1>3, <3>1, <3>2
  <2> QED
    BY <1>3, <2>5, <2>6 DEF b
<1> QED
  BY <1>2, <1>3

LEMMA BelowEnds ==
  ASSUME NEW D \in SUBSET Image
  PROVE  RunsBelow(D, 0) = {} /\ RunsBelow(D, NPix) = D
<1>0. /\ NPix \in Nat /\ \A x \in D : x \in Nat /\ x <= NPix - 1
      /\ RunStarts(D) \subseteq D
  BY ProtocolAssumption DEF Image, RunStarts
<1>1. RunsBelow(D, 0) = {}
  BY <1>0 DEF RunsBelow
<1>2. ASSUME NEW d \in D PROVE d \in RunsBelow(D, NPix)
  <2> DEFINE T == {s \in Nat : s <= d /\ s .. d \subseteq D}
  <2>1. d \in T
    BY <1>0
  <2>2. T \subseteq Nat
    OBVIOUS
  <2>3. PICK s \in T : \A t \in T : s <= t
    BY <2>1, <2>2, Least
  <2>4. s \in D /\ s \in Nat /\ s <= d /\ s .. d \subseteq D
    BY <1>0, <2>3
  <2>5. s - 1 \notin D
    <3> SUFFICES ASSUME s - 1 \in D PROVE FALSE
      OBVIOUS
    <3>1. s - 1 \in Nat /\ s - 1 <= d /\ ~(s <= s - 1)
      BY <1>0, <2>4
    <3>2. \A x \in s - 1 .. d : x = s - 1 \/ x \in s .. d
      BY <1>0, <2>4
    <3>3. s - 1 \in T
      BY <2>4, <3>1, <3>2
    <3> QED
      BY <2>3, <3>1, <3>3
  <2>6. s \in RunStarts(D) /\ s < NPix
    BY <1>0, <2>4, <2>5 DEF RunStarts
  <2> QED
    BY <2>4, <2>6 DEF RunsBelow
<1>3. RunsBelow(D, NPix) \subseteq D
  BY DEF RunsBelow
<1> QED
  BY <1>1, <1>2, <1>3

\* The spans list_remove computes with, empty ones included.
Wide == [frame : FrameNums, start : Int, stop : Int]

LEMMA ListRemoveType ==
  ASSUME NEW q \in Seq(Wide), NEW a \in Int, NEW b \in Int
  PROVE  ListRemove(q, a, b) \in Seq(Wide)
<1> DEFINE hits == {i \in DOMAIN q : q[i].start = a \/ q[i].stop = b
                                      \/ (a <= q[i].stop /\ q[i].start <= b)}
           k == CHOOSE j \in hits : \A h \in hits : j <= h
           before == [q[k] EXCEPT !.stop = a - 1]
           after == [q[k] EXCEPT !.start = b + 1]
           kept == CASE q[k].start = a /\ q[k].stop = b -> <<>>
                     [] q[k].start = a /\ q[k].stop # b -> <<after>>
                     [] q[k].start # a /\ q[k].stop = b -> <<before>>
                     [] OTHER -> <<before, after>>
<1>1. CASE hits = {}
  BY <1>1 DEF ListRemove
<1>2. CASE hits # {}
  <2>1. hits \subseteq Nat /\ hits \subseteq 1 .. Len(q)
    OBVIOUS
  <2>2. \E j \in hits : \A h \in hits : j <= h
    <3> HIDE DEF hits
    <3> QED
      BY <1>2, <2>1, Least
  <2>3. k \in 1 .. Len(q)
    <3> HIDE DEF hits
    <3>1. k \in hits
      BY <2>2, Zenon
    <3> QED
      BY <2>1, <3>1
  <2>4. ListRemove(q, a, b) = Splice(q, k, kept)
    <3>1. ListRemove(q, a, b) = SubSeq(q, 1, k - 1) \o kept \o SubSeq(q, k + 1, Len(q))
      BY <1>2, Zenon DEF ListRemove
    <3> QED
      BY <3>1, Zenon DEF Splice
  <2> HIDE DEF hits, k
  <2>5. before \in Wide /\ after \in Wide
    <3>1. q[k] \in Wide /\ a - 1 \in Int /\ b + 1 \in Int
      BY <2>3
    <3> QED
      BY <3>1 DEF Wide
  <2> HIDE DEF before, after
  <2>6. kept \in Seq(Wide)
    BY <2>5
  <2> HIDE DEF kept
  <2>7. Splice(q, k, kept) \in Seq(Wide)
    BY ONLY q \in Seq(Wide), <2>3, <2>6, SpliceIs
  <2> QED
    BY <2>4, <2>7
<1> QED
  BY <1>1, <1>2

\* What the scan of the pixel before p leaves of list q.
ScanStep(D, p, q) ==
  IF p - 1 \in RunStarts(D) THEN ListRemove(q, p - 1, RunEnd(D, p - 1)) ELSE q

LEMMA ScanIs ==
  ASSUME FilePix <= NPix, NEW f \in FrameNums, NEW D \in SUBSET Image
  PROVE  /\ FileLen = NPix
         /\ Scan(f, D)[0] = <<Span(f, 0, NPix - 1)>>
         /\ \A p \in 1 .. NPix : Scan(f, D)[p] = ScanStep(D, p, Scan(f, D)[p - 1])
<1> DEFINE x == <<Span(f, 0, NPix - 1)>>
           X == Seq(Wide)
           E(u, p) == IF p = 0 THEN x
                      ELSE IF p - 1 \in RunStarts(D)
                             THEN ListRemove(u[p - 1], p - 1, RunEnd(D, p - 1))
                             ELSE u[p - 1]
           P(u) == u = [p \in 0 .. FileLen |-> E(u, p)]
           g == [p \in 1 .. FileLen |-> [q \in X |-> ScanStep(D, p, q)]]
<1>0. NPix \in Nat /\ FilePix \in Nat /\ FileLen = NPix /\ FileLen \in Nat
  BY ProtocolAssumption, ResumeAssumption DEF FileLen
<1>1. g \in Steps(FileLen, X)
  <2>1. ASSUME NEW p \in 1 .. FileLen, NEW q \in X PROVE ScanStep(D, p, q) \in X
    <3>1. CASE p - 1 \in RunStarts(D)
      <4>1. p - 1 \in D
        BY <3>1 DEF RunStarts
      <4>2. RunEnd(D, p - 1) \in D
        BY <4>1, RunEndIs
      <4>3. p - 1 \in Int /\ RunEnd(D, p - 1) \in Int
        <5>1. \A y \in D : y \in Int
          BY <1>0 DEF Image
        <5> QED
          BY <4>1, <4>2, <5>1
      <4> QED
        BY <3>1, <4>3, ListRemoveType DEF ScanStep
    <3>2. CASE p - 1 \notin RunStarts(D)
      BY <3>2 DEF ScanStep
    <3> QED
      BY <3>1, <3>2
  <2> HIDE DEF X
  <2> QED
    BY <2>1, Zenon DEF Steps
<1>2. \A p \in 1 .. FileLen, q \in X : g[p][q] = ScanStep(D, p, q)
  OBVIOUS
<1>3. x \in X
  <2>1. Span(f, 0, NPix - 1) \in Wide
    BY <1>0 DEF Span, Wide
  <2> QED
    BY <2>1
<1> HIDE DEF g, X, x
<1>4. PICK u : Course(FileLen, X, x, g, u)
  BY <1>0, <1>1, <1>3, Iterates
<1>5. ASSUME NEW p \in 0 .. FileLen PROVE u[p] = E(u, p)
  <2>1. CASE p = 0
    BY <1>4, <2>1 DEF Course
  <2>2. CASE p # 0
    <3>1. p \in 1 .. FileLen /\ p - 1 \in 0 .. FileLen
      BY <1>0, <2>2
    <3>2. u[p] = g[p][u[p - 1]] /\ u[p - 1] \in X
      BY <1>4, <3>1 DEF Course
    <3>3. u[p] = ScanStep(D, p, u[p - 1])
      BY <1>2, <3>1, <3>2
    <3> QED
      BY <2>2, <3>3 DEF ScanStep
  <2> QED
    BY <2>1, <2>2
<1>6. P(u)
  <2>1. u = [p \in 0 .. FileLen |-> u[p]]
    BY <1>4 DEF Course
  <2> HIDE DEF E
  <2> QED
    BY <1>5, <2>1
<1>7. \E w : P(w)
  BY <1>6
<1>8. Scan(f, D) = CHOOSE w : P(w)
  BY Zenon DEF Scan, x
<1>9. P(CHOOSE w : P(w))
  BY <1>7, Zenon
<1>10. P(Scan(f, D))
  BY <1>8, <1>9, Zenon
<1>11. \A p \in 0 .. FileLen : Scan(f, D)[p] = E(Scan(f, D), p)
  <2> DEFINE W == Scan(f, D)
  <2>1. W = [p \in 0 .. FileLen |-> E(W, p)]
    BY <1>10
  <2> HIDE DEF W, E
  <2>2. \A p \in 0 .. FileLen : W[p] = E(W, p)
    BY <2>1, Zenon
  <2> QED
    BY <2>2 DEF W
<1>12. 0 \in 0 .. FileLen /\ \A p \in 1 .. NPix : p \in 0 .. FileLen /\ p # 0
  BY <1>0
<1> HIDE DEF P
<1>13. Scan(f, D)[0] = x
  BY <1>11, <1>12
<1>14. \A p \in 1 .. NPix : Scan(f, D)[p] = ScanStep(D, p, Scan(f, D)[p - 1])
  BY <1>11, <1>12 DEF ScanStep
<1> QED
  BY <1>0, <1>13, <1>14 DEF x

\* After each pixel the list holds, each once, the pixels that are missing or
\* belong to a run the scan has not come to.
LEMMA ScanHolds ==
  ASSUME FilePix <= NPix, NEW f \in FrameNums, NEW D \in SUBSET Image
  PROVE  \A p \in 0 .. NPix : /\ Proper(f, Scan(f, D)[p])
                              /\ Pixels(Scan(f, D)[p]) = Image \ RunsBelow(D, p)
<1> DEFINE u == Scan(f, D)
           T == {p \in 0 .. NPix : Proper(f, u[p]) /\ Pixels(u[p]) = Image \ RunsBelow(D, p)}
<1>0. NPix \in Nat /\ NPix # 0
  BY ProtocolAssumption
<1>1. u[0] = <<Span(f, 0, NPix - 1)>> /\ \A p \in 1 .. NPix : u[p] = ScanStep(D, p, u[p - 1])
  BY ScanIs
<1> HIDE DEF u
<1>2. 0 \in T
  <2> DEFINE y == Span(f, 0, NPix - 1)
  <2>1. y \in SpanSet /\ y.frame = f /\ y.start <= y.stop /\ PixelsOf(y) = Image
    BY <1>0 DEF Span, SpanSet, Image, PixelsOf
  <2> HIDE DEF y
  <2>2. u[0] \in Seq(SpanSet) /\ DOMAIN u[0] = {1} /\ u[0][1] = y
    BY <1>1, <2>1 DEF y
  <2>3. Proper(f, u[0]) /\ Pixels(u[0]) = Image
    BY <2>1, <2>2 DEF Proper, Pixels
  <2> QED
    BY <1>0, <2>3, BelowEnds
<1>3. ASSUME NEW p \in 1 .. NPix, p - 1 \in T PROVE p \in T
  <2> DEFINE q == u[p - 1]
             a == p - 1
             b == RunEnd(D, a)
  <2>1. Proper(f, q) /\ Pixels(q) = Image \ RunsBelow(D, a) /\ u[p] = ScanStep(D, p, q)
    BY <1>1, <1>3
  <2>2. CASE a \notin RunStarts(D)
    <3>1. RunsBelow(D, p) = RunsBelow(D, a)
      BY <2>2, BelowStep
    <3> QED
      BY <1>0, <2>1, <2>2, <3>1 DEF ScanStep
  <2>3. CASE a \in RunStarts(D)
    <3>1. a \in D
      BY <2>3 DEF RunStarts
    <3>2. b \in D /\ a <= b /\ a .. b \subseteq D
      BY <3>1, RunEndIs
    <3>3. /\ RunsBelow(D, p) = RunsBelow(D, a) \cup (a .. b)
          /\ RunsBelow(D, a) \cap (a .. b) = {}
      BY <2>3, BelowStep
    <3>4. u[p] = ListRemove(q, a, b)
      BY <2>1, <2>3 DEF ScanStep
    <3> HIDE DEF q, b, a
    <3>5. a .. b \subseteq Pixels(q) /\ a \in Image /\ b \in Image
      BY <2>1, <3>1, <3>2, <3>3
    <3>6. Proper(f, u[p]) /\ Pixels(u[p]) = Pixels(q) \ (a .. b)
      BY <2>1, <3>2, <3>4, <3>5, ListRemoveTakes
    <3>7. Pixels(u[p]) = Image \ RunsBelow(D, p)
      BY <2>1, <3>3, <3>6
    <3>8. p \in 0 .. NPix
      BY <1>0
    <3> QED
      BY <3>6, <3>7, <3>8
  <2> QED
    BY <2>2, <2>3
<1> HIDE DEF T
<1>4. \A p \in 0 .. NPix : p \in T
  BY <1>0, <1>2, <1>3, Climbs
<1> QED
  BY <1>4 DEF T, u

\* A scan leaves exactly the pixels it saw black, each once, in spans that are
\* not empty.
LEMMA ScannedMissing ==
  ASSUME FilePix <= NPix, NEW f \in FrameNums, NEW D \in SUBSET Image
  PROVE  /\ Proper(f, Scanned(f, D)) /\ Pixels(Scanned(f, D)) = Image \ D
         /\ Disjoint(Scanned(f, D))
<1>0. NPix \in Nat /\ NPix \in 0 .. NPix
  BY ProtocolAssumption
<1>1. Scanned(f, D) = Scan(f, D)[NPix]
  BY ScanIs DEF Scanned
<1>2. Proper(f, Scanned(f, D)) /\ Pixels(Scanned(f, D)) = Image \ D
  BY <1>0, <1>1, ScanHolds, BelowEnds
<1> DEFINE q == Scanned(f, D)
<1>3. ASSUME NEW i \in DOMAIN q, NEW j \in DOMAIN q, i # j
      PROVE  PixelsOf(q[i]) \cap PixelsOf(q[j]) = {}
  <2> HIDE DEF q
  <2>1. /\ i \in Nat /\ j \in Nat /\ q[i] \in SpanSet /\ q[j] \in SpanSet
        /\ i < j => q[i].stop + 1 < q[j].start
        /\ j < i => q[j].stop + 1 < q[i].start
    <3>1. Proper(f, q)
      BY <1>2 DEF q
    <3> QED
      BY <3>1 DEF Proper
  <2>2. \A y \in SpanSet : y.start \in Int /\ y.stop \in Int
    BY <1>0 DEF SpanSet, Image
  <2> QED
    BY <1>3, <2>1, <2>2 DEF PixelsOf
<1> QED
  BY <1>2, <1>3 DEF Disjoint

-----------------------------------------------------------------------------
(* No empty span.                                                          *)

Filled == {x \in SpanSet : x.start <= x.stop}
FilledInv ==
  /\ \A f \in FrameNums : todo[f] \in Seq(Filled)
  /\ \A s \in Slots : work[s] \in Filled \cup {NoWork}

\* A lump and what is left of the list.
LEMMA LumpFilled ==
  ASSUME NEW q \in Seq(Filled), q # <<>>, NEW lump \in Nat \ {0}
  PROVE  Lump(q, lump) \in Filled /\ WithoutLump(q, lump) \in Seq(Filled)
<1> DEFINE h == Head(q)
           b == h.start + lump - 1
           rest == [h EXCEPT !.start = b + 1]
<1>1. h \in SpanSet /\ h.start <= h.stop /\ Tail(q) \in Seq(Filled)
  BY DEF Filled
<1>2. /\ h.start \in Int /\ h.stop \in Int /\ 0 <= h.start /\ h.stop <= NPix - 1
      /\ h.frame \in FrameNums /\ NPix \in Int /\ b \in Int /\ h.start <= b
  BY <1>1, ProtocolAssumption DEF SpanSet, Image
<1> HIDE DEF h
<1>3. CASE b >= h.stop
  <2>1. Lump(q, lump) = Span(h.frame, h.start, h.stop) /\ WithoutLump(q, lump) = Tail(q)
    BY <1>3 DEF Lump, WithoutLump, h
  <2>2. Span(h.frame, h.start, h.stop) \in Filled
    BY <1>1, <1>2 DEF Span, SpanSet, Filled, Image
  <2> QED
    BY <1>1, <2>1, <2>2
<1>4. CASE ~(b >= h.stop)
  <2>1. Lump(q, lump) = Span(h.frame, h.start, b) /\ WithoutLump(q, lump) = Push(rest, Tail(q))
    BY <1>4 DEF Lump, WithoutLump, h
  <2> HIDE DEF b
  <2>2. b \in Image /\ b + 1 \in Image /\ h.start \in Image /\ b + 1 <= h.stop
    BY <1>2, <1>4 DEF Image
  <2>3. Span(h.frame, h.start, b) \in Filled
    BY <1>2, <2>2 DEF Span, SpanSet, Filled
  <2>4. rest \in Filled
    <3>1. rest \in SpanSet /\ rest.start = b + 1 /\ rest.stop = h.stop
      BY <1>1, <2>2, Zenon DEF SpanSet
    <3> QED
      BY <2>2, <3>1 DEF Filled
  <2> HIDE DEF rest
  <2>5. Push(rest, Tail(q)) \in Seq(Filled)
    BY <1>1, <2>4 DEF Push
  <2> QED
    BY <2>1, <2>3, <2>5
<1> QED
  BY <1>3, <1>4

\* No step makes an empty span.
LEMMA WorkStepFilled ==
  ASSUME TypeInv, FilledInv, WorkStep
  PROVE  FilledInv'
<1>1. /\ todo \in [FrameNums -> Seq(SpanSet)] /\ work \in [Slots -> SpanSet \cup {NoWork}]
      /\ \A f \in FrameNums : todo[f] \in Seq(Filled)
      /\ \A s \in Slots : work[s] \in Filled \cup {NoWork}
  BY DEF TypeInv, TypesOK, JobOK, TodoOK, ServersOK, FilledInv
<1>2. CASE UNCHANGED <<work, todo>>
  BY <1>2 DEF FilledInv
<1>3. ASSUME NEW s \in Slots, LetsGo(s), todo' \in {todo, Requeued(s)} PROVE FilledInv'
  <2>1. \A t \in Slots : work'[t] \in Filled \cup {NoWork}
    BY <1>1, <1>3 DEF LetsGo
  <2>2. CASE todo' = todo
    BY <1>1, <2>1, <2>2 DEF FilledInv
  <2>3. CASE todo' # todo
    <3>1. work[s] # NoWork /\ todo' = [todo EXCEPT ![work[s].frame] = Push(work[s], @)]
      BY <1>3, <2>3 DEF Requeued
    <3>2. work[s] \in Filled /\ work[s].frame \in FrameNums
      BY <1>1, <3>1 DEF Filled, SpanSet
    <3>3. Push(work[s], todo[work[s].frame]) \in Seq(Filled)
      BY <1>1, <3>2 DEF Push
    <3>4. \A f \in FrameNums : todo'[f] \in Seq(Filled)
      BY <1>1, <3>1, <3>3
    <3> QED
      BY <2>1, <3>4 DEF FilledInv
  <2> QED
    BY <2>2, <2>3
<1>4. ASSUME NEW f \in FrameNums, NEW lump \in 1 .. MaxLump, todo[f] # <<>>
      PROVE  Lump(todo[f], lump) \in Filled /\ WithoutLump(todo[f], lump) \in Seq(Filled)
  <2>1. lump \in Nat \ {0}
    BY RemrtAssumption
  <2> QED
    BY <1>1, <1>4, <2>1, LumpFilled
<1>5. ASSUME NEW s \in Slots, NEW f \in FrameNums, NEW lump \in 1 .. MaxLump, Assigns(s, f, lump)
      PROVE  FilledInv'
  <2>1. /\ \A t \in Slots : work'[t] = IF t = s THEN Lump(todo[f], lump) ELSE work[t]
        /\ \A g \in FrameNums : todo'[g] = IF g = f THEN WithoutLump(todo[f], lump) ELSE todo[g]
        /\ todo[f] # <<>>
    BY <1>1, <1>5 DEF Assigns
  <2> QED
    BY <1>1, <1>4, <2>1 DEF FilledInv
<1>6. ASSUME NEW f \in FrameNums, NEW lump \in 1 .. MaxLump, Reassigns(f, lump)
      PROVE  FilledInv'
  <2>1. /\ work' = work /\ todo[f] # <<>>
        /\ \A g \in FrameNums : todo'[g] = IF g = f
             THEN Push(Lump(todo[f], lump), WithoutLump(todo[f], lump)) ELSE todo[g]
    BY <1>1, <1>6 DEF Reassigns
  <2>2. Push(Lump(todo[f], lump), WithoutLump(todo[f], lump)) \in Seq(Filled)
    BY <1>4, <2>1 DEF Push
  <2> QED
    BY <1>1, <2>1, <2>2 DEF FilledInv
<1>7. CASE Empties
  <2>1. work' = work /\ \A f \in FrameNums : todo'[f] = todo[f] \/ todo'[f] = <<>>
    BY <1>7 DEF Empties
  <2>2. <<>> \in Seq(Filled)
    OBVIOUS
  <2> QED
    BY <1>1, <2>1, <2>2 DEF FilledInv
<1> QED
  BY <1>2, <1>3, <1>5, <1>6, <1>7 DEF WorkStep

LEMMA ProperFilled ==
  ASSUME NEW f, NEW q, Proper(f, q)
  PROVE  q \in Seq(Filled)
<1>1. q \in Seq(SpanSet) /\ \A i \in DOMAIN q : q[i] \in Filled
  BY DEF Proper, Filled
<1> QED
  BY <1>1

LEMMA FilledShows ==
  ASSUME FilledInv
  PROVE  SpansInclusive
<1> SUFFICES ASSUME NEW f \in FrameNums, NEW i \in DOMAIN todo[f]
             PROVE  todo[f][i].start <= todo[f][i].stop
  BY DEF SpansInclusive
<1>1. todo[f] \in Seq(Filled)
  BY DEF FilledInv
<1>2. todo[f][i] \in Filled
  BY <1>1
<1> QED
  BY <1>2 DEF Filled

-----------------------------------------------------------------------------
(* The output files.                                                       *)

\* Each frame is queued once, and none whose file is protected.
FilesInv == NoRepeats(frames) /\ Listed \cap prot = {}

\* What a step of the dispatcher may do to the files: write to that of a frame
\* in progress, protect one and take its frame off the list, give all up.
FileStep ==
  \/ UNCHANGED <<disk, prot, frames>>
  \/ UNCHANGED <<prot, frames>> /\ \E f \in Listed : \E D : disk' = [disk EXCEPT ![f] = D]
  \/ UNCHANGED <<disk, prot>> /\ frames' = <<>>
  \/ UNCHANGED disk /\ \E k \in 1 .. Len(frames) :
       frames' = RemoveFrame(k) /\ prot' = prot \cup {frames[k]}

LEMMA NextFiles ==
  ASSUME TypeInv, [Next]_envVars
  PROVE  FileStep
<1>1. CASE UNCHANGED envVars \/ Over
  BY <1>1 DEF Over, envVars, vars, job, FileStep
<1>2. CASE Connect \/ Hosts \/ EndCommand \/ Poll
  BY <1>2 DEF Connect, StartLocal, AcceptTcp, Hosts, StartRemote, EndHosting, AutoDrop,
     EndCommand, SendRestart, EndRestart, EndCmd, Poll, EndInput, job, FileStep
<1>3. ASSUME NEW s \in Slots, Hello(s) \/ Receive(s) PROVE FileStep
  <2>1. CASE \E slow \in BOOLEAN : PixelsStored(s, slow)
    <3>1. /\ work[s].frame \in Listed /\ UNCHANGED <<prot, frames>>
          /\ disk' = [disk EXCEPT ![work[s].frame] = disk[work[s].frame] \cup PixelsOf(work[s])]
      BY <2>1 DEF PixelsStored, HandlerFrame
    <3> QED
      BY <3>1 DEF FileStep
  <2>2. ASSUME NEW n, PixelsUnwritten(s, n) PROVE FileStep
    <3>1. /\ work[s].frame \in Listed /\ UNCHANGED <<prot, frames>>
          /\ disk' = [disk EXCEPT ![work[s].frame] =
                        disk[work[s].frame] \cup (work[s].start .. work[s].start + n - 1)]
      BY <2>2 DEF PixelsUnwritten, HandlerFrame
    <3> QED
      BY <3>1 DEF FileStep
  <2>3. CASE ~(\E slow \in BOOLEAN : PixelsStored(s, slow)) /\ ~(\E n : PixelsUnwritten(s, n))
    BY <1>3, <2>3 DEF Hello, PhVersion, Receive, LoseServer, PhDirbuildReply, PhGettreesReply,
       PixelsIgnored, PixelsMismatch, PixelsUnopened, HandlerFrame, job, FileStep
  <2> QED
    BY <2>1, <2>2, <2>3
<1>4. ASSUME NEW s \in Slots, Command(s) PROVE FileStep
  BY <1>4 DEF Command, CmdStop, CmdGo, CmdAllocate, CmdDrop, CmdReset, CmdRestart, Ran, PhCmd,
     FileStep
<1>5. CASE Pass
  <2>1. CASE FrameIsDone
    <3>1. fpos \in 1 .. Len(frames)
      BY <2>1 DEF FrameIsDone, TypeInv, TypesOK, LoopOK, JobOK
    <3> QED
      BY <2>1, <3>1 DEF FrameIsDone, FileStep
  <2>2. CASE ~FrameIsDone
    BY <1>5, <2>2 DEF Pass, BeginSchedule, SendDirbuild, CheckSetup, FinalClose, PassConn,
       EndConn, FrameNotDone, EndFrames, TaskTardy, TaskRefused, TaskGettrees, TaskAssign,
       TaskLinesFail, TaskMatrixFail, NextPass, NextFrame, EndAssign, job, FileStep
  <2> QED
    BY <2>1, <2>2
<1> QED
  BY <1>1, <1>2, <1>3, <1>4, <1>5 DEF Next

\* A list with one entry taken off.
LEMMA RemoveFrameIs ==
  ASSUME frames \in Seq(FrameNums), NEW k \in 1 .. Len(frames), frames' = RemoveFrame(k)
  PROVE  /\ Len(frames') = Len(frames) - 1 /\ DOMAIN frames' = 1 .. Len(frames) - 1
         /\ \A i \in 1 .. Len(frames) - 1 :
              frames'[i] = IF i < k THEN frames[i] ELSE frames[i + 1]
<1> DEFINE A == SubSeq(frames, 1, k - 1)
           B == SubSeq(frames, k + 1, Len(frames))
           n == Len(frames)
<1>1. n \in Nat /\ k \in Nat /\ 1 <= k /\ k <= n
  OBVIOUS
<1>2. A \in Seq(FrameNums)
  <2>1. \A i \in 1 .. k - 1 : frames[i] \in FrameNums
    BY <1>1
  <2> QED
    BY <1>1, <2>1
<1>3. A \o <<>> = A
  <2> HIDE DEF A
  <2> QED
    BY <1>2
<1>4. frames' = Splice(frames, k, <<>>)
  BY <1>3 DEF RemoveFrame, Splice
<1>5. /\ Splice(frames, k, <<>>) \in Seq(FrameNums)
      /\ Len(Splice(frames, k, <<>>)) = Len(frames) - 1 + Len(<<>>)
      /\ \A i \in 1 .. k - 1 : Splice(frames, k, <<>>)[i] = frames[i]
      /\ \A i \in k + 1 .. Len(frames) : Splice(frames, k, <<>>)[i - 1 + Len(<<>>)] = frames[i]
  <2>1. <<>> \in Seq(FrameNums)
    OBVIOUS
  <2> QED
    BY ONLY frames \in Seq(FrameNums), k \in 1 .. Len(frames), <2>1, SpliceIs
<1>6. /\ frames' \in Seq(FrameNums) /\ Len(frames') = n - 1
      /\ \A i \in 1 .. k - 1 : frames'[i] = frames[i]
      /\ \A i \in k + 1 .. n : frames'[i - 1] = frames[i]
  <2>1. Len(<<>>) = 0 /\ n - 1 + 0 = n - 1 /\ \A i \in k + 1 .. n : i - 1 + 0 = i - 1
    BY <1>1
  <2> QED
    BY <1>4, <1>5, <2>1
<1>7. ASSUME NEW i \in 1 .. n - 1 PROVE frames'[i] = IF i < k THEN frames[i] ELSE frames[i + 1]
  <2>1. CASE i < k
    <3>1. i \in 1 .. k - 1
      BY <1>1, <2>1
    <3> QED
      BY <1>6, <2>1, <3>1
  <2>2. CASE ~(i < k)
    <3>1. i + 1 \in k + 1 .. n /\ (i + 1) - 1 = i
      BY <1>1, <2>2
    <3> QED
      BY <1>6, <2>2, <3>1
  <2> QED
    BY <2>1, <2>2
<1>8. DOMAIN frames' = 1 .. n - 1
  BY <1>6
<1> QED
  BY <1>6, <1>7, <1>8

LEMMA RemoveFrameOnce ==
  ASSUME frames \in Seq(FrameNums), NEW k \in 1 .. Len(frames), frames' = RemoveFrame(k),
         NoRepeats(frames)
  PROVE  NoRepeats(frames)' /\ Listed' \subseteq Listed \ {frames[k]}
<1> DEFINE n == Len(frames)
           src(i) == IF i < k THEN i ELSE i + 1
<1>1. n \in Nat /\ k \in Nat /\ DOMAIN frames = 1 .. n
  OBVIOUS
<1>2. DOMAIN frames' = 1 .. n - 1 /\ \A i \in 1 .. n - 1 : frames'[i] = frames[src(i)]
  BY RemoveFrameIs
<1> HIDE DEF n
<1>3. /\ \A i \in 1 .. n - 1 : src(i) \in 1 .. n /\ src(i) # k
      /\ \A i, j \in 1 .. n - 1 : i # j => src(i) # src(j)
  BY <1>1
<1> HIDE DEF src
<1>4. NoRepeats(frames)'
  BY <1>1, <1>2, <1>3 DEF NoRepeats
<1>5. ASSUME NEW g \in Listed' PROVE g \in Listed /\ g # frames[k]
  <2>1. PICK i \in 1 .. n - 1 : g = frames[src(i)]
    BY <1>2 DEF Listed
  <2>2. k \in 1 .. n
    BY DEF n
  <2> QED
    BY <1>1, <1>3, <2>1, <2>2 DEF Listed, NoRepeats
<1> QED
  BY <1>4, <1>5

LEMMA FileStepKeeps ==
  ASSUME TypeInv, FilesInv, FileStep
  PROVE  FilesInv' /\ \A f \in prot : f \in prot' /\ disk'[f] = disk[f]
<1>1. /\ frames \in Seq(FrameNums) /\ prot \subseteq FrameNums /\ Listed \subseteq FrameNums
      /\ disk \in [FrameNums -> SUBSET Image]
  BY ListedType DEF TypeInv, TypesOK, JobOK
<1>2. CASE UNCHANGED <<disk, prot, frames>>
  BY <1>2 DEF FilesInv, NoRepeats, Listed
<1>3. CASE UNCHANGED <<prot, frames>> /\ \E f \in Listed : \E D : disk' = [disk EXCEPT ![f] = D]
  BY <1>1, <1>3 DEF FilesInv, NoRepeats, Listed
<1>4. CASE UNCHANGED <<disk, prot>> /\ frames' = <<>>
  <2>1. DOMAIN <<>> = {}
    OBVIOUS
  <2> QED
    BY <1>4, <2>1 DEF FilesInv, NoRepeats, Listed
<1>5. ASSUME NEW k \in 1 .. Len(frames), UNCHANGED disk,
             frames' = RemoveFrame(k), prot' = prot \cup {frames[k]}
      PROVE  FilesInv' /\ \A f \in prot : f \in prot' /\ disk'[f] = disk[f]
  <2>1. NoRepeats(frames)' /\ Listed' \subseteq Listed \ {frames[k]}
    BY <1>1, <1>5, RemoveFrameOnce DEF FilesInv
  <2> QED
    BY <1>5, <2>1 DEF FilesInv
<1> QED
  BY <1>2, <1>3, <1>4, <1>5 DEF FileStep

-----------------------------------------------------------------------------
(* The output files, to the byte.                                          *)

\* What is stored whole lies in the file; torn names pixels of the image.
SizeInv ==
  /\ torn \in [FrameNums -> SUBSET Image] /\ size \in [FrameNums -> Nat]
  /\ \A f \in FrameNums : \A p \in disk[f] : p < size[f]

\* The two things that happen to them: nothing, or a write() of the pixels slot s
\* holds, which stores n of them whole.
FilesStay == disk' = disk /\ torn' = torn /\ size' = size
WriteStep(s, n) ==
  /\ work[s].frame \in Listed /\ n \in Nat /\ n <= Extent(work[s])
  /\ disk' = [disk EXCEPT ![work[s].frame] =
                @ \cup (work[s].start .. work[s].start + n - 1)]
  /\ Wrote(work[s], n)
FilesMove == FilesStay \/ \E s \in Slots : \E n \in Nat : WriteStep(s, n)

LEMMA WritesStep ==
  ASSUME TypeInv, NEW s \in Slots, NEW n \in 0 .. NPix, WritesFile(s, n)
  PROVE  [Next]_envVars /\ WriteStep(s, n)
<1>1. Next
  BY DEF WritesFile, Next, Receive
<1>2. Wrote(work[s], n) /\ n \in Nat
  BY ProtocolAssumption DEF WritesFile
<1>3. work[s].frame \in Listed /\ Listed \subseteq FrameNums
  BY ListedType DEF WritesFile, PixelsStored, PixelsUnwritten
<1>4. work[s].start \in Int /\ work[s].stop \in Int
  BY <1>3, WorkPixels, ProtocolAssumption DEF SpanSet, Image, NoWork, Span, NoFrame, FrameNums
<1>5. CASE n = Extent(work[s]) /\ (PixelsStored(s, FALSE) \/ PixelsStored(s, TRUE))
  <2>1. disk' = [disk EXCEPT ![work[s].frame] = disk[work[s].frame] \cup PixelsOf(work[s])]
    BY <1>5 DEF PixelsStored
  <2>2. PixelsOf(work[s]) = work[s].start .. work[s].start + n - 1 /\ n <= Extent(work[s])
    BY <1>2, <1>4, <1>5 DEF Extent, PixelsOf
  <2> QED
    BY <1>1, <1>2, <1>3, <2>1, <2>2 DEF WriteStep
<1>6. CASE PixelsUnwritten(s, n)
  <2>1. n <= Extent(work[s])
    BY <1>2, <1>4, <1>6 DEF PixelsUnwritten, Extent
  <2> QED
    BY <1>1, <1>2, <1>3, <1>6, <2>1 DEF WriteStep, PixelsUnwritten
<1> QED
  BY <1>5, <1>6 DEF WritesFile

\* A step of the dispatcher that is not a kill is one of RemrtEnv's, and moves the
\* files in one of the two ways; so does a kill.
LEMMA ResumeStep ==
  ASSUME TypeInv, [ResumeNext]_resumeVars
  PROVE  ([Next]_envVars \/ Crash) /\ FilesMove
<1>1. CASE UNCHANGED resumeVars
  BY <1>1 DEF resumeVars, envVars, vars, job, FilesMove, FilesStay
<1>2. CASE LeavesFiles
  BY <1>2 DEF LeavesFiles, FilesMove, FilesStay
<1>3. ASSUME NEW s \in Slots, NEW n \in 0 .. NPix, WritesFile(s, n)
      PROVE  ([Next]_envVars \/ Crash) /\ FilesMove
  <2>1. [Next]_envVars /\ WriteStep(s, n)
    BY <1>3, WritesStep
  <2>2. n \in Nat
    BY ProtocolAssumption
  <2> QED
    BY <2>1, <2>2 DEF FilesMove
<1>4. CASE Crash
  <2>1. CASE UNCHANGED <<disk, torn, size>>
    BY <1>4, <2>1 DEF FilesMove, FilesStay
  <2>2. CASE ~UNCHANGED <<disk, torn, size>>
    <3>1. PICK s \in Slots, n \in 0 .. NPix :
            /\ work[s].frame \in Listed /\ n <= Extent(work[s])
            /\ disk' = [disk EXCEPT ![work[s].frame] =
                 @ \cup (work[s].start .. work[s].start + n - 1)]
            /\ Wrote(work[s], n)
      BY <1>4, <2>2 DEF Crash, Survives
    <3>2. n \in Nat
      BY ProtocolAssumption
    <3> QED
      BY <1>4, <3>1, <3>2 DEF WriteStep, FilesMove
  <2> QED
    BY <1>4, <2>1, <2>2
<1> QED
  BY <1>1, <1>2, <1>3, <1>4 DEF ResumeNext

\* A write() adds to one file of a frame in progress: no pixel that was there is
\* lost, and a torn one stays torn or becomes whole.
LEMMA WriteAdds ==
  ASSUME TypeInv, SizeInv, NEW s \in Slots, NEW n \in Nat, WriteStep(s, n)
  PROVE  /\ disk' \in [FrameNums -> SUBSET Image] /\ SizeInv' /\ Grows
         /\ \A f \in FrameNums : torn[f] \subseteq torn'[f] \cup disk'[f]
         /\ \A f \in FrameNums \ Listed : disk'[f] = disk[f] /\ torn'[f] = torn[f]
<1> DEFINE g == work[s].frame
           p == work[s].start + n
           D == work[s].start .. p - 1
<1>1. /\ disk \in [FrameNums -> SUBSET Image] /\ g \in Listed /\ g \in FrameNums
      /\ torn \in [FrameNums -> SUBSET Image] /\ size \in [FrameNums -> Nat]
      /\ \A f \in FrameNums : \A q \in disk[f] : q < size[f]
  BY ListedType DEF TypeInv, TypesOK, JobOK, SizeInv, WriteStep
<1>2. /\ work[s].start \in Nat /\ work[s].stop \in Nat /\ p \in Nat
      /\ PixelsOf(work[s]) \subseteq Image
  BY <1>1, WorkPixels, ProtocolAssumption DEF SpanSet, Image, NoWork, Span, NoFrame, FrameNums
<1>3. D \subseteq Image /\ \A q \in D : q < p
  <2>1. n <= work[s].stop - work[s].start + 1
    BY DEF WriteStep, Extent
  <2>2. D \subseteq PixelsOf(work[s])
    BY <1>2, <2>1 DEF PixelsOf
  <2> QED
    BY <1>2, <2>2
<1>4. disk' = [disk EXCEPT ![g] = disk[g] \cup D]
  <2>1. disk' = [disk EXCEPT ![g] = disk[g] \cup (work[s].start .. work[s].start + n - 1)]
    BY DEF WriteStep
  <2>2. work[s].start .. work[s].start + n - 1 = D
    BY <1>2
  <2> HIDE DEF g, D
  <2> QED
    BY <2>1, <2>2
<1>5. \/ n = 0 /\ UNCHANGED <<torn, size>>
      \/ /\ \E part \in SUBSET (({p} \cap PixelsOf(work[s])) \ disk[g]) :
              torn' = [torn EXCEPT ![g] = (torn[g] \ D) \cup part]
         /\ size' = [size EXCEPT ![g] = IF p > size[g] THEN p ELSE size[g]]
  BY DEF WriteStep, Wrote
<1>6. n = 0 => D = {}
  BY <1>2
<1> HIDE DEF g, p, D
<1>7. disk' \in [FrameNums -> SUBSET Image] /\ Grows
  BY <1>1, <1>3, <1>4 DEF Grows
<1>8. CASE n = 0 /\ UNCHANGED <<torn, size>>
  <2>1. disk' = disk
    BY <1>1, <1>4, <1>6, <1>8
  <2> QED
    BY <1>7, <1>8, <2>1 DEF SizeInv
<1>9. ASSUME NEW part \in SUBSET (({p} \cap PixelsOf(work[s])) \ disk[g]),
             torn' = [torn EXCEPT ![g] = (torn[g] \ D) \cup part],
             size' = [size EXCEPT ![g] = IF p > size[g] THEN p ELSE size[g]]
      PROVE  /\ SizeInv'
             /\ \A f \in FrameNums : torn[f] \subseteq torn'[f] \cup disk'[f]
             /\ \A f \in FrameNums \ Listed : disk'[f] = disk[f] /\ torn'[f] = torn[f]
  <2>1. torn' \in [FrameNums -> SUBSET Image] /\ size' \in [FrameNums -> Nat]
    BY <1>1, <1>2, <1>9
  <2>2. \A f \in FrameNums : torn[f] \subseteq torn'[f] \cup disk'[f]
    BY <1>1, <1>4, <1>9
  <2>3. \A f \in FrameNums \ Listed : disk'[f] = disk[f] /\ torn'[f] = torn[f]
    BY <1>1, <1>4, <1>9
  <2>4. ASSUME NEW f \in FrameNums, NEW q \in disk'[f] PROVE q < size'[f]
    <3>1. CASE f = g
      <4>1. q \in disk[g] \/ q \in D
        BY <1>1, <1>4, <2>4, <3>1
      <4>2. size'[g] = IF p > size[g] THEN p ELSE size[g]
        BY <1>1, <1>9
      <4>3. disk'[g] \subseteq Nat
        BY <1>1, <1>7, ProtocolAssumption DEF Image
      <4> QED
        BY <1>1, <1>2, <1>3, <3>1, <4>1, <4>2, <4>3
    <3>2. CASE f # g
      BY <1>1, <1>4, <1>9, <3>2
    <3> QED
      BY <3>1, <3>2
  <2> QED
    BY <2>1, <2>2, <2>3, <2>4 DEF SizeInv
<1> QED
  BY <1>5, <1>7, <1>8, <1>9

LEMMA FilesAdd ==
  ASSUME TypeInv, SizeInv, FilesMove
  PROVE  /\ disk' \in [FrameNums -> SUBSET Image] /\ SizeInv' /\ Grows
         /\ \A f \in FrameNums : torn[f] \subseteq torn'[f] \cup disk'[f]
         /\ \A f \in FrameNums \ Listed : disk'[f] = disk[f] /\ torn'[f] = torn[f]
<1>1. CASE FilesStay
  BY <1>1 DEF FilesStay, SizeInv, Grows, TypeInv, TypesOK, JobOK
<1>2. ASSUME NEW s \in Slots, NEW n \in Nat, WriteStep(s, n)
      PROVE  /\ disk' \in [FrameNums -> SUBSET Image] /\ SizeInv' /\ Grows
             /\ \A f \in FrameNums : torn[f] \subseteq torn'[f] \cup disk'[f]
             /\ \A f \in FrameNums \ Listed : disk'[f] = disk[f] /\ torn'[f] = torn[f]
  BY <1>2, WriteAdds
<1> QED
  BY <1>1, <1>2 DEF FilesMove

-----------------------------------------------------------------------------
(* The dispatcher killed and started again.                                *)

\* What a new dispatcher begins with.
Begins ==
  /\ running = TRUE /\ method = MOVIE
  /\ conn = [s \in Slots |-> "none"] /\ state = [s \in Slots |-> "UNUSED"]
  /\ work = [s \in Slots |-> NoWork] /\ cur = [s \in Slots |-> NoFrame]
  /\ nPipe = 0 /\ pipeEver = FALSE /\ prevServ = FALSE
  /\ phase \in {"start", "exit"} /\ at = NoSlot /\ fpos = 1 /\ nxt = 0 /\ again = FALSE
  /\ hosting = FALSE /\ cmdFrom = NoSlot /\ hello = {}

\* The files and the frames it finds.
Finds ==
  /\ disk \in [FrameNums -> SUBSET Image] /\ SizeInv /\ prot \subseteq FrameNums
  /\ frames \in Seq(FrameNums) /\ NoRepeats(frames) /\ Listed = FrameNums \ prot
  /\ todo = [f \in FrameNums |-> IF f \in Listed THEN Starting(f) ELSE <<>>]

\* The scan sees pixels of the image, all that are stored whole among them.
LEMMA ShownPart ==
  ASSUME disk \in [FrameNums -> SUBSET Image], SizeInv, NEW f \in FrameNums
  PROVE  Shown(f) \in SUBSET Image /\ disk[f] \subseteq Shown(f)
BY DEF SizeInv, Shown

\* What is queued for a frame that is begun.
LEMMA StartingMissing ==
  ASSUME FilePix <= NPix, Finds, NEW f \in Listed
  PROVE  /\ f \in FrameNums /\ Proper(f, todo[f]) /\ Disjoint(todo[f])
         /\ Pixels(todo[f]) = Image \ Shown(f)
         /\ Shown(f) \subseteq disk[f] \cup torn[f] /\ disk[f] \subseteq Shown(f)
<1>1. f \in FrameNums /\ todo[f] = Scanned(f, Shown(f))
  BY DEF Finds, Starting
<1>2. Shown(f) \in SUBSET Image /\ disk[f] \subseteq Shown(f)
  BY <1>1, ShownPart DEF Finds
<1> QED
  BY <1>1, <1>2, ScannedMissing DEF Shown

LEMMA BeginsType ==
  ASSUME FilePix <= NPix, Begins, Finds
  PROVE  TypeInv
<1>1. TodoOK
  <2>1. ASSUME NEW f \in FrameNums
        PROVE  todo[f] \in Seq(SpanSet) /\ \A i \in DOMAIN todo[f] : todo[f][i].frame = f
    <3>1. CASE f \in Listed
      <4>1. Proper(f, todo[f])
        BY <3>1, StartingMissing
      <4> QED
        BY <4>1 DEF Proper
    <3>2. CASE f \notin Listed
      <4>1. todo[f] = <<>>
        BY <3>2 DEF Finds
      <4> QED
        BY <4>1
    <3> QED
      BY <3>1, <3>2
  <2>2. DOMAIN todo = FrameNums /\ todo = [f \in FrameNums |-> todo[f]]
    BY DEF Finds
  <2> QED
    BY <2>1, <2>2 DEF TodoOK
<1>2. JobOK
  BY <1>1 DEF JobOK, Begins, Finds
<1>3. ServersOK
  BY DEF ServersOK, Begins, States
<1>4. CountersOK
  <2>1. nPipe \in 0 .. MaxPipes
    BY RemrtAssumption DEF Begins
  <2> QED
    BY <2>1 DEF CountersOK, Begins
<1>5. LoopOK /\ CommandSlot
  <2>1. phase \in Phases /\ (phase \in {"cmd", "restart"} => cmdFrom \in Slots)
    BY DEF Begins, Phases
  <2>2. fpos \in Nat \ {0} /\ nxt \in 0 .. 2
    BY DEF Begins
  <2> QED
    BY <2>1, <2>2 DEF LoopOK, CommandSlot, Begins
<1> QED
  BY <1>2, <1>3, <1>4, <1>5 DEF TypeInv, TypesOK

\* The pixels that the files of the unprotected frames show black wait.
LEMMA BeginsMissing ==
  ASSUME FilePix <= NPix, Finds
  PROVE  BlackWaits
<1>1. Listed = FrameNums \ prot
  BY DEF Finds
<1>2. ASSUME NEW f \in Listed
      PROVE  /\ Pixels(todo[f]) = Image \ Shown(f) /\ Disjoint(todo[f])
             /\ Pixels(todo[f]) \cap disk[f] = {}
  BY StartingMissing
<1> QED
  BY <1>1, <1>2 DEF BlackWaits

LEMMA BeginsFilled ==
  ASSUME FilePix <= NPix, Begins, Finds
  PROVE  FilledInv
<1>1. ASSUME NEW f \in FrameNums PROVE todo[f] \in Seq(Filled)
  <2>1. CASE f \in Listed
    <3>1. Proper(f, todo[f])
      BY <2>1, StartingMissing
    <3> QED
      BY <3>1, ProperFilled
  <2>2. CASE f \notin Listed
    <3>1. todo[f] = <<>>
      BY <2>2 DEF Finds
    <3> QED
      BY <3>1
  <2> QED
    BY <2>1, <2>2
<1> QED
  BY <1>1 DEF FilledInv, Begins

LEMMA BeginsExclusive ==
  ASSUME FilePix <= NPix, Begins, Finds
  PROVE  Exclusive
<1>1. WaitingOnce
  <2> SUFFICES ASSUME NEW f \in FrameNums PROVE Disjoint(todo[f])
    BY DEF WaitingOnce
  <2>1. CASE f \in Listed
    BY <2>1, BeginsMissing DEF BlackWaits
  <2>2. CASE f \notin Listed
    <3>1. todo[f] = <<>>
      BY <2>2 DEF Finds
    <3> QED
      BY <3>1 DEF Disjoint
  <2> QED
    BY <2>1, <2>2
<1>2. \A s \in Slots : work[s] = NoWork
  BY DEF Begins
<1> QED
  BY <1>1, <1>2, NoWorkEmpty DEF Exclusive, OutOnce, WaitingOrOut

\* The inductive invariant over kills: the slots' part of SafeInv, the files, and
\* pixels missing only where a write() has torn one.
ResumeInv == TypeInv /\ Slotted /\ HelloInv /\ SizeInv /\ OnlyTornMissing
FinishedTorn == \A f \in prot : Image \subseteq disk[f] \cup torn[f]

LEMMA BeginsSafe ==
  ASSUME FilePix <= NPix, Begins, Finds, FinishedTorn
  PROVE  ResumeInv
<1>1. Slotted
  <2>1. \A s \in Slots : work[s] = NoWork /\ state[s] = "UNUSED"
    BY DEF Begins
  <2>2. "UNUSED" \notin Requeues
    BY DEF Requeues
  <2>3. phase # "restart"
    BY DEF Begins
  <2> QED
    BY <2>1, <2>2, <2>3 DEF Slotted, NoWorkStranded, FreeIdle, NotRestarting
<1>2. \A f \in Listed : Image \subseteq disk[f] \cup torn[f] \cup Pixels(todo[f]) \cup OutOf(f)
  BY StartingMissing
<1>3. HelloInv
  BY DEF Begins, HelloInv, HelloNew
<1> QED
  BY <1>1, <1>2, <1>3, BeginsType DEF ResumeInv, OnlyTornMissing, FinishedTorn, Finds

LEMMA ResumeBegins ==
  ASSUME FilePix <= NPix, ResumeInit
  PROVE  Begins /\ Finds /\ FinishedTorn
<1>1. Queued \in Seq(FrameNums) /\ NoRepeats(Queued) /\ Held(Queued) = FrameNums /\ frames = Queued
  <2>1. prot = {} /\ frames = Queued
    BY DEF ResumeInit
  <2> QED
    BY <2>1, QueuedAll
<1>2. disk \in [FrameNums -> SUBSET Image] /\ SizeInv
  <2>1. /\ 0 .. FilePix - 1 \subseteq Image /\ 0 .. FilePix \subseteq Nat
    BY ProtocolAssumption, ResumeAssumption DEF Image
  <2>2. /\ disk \in [FrameNums -> SUBSET (0 .. FilePix - 1)]
        /\ torn \in [FrameNums -> SUBSET (0 .. FilePix - 1)]
        /\ size \in [FrameNums -> 0 .. FilePix]
        /\ \A f \in FrameNums : disk[f] \subseteq 0 .. size[f] - 1
    BY DEF ResumeInit
  <2>3. /\ disk \in [FrameNums -> SUBSET Image] /\ torn \in [FrameNums -> SUBSET Image]
        /\ size \in [FrameNums -> Nat]
    BY <2>1, <2>2
  <2>4. ASSUME NEW f \in FrameNums, NEW p \in disk[f] PROVE p < size[f]
    <3>1. p \in 0 .. size[f] - 1 /\ size[f] \in Nat
      BY <2>2, <2>3, <2>4
    <3> QED
      BY <3>1
  <2> QED
    BY <2>3, <2>4 DEF SizeInv
<1>3. Listed = FrameNums
  BY <1>1 DEF Held, Listed
<1>4. prot = {}
  BY DEF ResumeInit
<1>5. todo = [f \in FrameNums |-> IF f \in Listed THEN Starting(f) ELSE <<>>]
  BY <1>3 DEF ResumeInit
<1>6. Finds
  BY <1>1, <1>2, <1>3, <1>4, <1>5 DEF Finds
<1>7. Begins
  BY DEF ResumeInit, Begins
<1> QED
  BY <1>4, <1>6, <1>7 DEF FinishedTorn

LEMMA CrashBegins ==
  ASSUME TypeInv, SizeInv, Crash
  PROVE  Begins' /\ Finds'
<1>1. Queued \in Seq(FrameNums) /\ NoRepeats(Queued) /\ Held(Queued) = FrameNums \ prot
  BY QueuedAll
<1>2. frames' = Queued /\ prot' = prot
  BY DEF Crash
<1>3. disk' \in [FrameNums -> SUBSET Image] /\ SizeInv' /\ prot' \subseteq FrameNums
  <2>1. FilesMove
    BY ResumeStep DEF ResumeNext
  <2> QED
    BY <1>2, <2>1, FilesAdd DEF TypeInv, TypesOK, JobOK
<1>4. Listed' = {Queued[i] : i \in DOMAIN Queued}
  BY <1>2 DEF Listed
<1>5. \A f \in FrameNums : (\E i \in DOMAIN Queued : Queued[i] = f) <=> f \in Listed'
  BY <1>4
<1>6. todo' = [f \in FrameNums |-> IF f \in Listed' THEN Starting(f)' ELSE <<>>]
  <2>1. todo' = [f \in FrameNums |->
          IF \E i \in DOMAIN Queued : Queued[i] = f THEN Starting(f)' ELSE <<>>]
    BY DEF Crash
  <2> QED
    BY <1>5, <2>1, Zenon
<1>7. Finds'
  BY <1>1, <1>2, <1>3, <1>4, <1>6 DEF Finds, Held, NoRepeats
<1>8. Begins'
  BY DEF Crash, Begins
<1> QED
  BY <1>7, <1>8

\* The types.
LEMMA ResumeType ==
  ASSUME FilePix <= NPix
  PROVE  ResumeSpec => [](TypeInv /\ SizeInv)
<1>1. ResumeInit => Begins /\ Finds
  BY ResumeBegins
<1>2. Begins /\ Finds => TypeInv /\ SizeInv
  BY BeginsType DEF Finds
<1>3. TypeInv /\ SizeInv /\ [ResumeNext]_resumeVars
        => (TypeInv /\ SizeInv)' \/ (Begins /\ Finds)'
  BY ResumeStep, FilesAdd, NextType, CrashBegins
<1> QED
  BY <1>1, <1>2, <1>3, PTL DEF ResumeSpec

\* However often the dispatcher is killed, and after whatever byte of a write(),
\* a new one has to do exactly what the files of the frames that are not protected
\* show black, each pixel once, and so none that is stored whole:
\* scan_frame_for_finished_pixels and list_remove pass over no black pixel and keep
\* no other.
THEOREM BlackPixelsWait ==
  ASSUME FilePix <= NPix
  PROVE  ResumeSpec => RestartResumes
<1>1. Begins /\ Finds => BlackWaits
  BY BeginsMissing
<1>2. TypeInv /\ SizeInv /\ [ResumeNext]_resumeVars
        => [Crash => (Begins /\ Finds)']_resumeVars
  BY CrashBegins
<1> QED
  BY <1>1, <1>2, ResumeType, PTL DEF RestartResumes, ResumeSpec

\* No span of fr_todo or of a server is ever empty: list_remove drops the ends
\* it cuts to nothing, and task_server takes the whole of a span that is no
\* longer than a lump.
THEOREM NoEmptySpan ==
  ASSUME FilePix <= NPix
  PROVE  ResumeSpec => []SpansInclusive
<1>1. ResumeInit => Begins /\ Finds
  BY ResumeBegins
<1>2. Begins /\ Finds => FilledInv
  BY BeginsFilled
<1>3. TypeInv /\ SizeInv /\ FilledInv /\ [ResumeNext]_resumeVars
        => FilledInv' \/ (Begins /\ Finds)'
  BY ResumeStep, NextWork, WorkStepFilled, CrashBegins
<1>4. FilledInv => SpansInclusive
  BY FilledShows
<1> QED
  BY <1>1, <1>2, <1>3, <1>4, ResumeType, PTL DEF ResumeSpec

LEMMA ResumeUntouched ==
  ASSUME TypeInv, SizeInv, FilesInv, [ResumeNext]_resumeVars
  PROVE  \A f \in prot : f \in prot' /\ disk'[f] = disk[f] /\ torn'[f] = torn[f]
<1>1. prot \subseteq FrameNums \ Listed
  BY DEF TypeInv, TypesOK, JobOK, FilesInv
<1>2. \A f \in FrameNums \ Listed : disk'[f] = disk[f] /\ torn'[f] = torn[f]
  BY ResumeStep, FilesAdd
<1>3. \A f \in prot : f \in prot'
  <2>1. CASE [Next]_envVars
    BY <2>1, NextFiles, FileStepKeeps
  <2>2. CASE Crash
    BY <2>2 DEF Crash
  <2> QED
    BY <2>1, <2>2, ResumeStep
<1> QED
  BY <1>1, <1>2, <1>3

\* The file of a frame that was declared done stays as it is, for a late answer
\* of a worker (ph_pixels), for every command and for a dispatcher that is
\* started again: the frame is off the list, and create_outputfilename does not
\* queue it again.
THEOREM FinishedStays ==
  ASSUME FilePix <= NPix
  PROVE  ResumeSpec => FinishedUntouched
<1> DEFINE Untouched ==
      \A f \in prot : f \in prot' /\ disk'[f] = disk[f] /\ torn'[f] = torn[f]
<1>1. ResumeInit => Begins /\ Finds
  BY ResumeBegins
<1>2. Begins /\ Finds => FilesInv
  BY DEF Finds, FilesInv
<1>3. TypeInv /\ SizeInv /\ FilesInv /\ [ResumeNext]_resumeVars
        => FilesInv' \/ (Begins /\ Finds)'
  BY ResumeStep, NextFiles, FileStepKeeps, CrashBegins
<1>4. TypeInv /\ SizeInv /\ FilesInv /\ [ResumeNext]_resumeVars => [Untouched]_resumeVars
  BY ResumeUntouched
<1> QED
  BY <1>1, <1>2, <1>3, <1>4, ResumeType, PTL DEF ResumeSpec, FinishedUntouched

\* Kills and restarts included, no pixel waits twice, is with two servers, or is
\* with one and waits.
THEOREM NoPixelTwiceResumed ==
  ASSUME FilePix <= NPix
  PROVE  ResumeSpec => []NoDoubleAssignment
<1>1. ResumeInit => Begins /\ Finds
  BY ResumeBegins
<1>2. Begins /\ Finds => Exclusive
  BY BeginsExclusive
<1>3. TypeInv /\ SizeInv /\ Exclusive /\ [ResumeNext]_resumeVars
        => Exclusive' \/ (Begins /\ Finds)'
  BY ResumeStep, NextWork, WorkStepExclusive, CrashBegins
<1>4. TypeInv /\ Exclusive => NoDoubleAssignment
  BY ExclusiveShows
<1> QED
  BY <1>1, <1>2, <1>3, <1>4, ResumeType, PTL DEF ResumeSpec

\* A dispatcher that is started again is not in the middle of a pass, and sends
\* nothing while it starts: it, too, sends no MSG_LINES while scheduling is off
\* (task_server, cd_stop).
THEOREM StoppedResumed ==
  ASSUME FilePix <= NPix
  PROVE  ResumeSpec => StopHolds
<1>1. ResumeInit => TypeInv /\ SizeInv /\ AssignsRunning
  <2>1. ResumeInit => Begins /\ Finds
    BY ResumeBegins
  <2> QED
    BY <2>1, BeginsType DEF Begins, Finds, AssignsRunning
<1>2. TypeInv /\ SizeInv /\ AssignsRunning /\ [ResumeNext]_resumeVars
        => AssignsRunning' /\ [LinesSent => running]_envVars
  <2> SUFFICES ASSUME TypeInv, SizeInv, AssignsRunning, [ResumeNext]_resumeVars
               PROVE  AssignsRunning' /\ (UNCHANGED envVars \/ (LinesSent => running))
    OBVIOUS
  <2>1. [Next]_envVars \/ Crash
    BY ResumeStep
  <2>2. CASE UNCHANGED envVars
    BY <2>2 DEF envVars, vars, job, loop, AssignsRunning
  <2>3. CASE Next /\ ~UNCHANGED envVars
    BY <2>3, NextStops DEF StopStep
  <2>4. CASE Crash
    <3>1. sent' = Nothing /\ phase' # "assign"
      BY <2>4 DEF Crash
    <3> QED
      BY <3>1 DEF AssignsRunning, LinesSent, Nothing
  <2> QED
    BY <2>1, <2>2, <2>3, <2>4
<1>3. ResumeSpec => [][LinesSent => running]_envVars
  BY <1>1, <1>2, ResumeType, PTL DEF ResumeSpec
<1>4. [LinesSent => running]_envVars
        => [\A s \in Slots : (\E i \in DOMAIN sent'[s] : sent'[s][i].type = "LINES") => running]_envVars
  BY DEF LinesSent
<1> QED
  BY <1>3, <1>4, PTL DEF StopHolds

\* A step of the dispatcher loses no pixel but those that were torn before it,
\* and those stay torn or become whole.
LEMMA NextTorn ==
  ASSUME ResumeInv, RequeuedOnly, [Next]_envVars, FilesMove
  PROVE  ResumeInv'
<1>1. PICK T : T = torn
  OBVIOUS
<1>2. SafeBut(T) /\ TypeInv /\ HelloInv /\ SizeInv
  BY <1>1 DEF ResumeInv, SafeBut, OnlyTornMissing, NoneLostBut, CompleteBut
<1>3. SafeBut(T)' /\ HelloInv'
  BY <1>2, NextSafe
<1>4. SizeInv' /\ \A f \in FrameNums : T[f] \subseteq torn'[f] \cup disk'[f]
  BY <1>1, <1>2, FilesAdd
<1>5. TypeInv' /\ Listed' \subseteq FrameNums /\ prot' \subseteq FrameNums
  BY <1>3 DEF SafeBut, TypeInv, TypesOK, JobOK, Listed
<1>6. OnlyTornMissing'
  BY <1>3, <1>4, <1>5 DEF SafeBut, NoneLostBut, CompleteBut, OnlyTornMissing
<1> QED
  BY <1>3, <1>4, <1>6 DEF SafeBut, ResumeInv

\* Over any kills and full disks, no pixel of a frame is missing but one that the
\* end of a write() has torn: every other is stored, waits or is with a server
\* from which drop_server takes it back, and a frame that was declared done lacks
\* no other.  (NoPixelLost itself does not survive a kill.)
THEOREM OnlyTornIsMissing ==
  ASSUME FilePix <= NPix, RequeuedOnly
  PROVE  ResumeSpec => [](OnlyTornMissing /\ NoWorkStranded)
<1>1. ResumeInit => Begins /\ Finds /\ FinishedTorn
  BY ResumeBegins
<1>2. Begins /\ Finds /\ FinishedTorn => ResumeInv
  BY BeginsSafe
<1>3. ResumeInv /\ [ResumeNext]_resumeVars
        => ResumeInv' \/ (Begins /\ Finds /\ FinishedTorn)'
  <2> SUFFICES ASSUME ResumeInv, [ResumeNext]_resumeVars
               PROVE  ResumeInv' \/ (Begins' /\ Finds' /\ FinishedTorn')
    OBVIOUS
  <2>1. ([Next]_envVars \/ Crash) /\ FilesMove /\ TypeInv /\ SizeInv
    BY ResumeStep DEF ResumeInv
  <2>2. CASE [Next]_envVars
    BY <2>1, <2>2, NextTorn
  <2>3. CASE Crash
    <3>1. Begins' /\ Finds'
      BY <2>1, <2>3, CrashBegins
    <3>2. prot' = prot /\ prot \subseteq FrameNums
      BY <2>1, <2>3 DEF Crash, TypeInv, TypesOK, JobOK
    <3>3. \A f \in prot : disk[f] \cup torn[f] \subseteq disk'[f] \cup torn'[f]
      BY <2>1, <3>2, FilesAdd DEF Grows
    <3>4. FinishedTorn'
      BY <3>2, <3>3 DEF ResumeInv, OnlyTornMissing, FinishedTorn
    <3> QED
      BY <3>1, <3>4
  <2> QED
    BY <2>1, <2>2, <2>3
<1>4. ResumeInv => OnlyTornMissing /\ NoWorkStranded
  BY DEF ResumeInv, Slotted
<1> QED
  BY <1>1, <1>2, <1>3, <1>4, PTL DEF ResumeSpec

-----------------------------------------------------------------------------
(* The work pool itself.                                                   *)

PoolInv == PoolTypeOK /\ Accounted /\ FinishedStored

LEMMA PoolKeeps ==
  ASSUME PoolInv, [PoolNext]_poolVars
  PROVE  PoolInv'
<1> USE DEF PoolInv, PoolTypeOK, Accounted, FinishedStored
<1>1. ASSUME NEW w \in Workers, HandOut(w) PROVE PoolInv'
  <2>1. PICK f \in Frames : \E P \in SUBSET (waiting \cap UnitsOf(f)) :
          waiting' = waiting \ P /\ out' = [out EXCEPT ![w] = P]
    BY <1>1 DEF HandOut
  <2>2. PICK P \in SUBSET (waiting \cap UnitsOf(f)) :
          waiting' = waiting \ P /\ out' = [out EXCEPT ![w] = P]
    BY <2>1
  <2>3. out[w] = {} /\ UNCHANGED <<stored, finished>>
    BY <1>1 DEF HandOut
  <2>4. PoolTypeOK'
    BY <2>2, <2>3
  <2>5. Accounted'
    <3> SUFFICES ASSUME NEW u \in Units
                 PROVE  u \in waiting' \/ u \in stored' \/ \E v \in Workers : u \in out'[v]
      OBVIOUS
    <3>1. CASE u \in P
      <4>1. u \in out'[w]
        BY <2>2, <3>1
      <4> QED
        BY <4>1
    <3>2. CASE u \notin P /\ \E v \in Workers : u \in out[v]
      <4>1. PICK v \in Workers : u \in out[v]
        BY <3>2
      <4>2. v # w /\ u \in out'[v]
        BY <2>2, <2>3, <4>1
      <4> QED
        BY <4>2
    <3> QED
      BY <2>2, <2>3, <3>1, <3>2
  <2> QED
    BY <2>3, <2>4, <2>5
<1>2. ASSUME NEW w \in Workers, Store(w) \/ TakeBack(w) PROVE PoolInv'
  <2>1. /\ out' = [out EXCEPT ![w] = {}] /\ finished' = finished
        /\ stored \subseteq stored' /\ stored' \subseteq stored \cup out[w]
        /\ waiting \subseteq waiting' /\ waiting' \subseteq waiting \cup out[w]
        /\ out[w] \subseteq stored' \cup waiting'
    BY <1>2 DEF Store, TakeBack
  <2>2. PoolTypeOK'
    BY <2>1
  <2>3. Accounted'
    <3> SUFFICES ASSUME NEW u \in Units
                 PROVE  u \in waiting' \/ u \in stored' \/ \E v \in Workers : u \in out'[v]
      OBVIOUS
    <3>1. CASE \E v \in Workers : u \in out[v]
      <4>1. PICK v \in Workers : u \in out[v]
        BY <3>1
      <4>2. CASE v = w
        BY <2>1, <4>1, <4>2
      <4>3. CASE v # w
        BY <2>1, <4>1, <4>3
      <4> QED
        BY <4>2, <4>3
    <3> QED
      BY <2>1, <3>1
  <2> QED
    BY <2>1, <2>2, <2>3
<1>3. ASSUME NEW f \in Frames, Finish(f) PROVE PoolInv'
  <2>1. /\ waiting \cap UnitsOf(f) = {} /\ \A w \in Workers : out[w] \cap UnitsOf(f) = {}
        /\ finished' = finished \cup {f} /\ UNCHANGED <<waiting, out, stored>>
    BY <1>3 DEF Finish
  <2>2. UnitsOf(f) \subseteq Units
    BY DEF UnitsOf, Units
  <2>3. UnitsOf(f) \subseteq stored
    BY <2>1, <2>2
  <2> QED
    BY <2>1, <2>3
<1>4. CASE UNCHANGED poolVars
  BY <1>4 DEF poolVars
<1> QED
  BY <1>1, <1>2, <1>3, <1>4 DEF PoolNext

\* Whatever implements the pool accounts for every unit of work, and finishes
\* a frame only once its units are all stored.
THEOREM PoolCorrect == PoolSpec => [](Accounted /\ FinishedStored)
<1>1. PoolInit => PoolInv
  BY DEF PoolInit, PoolInv, PoolTypeOK, Accounted, FinishedStored
<1>2. PoolInv /\ [PoolNext]_poolVars => PoolInv'
  BY PoolKeeps
<1>3. PoolInv => Accounted /\ FinishedStored
  BY DEF PoolInv
<1> QED
  BY <1>1, <1>2, <1>3, PTL DEF PoolSpec

=============================================================================
