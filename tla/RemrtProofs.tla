---------------------------- MODULE RemrtProofs ----------------------------
(* The steps of the dispatcher, for any number of servers, frames and pixels: *)
(* what each keeps of the types and of the work, whatever the workers and the *)
(* network do. RemrtRefinement and FarmProofs rest on these lemmas.           *)
EXTENDS Remrt, TLAPS, WellFoundedInduction

-----------------------------------------------------------------------------
(* Helpers *)

Below == {ss \in Nat \X Nat : ss[1] < ss[2]}

\* The order of the naturals, as a relation, is well founded.
LEMMA BelowWellFounded == IsWellFoundedOn(Below, Nat)
<1>1. OpToRel(<, Nat) = Below
  BY Zenon DEF OpToRel, Below
<1> QED
  BY <1>1, NatLessThanWellFounded, Zenon

\* A set of naturals that is not empty has a least element.
LEMMA Least ==
  ASSUME NEW T, T \subseteq Nat, T # {}
  PROVE  \E s \in T : \A t \in T : s <= t
<1>1. PICK s \in T : \A t \in T : ~(<<t, s>> \in Below)
  BY BelowWellFounded, WFMin
<1>2. ASSUME NEW t \in T PROVE s <= t
  <2>1. t \in Nat /\ s \in Nat
    OBVIOUS
  <2>2. t < s => <<t, s>> \in Below
    BY <2>1 DEF Below
  <2> QED
    BY <1>1, <2>1, <2>2
<1> QED
  BY <1>1, <1>2

\* The scan over the slots stays in the table, on connected slots.
LEMMA NextSlotType ==
  ASSUME NEW i
  PROVE  NextSlot(i) \in Slots \cup {NoSlot}
<1> DEFINE later == {s \in Slots : s > i /\ conn[s] # "none"}
<1>1. CASE later = {}
  BY <1>1 DEF NextSlot
<1>2. CASE later # {}
  <2>1. later \subseteq Nat
    BY ProtocolAssumption DEF Slots
  <2>2. \E s \in later : \A t \in later : s <= t
    BY <1>2, <2>1, Least
  <2>3. NextSlot(i) = CHOOSE s \in later : \A t \in later : s <= t
    BY <1>2 DEF NextSlot
  <2>4. NextSlot(i) \in later
    BY <2>2, <2>3
  <2> QED
    BY <2>4
<1> QED
  BY <1>1, <1>2

-----------------------------------------------------------------------------
(* Spans *)

\* Pushing a span onto a list adds its pixels.
LEMMA PixelsPush ==
  ASSUME NEW q \in Seq(SpanSet), NEW x \in SpanSet
  PROVE  /\ Push(x, q) \in Seq(SpanSet)
         /\ Pixels(Push(x, q)) = PixelsOf(x) \cup Pixels(q)
<1>1. Push(x, q) \in Seq(SpanSet)
  BY DEF Push
<1>2. /\ Len(Push(x, q)) = Len(q) + 1
      /\ Push(x, q)[1] = x
      /\ \A i \in 1 .. Len(q) : Push(x, q)[i + 1] = q[i]
  BY DEF Push
<1>3. Pixels(Push(x, q)) \subseteq PixelsOf(x) \cup Pixels(q)
  <2> SUFFICES ASSUME NEW i \in 1 .. Len(q) + 1
               PROVE  PixelsOf(Push(x, q)[i]) \subseteq PixelsOf(x) \cup Pixels(q)
    BY <1>1, <1>2 DEF Pixels
  <2>1. CASE i = 1
    BY <2>1, <1>2
  <2>2. CASE i # 1
    <3>1. i - 1 \in 1 .. Len(q) /\ Push(x, q)[i] = q[i - 1]
      BY <2>2, <1>2
    <3> QED
      BY <3>1 DEF Pixels
  <2> QED
    BY <2>1, <2>2
<1>4. PixelsOf(x) \cup Pixels(q) \subseteq Pixels(Push(x, q))
  <2>1. PixelsOf(x) \subseteq Pixels(Push(x, q))
    BY <1>1, <1>2 DEF Pixels
  <2>2. ASSUME NEW i \in 1 .. Len(q)
        PROVE  PixelsOf(q[i]) \subseteq Pixels(Push(x, q))
    <3>1. i + 1 \in DOMAIN Push(x, q) /\ Push(x, q)[i + 1] = q[i]
      BY <1>1, <1>2
    <3> QED
      BY <3>1 DEF Pixels
  <2> QED
    BY <2>1, <2>2 DEF Pixels
<1> QED
  BY <1>1, <1>3, <1>4

\* Handing out a lump divides the pixels of a list between the lump and the
\* rest.
LEMMA LumpDivides ==
  ASSUME NEW q \in Seq(SpanSet), q # <<>>, NEW lump \in Nat \ {0}
  PROVE  /\ Lump(q, lump) \in SpanSet
         /\ Lump(q, lump).frame = Head(q).frame
         /\ WithoutLump(q, lump) \in Seq(SpanSet)
         /\ Pixels(q) = PixelsOf(Lump(q, lump)) \cup Pixels(WithoutLump(q, lump))
<1> DEFINE h == Head(q)
           b == h.start + lump - 1
           rest == [h EXCEPT !.start = b + 1]
<1>1. h \in SpanSet /\ Tail(q) \in Seq(SpanSet) /\ q = Push(h, Tail(q))
  BY DEF Push
<1>2. h.start \in Image /\ h.stop \in Image /\ h.frame \in FrameNums /\ b \in Int
  BY <1>1, ProtocolAssumption DEF SpanSet, Image
<1>3. Pixels(q) = PixelsOf(h) \cup Pixels(Tail(q))
  BY <1>1, PixelsPush
<1>4. CASE b >= h.stop
  <2>1. Lump(q, lump) = Span(h.frame, h.start, h.stop) /\ WithoutLump(q, lump) = Tail(q)
    BY <1>4 DEF Lump, WithoutLump
  <2>2. PixelsOf(Lump(q, lump)) = PixelsOf(h) /\ Lump(q, lump) \in SpanSet
    BY <2>1, <1>1, <1>2 DEF PixelsOf, Span, SpanSet
  <2> QED
    BY <2>1, <2>2, <1>1, <1>3 DEF Span
<1>5. CASE ~(b >= h.stop)
  <2>1. Lump(q, lump) = Span(h.frame, h.start, b) /\ WithoutLump(q, lump) = Push(rest, Tail(q))
    BY <1>5 DEF Lump, WithoutLump
  <2>2. b \in Image /\ b + 1 \in Image
    BY <1>2, <1>5, ProtocolAssumption DEF Image
  <2>3. rest \in SpanSet /\ rest.start = b + 1 /\ rest.stop = h.stop
    BY <1>1, <2>2 DEF SpanSet
  <2>4. Lump(q, lump) \in SpanSet
    BY <2>1, <2>2, <1>2 DEF SpanSet, Span
  <2>5. /\ WithoutLump(q, lump) \in Seq(SpanSet)
        /\ Pixels(WithoutLump(q, lump)) = PixelsOf(rest) \cup Pixels(Tail(q))
    BY <2>1, <2>3, <1>1, PixelsPush
  <2>6. PixelsOf(h) = PixelsOf(Lump(q, lump)) \cup PixelsOf(rest)
    BY <2>1, <2>3, <1>2, <1>5, <2>2 DEF PixelsOf, Span, Image
  <2> QED
    BY <2>1, <2>4, <2>5, <2>6, <1>3 DEF Span
<1> QED
  BY <1>4, <1>5

\* A span in front of a frame's list is of that frame.
LEMMA PushFramed ==
  ASSUME NEW q \in Seq(SpanSet), NEW x \in SpanSet,
         \A i \in DOMAIN q : q[i].frame = x.frame
  PROVE  \A i \in DOMAIN Push(x, q) : Push(x, q)[i].frame = x.frame
<1>1. /\ DOMAIN Push(x, q) = 1 .. Len(q) + 1
      /\ Push(x, q)[1] = x
      /\ \A i \in 1 .. Len(q) : Push(x, q)[i + 1] = q[i]
  BY DEF Push
<1> SUFFICES ASSUME NEW i \in 1 .. Len(q) + 1
             PROVE  Push(x, q)[i].frame = x.frame
  BY <1>1
<1>2. CASE i = 1
  BY <1>1, <1>2
<1>3. CASE i # 1
  <2>1. i - 1 \in 1 .. Len(q) /\ Push(x, q)[i] = q[i - 1]
    BY <1>1, <1>3
  <2> QED
    BY <2>1
<1> QED
  BY <1>2, <1>3

\* What is left of a frame's list is of that frame.
LEMMA WithoutLumpFramed ==
  ASSUME NEW q \in Seq(SpanSet), q # <<>>, NEW lump \in Nat \ {0}, NEW f,
         \A i \in DOMAIN q : q[i].frame = f
  PROVE  /\ Lump(q, lump).frame = f
         /\ \A i \in DOMAIN WithoutLump(q, lump) : WithoutLump(q, lump)[i].frame = f
<1> DEFINE h == Head(q)
           b == h.start + lump - 1
           rest == [h EXCEPT !.start = b + 1]
<1>0. Lump(q, lump).frame = h.frame
  BY LumpDivides
<1>1. h = q[1] /\ h \in SpanSet /\ h.frame = f /\ Tail(q) \in Seq(SpanSet)
  OBVIOUS
<1>2. \A i \in DOMAIN Tail(q) : Tail(q)[i].frame = f
  <2> SUFFICES ASSUME NEW i \in DOMAIN Tail(q) PROVE Tail(q)[i].frame = f
    OBVIOUS
  <2>1. i + 1 \in DOMAIN q /\ Tail(q)[i] = q[i + 1]
    OBVIOUS
  <2> QED
    BY <2>1
<1>3. CASE b >= h.stop
  <2>1. WithoutLump(q, lump) = Tail(q)
    BY <1>3 DEF WithoutLump
  <2>2. Lump(q, lump).frame = f
    BY <1>0, <1>1
  <2> QED
    BY <1>2, <2>1, <2>2
<1>4. CASE ~(b >= h.stop)
  <2>1. WithoutLump(q, lump) = Push(rest, Tail(q))
    BY <1>4 DEF WithoutLump
  <2>2. h.start \in Image /\ h.stop \in Image /\ b + 1 \in Image
    BY <1>1, <1>4, ProtocolAssumption DEF SpanSet, Image
  <2>3. rest \in SpanSet /\ rest.frame = f
    BY <1>1, <2>2 DEF SpanSet
  <2>4. Lump(q, lump).frame = f
    BY <1>0, <1>1
  <2>5. \A i \in DOMAIN Push(rest, Tail(q)) : Push(rest, Tail(q))[i].frame = f
    <3> HIDE DEF rest
    <3>1. \A i \in DOMAIN Tail(q) : Tail(q)[i].frame = rest.frame
      BY <1>2, <2>3
    <3>2. \A i \in DOMAIN Push(rest, Tail(q)) : Push(rest, Tail(q))[i].frame = rest.frame
      BY <1>1, <2>3, <3>1, PushFramed
    <3> QED
      BY <2>3, <3>2
  <2> QED
    BY <2>1, <2>4, <2>5
<1> QED
  BY <1>3, <1>4

-----------------------------------------------------------------------------
(* Types *)

\* drop_server keeps the types of what it changes.
LEMMA DropType ==
  ASSUME TypesOK, NEW s \in Slots, NEW n \in 1 .. 2, DropTimes(s, n)
  PROVE  /\ TodoOK'
         /\ state' \in [Slots -> States]
         /\ work' \in [Slots -> SpanSet \cup {NoWork}]
         /\ cur' \in [Slots -> FrameNums \cup {NoFrame}]
         /\ nPipe' \in 0 .. MaxPipes
<1> USE DEF TypesOK, JobOK, ServersOK, CountersOK
<1>1. state' \in [Slots -> States] /\ cur' \in [Slots -> FrameNums \cup {NoFrame}]
  BY DEF DropTimes, States
<1>2. nPipe' \in 0 .. MaxPipes
  BY RemrtAssumption DEF DropTimes, LessPipe
<1>3. work' \in [Slots -> SpanSet \cup {NoWork}]
  BY DEF DropTimes
<1>4. Requeued(s) = todo \/ work[s] \in SpanSet
  BY DEF Requeued
<1>5. CASE work[s] \in SpanSet /\ todo' = Requeued(s)
  <2> DEFINE x == work[s]
             f == x.frame
  <2>1. f \in FrameNums /\ x # NoWork
    BY <1>5, ProtocolAssumption DEF SpanSet, NoWork, Span, NoFrame, FrameNums
  <2>2. todo' = [todo EXCEPT ![f] = Push(x, todo[f])]
    BY <1>5, <2>1 DEF Requeued
  <2>3. /\ Push(x, todo[f]) \in Seq(SpanSet)
        /\ \A i \in DOMAIN Push(x, todo[f]) : Push(x, todo[f])[i].frame = f
    BY <1>5, <2>1, PixelsPush, PushFramed DEF TodoOK
  <2> QED
    BY <2>1, <2>2, <2>3, <1>1, <1>2, <1>3 DEF TodoOK
<1>6. CASE todo' = todo
  BY <1>6, <1>1, <1>2, <1>3 DEF TodoOK
<1> QED
  BY <1>4, <1>5, <1>6 DEF DropTimes

\* The slot whose command is being run is a slot.
CommandSlot == phase \in {"cmd", "restart"} => cmdFrom \in Slots
TypeInv == TypesOK /\ CommandSlot

\* start_servers, and the bounds of the passes.
LEMMA StartType ==
  ASSUME TypeInv, [StartLocal \/ StartRemote \/ BeginSchedule \/ EndHosting \/ EndInput]_vars
  PROVE  TypeInv'
<1> USE DEF TypeInv, TypesOK, JobOK, TodoOK, ServersOK, CountersOK, LoopOK, CommandSlot,
            vars, job, servers, counters, loop
<1>1. CASE StartLocal
  <2>1. JobOK' /\ CountersOK' /\ LoopOK' /\ CommandSlot'
    BY <1>1, RemrtAssumption DEF StartLocal, Hosting, Phases
  <2>2. CASE UNCHANGED servers
    BY <1>1, <2>1, <2>2
  <2>3. CASE \E s \in FreeSlot : AddClient(s, "pipe")
    BY <1>1, <2>1, <2>3 DEF StartLocal, AddClient, FreeSlot, States
  <2> QED
    BY <1>1, <2>2, <2>3 DEF StartLocal
<1>2. CASE StartRemote
  BY <1>2 DEF StartRemote, Hosting, Phases
<1>3. CASE BeginSchedule
  <2>1. at' \in Slots \cup {NoSlot}
    BY <1>3, NextSlotType DEF BeginSchedule
  <2>2. /\ phase' = "conn" /\ fpos' = 1 /\ nxt' = 0 /\ again' = FALSE
        /\ hosting' = hosting /\ cmdFrom' = cmdFrom
    BY <1>3 DEF BeginSchedule
  <2>3. LoopOK' /\ CommandSlot'
    <3>1. phase' \in Phases
      BY <2>2 DEF Phases
    <3>2. nxt' \in 0 .. 2
      BY <2>2
    <3>3. fpos' \in Nat \ {0}
      BY <2>2
    <3>4. again' \in BOOLEAN /\ hosting' \in BOOLEAN
      BY <2>2
    <3>5. cmdFrom' \in Slots \cup {NoSlot}
      BY <2>2
    <3>6. CommandSlot'
      BY <2>2
    <3> QED
      BY <3>1, <3>2, <3>3, <3>4, <3>5, <3>6, <2>1
  <2> QED
    BY <1>3, <2>3 DEF BeginSchedule
<1>4. CASE EndHosting
  BY <1>4 DEF EndHosting, Phases
<1>5. CASE EndInput
  BY <1>5 DEF EndInput, Phases
<1>6. CASE UNCHANGED vars
  BY <1>6
<1> QED
  BY <1>1, <1>2, <1>3, <1>4, <1>5, <1>6

\* A step whose drop_server calls are all it does to the servers.
LEMMA DropStepType ==
  ASSUME TypeInv, NEW s \in Slots, NEW n \in 1 .. 2, DropTimes(s, n),
         UNCHANGED <<method, frames, prot, conn, pipeEver, prevServ>>,
         running' \in BOOLEAN, disk' \in [FrameNums -> SUBSET Image],
         LoopOK', CommandSlot'
  PROVE  TypeInv'
<1>1. TypesOK
  BY DEF TypeInv
<1>2. /\ TodoOK'
      /\ state' \in [Slots -> States]
      /\ work' \in [Slots -> SpanSet \cup {NoWork}]
      /\ cur' \in [Slots -> FrameNums \cup {NoFrame}]
      /\ nPipe' \in 0 .. MaxPipes
  BY <1>1, DropType
<1>3. ServersOK' /\ CountersOK'
  BY <1>1, <1>2 DEF TypesOK, ServersOK, CountersOK
<1>4. JobOK'
  BY <1>1, <1>2 DEF TypesOK, JobOK
<1> QED
  BY <1>3, <1>4 DEF TypeInv, TypesOK

\* A step of schedule's first loop stays in it.
LEMMA AdvanceConnType ==
  ASSUME TypeInv, phase = "conn", AdvanceConn
  PROVE  LoopOK' /\ CommandSlot'
<1>1. at' \in Slots \cup {NoSlot}
  BY NextSlotType DEF AdvanceConn
<1>2. UNCHANGED <<phase, fpos, nxt, again, hosting, cmdFrom>>
  BY DEF AdvanceConn
<1> QED
  BY <1>1, <1>2 DEF TypeInv, TypesOK, LoopOK, CommandSlot

\* So does a step of its third part, over the slots.
LEMMA AnswerType ==
  ASSUME TypeInv, phase = "assign", NEW ret \in 0 .. 3, Answer(ret)
  PROVE  LoopOK' /\ CommandSlot'
<1>1. at' \in Slots \cup {NoSlot}
  BY NextSlotType DEF Answer
<1>2. nxt' \in 0 .. 2
  BY DEF Answer, TypeInv, TypesOK, LoopOK
<1>3. again' \in BOOLEAN
  BY DEF Answer, TypeInv, TypesOK, LoopOK
<1>4. UNCHANGED <<phase, fpos, hosting, cmdFrom>>
  BY DEF Answer
<1> QED
  BY <1>1, <1>2, <1>3, <1>4 DEF TypeInv, TypesOK, LoopOK, CommandSlot

\* schedule(), first loop.
LEMMA ConnType ==
  ASSUME TypeInv,
         \/ \E failed \in 0 .. 2 : SendDirbuild(failed)
         \/ \E late \in BOOLEAN : CheckSetup(late)
         \/ FinalClose \/ PassConn \/ EndConn
  PROVE  TypeInv'
<1> USE DEF TypeInv, TypesOK
<1>1. ASSUME NEW failed \in 0 .. 2, SendDirbuild(failed) PROVE TypeInv'
  <2>1. LoopOK' /\ CommandSlot' /\ at \in Slots
    BY <1>1, AdvanceConnType DEF SendDirbuild, LoopOK
  <2>2. CASE failed = 0
    BY <1>1, <2>1, <2>2
       DEF SendDirbuild, Become, States, JobOK, TodoOK, ServersOK, CountersOK
  <2>3. CASE failed # 0
    <3>1. failed \in 1 .. 2 /\ DropTimes(at, failed)
      BY <1>1, <2>3 DEF SendDirbuild
    <3>2. /\ UNCHANGED <<method, frames, prot, conn, pipeEver, prevServ>>
          /\ running' \in BOOLEAN /\ disk' \in [FrameNums -> SUBSET Image]
      BY <1>1 DEF SendDirbuild, JobOK
    <3> QED
      BY <2>1, <3>1, <3>2, DropStepType
  <2> QED
    BY <2>2, <2>3
<1>2. ASSUME NEW late \in BOOLEAN, CheckSetup(late) PROVE TypeInv'
  <2>1. LoopOK' /\ CommandSlot' /\ at \in Slots
    BY <1>2, AdvanceConnType DEF CheckSetup, LoopOK
  <2>2. CASE ~late
    BY <1>2, <2>1, <2>2 DEF CheckSetup, JobOK, TodoOK, ServersOK, CountersOK
  <2>3. CASE late
    <3>1. DropTimes(at, 1)
      BY <1>2, <2>3 DEF CheckSetup, DropServer
    <3>2. /\ UNCHANGED <<method, frames, prot, conn, pipeEver, prevServ>>
          /\ running' \in BOOLEAN /\ disk' \in [FrameNums -> SUBSET Image]
      BY <1>2 DEF CheckSetup, JobOK
    <3> QED
      BY <2>1, <3>1, <3>2, DropStepType
  <2> QED
    BY <2>2, <2>3
<1>3. CASE FinalClose
  <2>1. LoopOK' /\ CommandSlot'
    BY <1>3, AdvanceConnType DEF FinalClose
  <2>2. nPipe' \in 0 .. MaxPipes
    BY <1>3, RemrtAssumption DEF FinalClose, LessPipe, CountersOK
  <2>3. ServersOK'
    BY <1>3 DEF FinalClose, ServersOK, States
  <2> QED
    BY <1>3, <2>1, <2>2, <2>3 DEF FinalClose, job, JobOK, TodoOK, CountersOK
<1>4. CASE PassConn
  <2>1. LoopOK' /\ CommandSlot'
    BY <1>4, AdvanceConnType DEF PassConn
  <2> QED
    BY <1>4, <2>1 DEF PassConn, job, servers, counters, JobOK, TodoOK, ServersOK, CountersOK
<1>5. CASE EndConn
  <2>1. LoopOK' /\ CommandSlot'
    BY <1>5 DEF EndConn, LoopOK, Phases, CommandSlot
  <2> QED
    BY <1>5, <2>1 DEF EndConn, job, servers, counters, JobOK, TodoOK, ServersOK, CountersOK
<1> QED
  BY <1>1, <1>2, <1>3, <1>4, <1>5

\* A frame list with one frame taken off is a frame list.
LEMMA RemoveFrameType ==
  ASSUME frames \in Seq(FrameNums), NEW i \in 1 .. Len(frames)
  PROVE  RemoveFrame(i) \in Seq(FrameNums)
<1>1. i \in Nat /\ i - 1 \in Nat /\ i + 1 \in Nat /\ Len(frames) \in Nat
  OBVIOUS
<1>2. SubSeq(frames, 1, i - 1) \in Seq(FrameNums)
  <2>1. \A j \in 1 .. i - 1 : frames[j] \in FrameNums
    BY <1>1
  <2> QED
    BY <1>1, <2>1
<1>3. SubSeq(frames, i + 1, Len(frames)) \in Seq(FrameNums)
  <2>1. \A j \in i + 1 .. Len(frames) : frames[j] \in FrameNums
    BY <1>1
  <2> QED
    BY <1>1, <2>1
<1> QED
  BY <1>2, <1>3 DEF RemoveFrame

\* schedule(), second loop.
LEMMA FramesType ==
  ASSUME TypeInv, FrameIsDone \/ FrameNotDone \/ EndFrames
  PROVE  TypeInv'
<1> USE DEF TypeInv, TypesOK
<1>1. CASE FrameIsDone
  <2>1. fpos \in 1 .. Len(frames) /\ frames[fpos] \in FrameNums
    BY <1>1 DEF FrameIsDone, JobOK, LoopOK
  <2>2. frames' \in Seq(FrameNums)
    BY <1>1, <2>1, RemoveFrameType DEF FrameIsDone, JobOK
  <2>3. prot' \subseteq FrameNums
    BY <1>1, <2>1 DEF FrameIsDone, JobOK
  <2>4. ServersOK'
    BY <1>1 DEF FrameIsDone, Forget, ServersOK
  <2> QED
    BY <1>1, <2>2, <2>3, <2>4
       DEF FrameIsDone, JobOK, TodoOK, CountersOK, counters, LoopOK, loop, CommandSlot
<1>2. CASE FrameNotDone
  <2>1. fpos' \in Nat \ {0}
    BY <1>2 DEF FrameNotDone, LoopOK
  <2>2. LoopOK' /\ CommandSlot'
    BY <1>2, <2>1 DEF FrameNotDone, LoopOK, CommandSlot
  <2> QED
    BY <1>2, <2>2
       DEF FrameNotDone, job, servers, counters, JobOK, TodoOK, ServersOK, CountersOK
<1>3. CASE EndFrames
  <2>1. at' \in Slots \cup {NoSlot}
    BY <1>3, NextSlotType DEF EndFrames
  <2>2. phase' \in {"assign", "input", "exit"} /\ phase' \in Phases
    BY <1>3 DEF EndFrames, Phases
  <2>3. fpos' \in Nat \ {0} /\ nxt' \in 0 .. 2 /\ again' \in BOOLEAN
    <3>1. fpos' = 1 /\ nxt' = 0 /\ again' = FALSE
      BY <1>3, Zenon DEF EndFrames
    <3>2. fpos' \in Nat \ {0}
      BY <3>1
    <3>3. nxt' \in 0 .. 2
      BY <3>1
    <3> QED
      BY <3>1, <3>2, <3>3
  <2>4. LoopOK' /\ CommandSlot'
    BY <1>3, <2>1, <2>2, <2>3 DEF EndFrames, LoopOK, CommandSlot
  <2>5. running' \in BOOLEAN
    BY <1>3, Zenon DEF EndFrames, JobOK
  <2> QED
    BY <1>3, <2>4, <2>5
       DEF EndFrames, servers, counters, JobOK, TodoOK, ServersOK, CountersOK
<1> QED
  BY <1>1, <1>2, <1>3

\* What assigning a lump of the frame at hand does to fr_todo and sr_work.
LEMMA LumpType ==
  ASSUME TypeInv, Tasking, todo[Fr] # <<>>, NEW lump \in 1 .. MaxLump
  PROVE  /\ Fr \in FrameNums /\ at \in Slots
         /\ Lump(todo[Fr], lump) \in SpanSet
         /\ Lump(todo[Fr], lump).frame = Fr
         /\ WithoutLump(todo[Fr], lump) \in Seq(SpanSet)
         /\ \A i \in DOMAIN WithoutLump(todo[Fr], lump) :
              WithoutLump(todo[Fr], lump)[i].frame = Fr
<1>1. fpos \in 1 .. Len(frames) /\ Fr \in FrameNums /\ at \in Slots
  BY DEF TypeInv, TypesOK, Tasking, JobOK, LoopOK, Fr
<1>2. todo[Fr] \in Seq(SpanSet) /\ \A i \in DOMAIN todo[Fr] : todo[Fr][i].frame = Fr
  BY <1>1 DEF TypeInv, TypesOK, JobOK, TodoOK
<1>3. lump \in Nat \ {0}
  BY RemrtAssumption
<1>4. Lump(todo[Fr], lump) \in SpanSet /\ WithoutLump(todo[Fr], lump) \in Seq(SpanSet)
  BY <1>2, <1>3, LumpDivides
<1>5. /\ Lump(todo[Fr], lump).frame = Fr
      /\ \A i \in DOMAIN WithoutLump(todo[Fr], lump) :
           WithoutLump(todo[Fr], lump)[i].frame = Fr
  BY <1>2, <1>3, WithoutLumpFramed
<1> QED
  BY <1>1, <1>4, <1>5

\* schedule(), third part: task_server, as far as it assigns nothing.
LEMMA RefuseType ==
  ASSUME TypeInv,
         \/ TaskTardy \/ TaskRefused \/ \E failed \in 0 .. 2 : TaskGettrees(failed)
         \/ NextPass \/ NextFrame \/ EndAssign
  PROVE  TypeInv'
<1> USE DEF TypeInv, TypesOK
<1>1. CASE TaskTardy
  <2>1. LoopOK' /\ CommandSlot' /\ at \in Slots
    BY <1>1, AnswerType DEF TaskTardy, Tasking, LoopOK
  <2>2. DropTimes(at, 1)
    BY <1>1 DEF TaskTardy, DropServer
  <2>3. /\ UNCHANGED <<method, frames, prot, conn, pipeEver, prevServ>>
        /\ running' \in BOOLEAN /\ disk' \in [FrameNums -> SUBSET Image]
    BY <1>1 DEF TaskTardy, JobOK
  <2> QED
    BY <2>1, <2>2, <2>3, DropStepType
<1>2. CASE TaskRefused
  <2>1. phase = "assign" /\ \E ret \in 0 .. 3 : Answer(ret)
    BY <1>2 DEF TaskRefused, Tasking
  <2>2. LoopOK' /\ CommandSlot'
    BY <2>1, AnswerType
  <2> QED
    BY <1>2, <2>2
       DEF TaskRefused, job, servers, counters, JobOK, TodoOK, ServersOK, CountersOK
<1>3. ASSUME NEW failed \in 0 .. 2, TaskGettrees(failed) PROVE TypeInv'
  <2>1. phase = "assign" /\ Answer(1) /\ at \in Slots /\ fpos \in 1 .. Len(frames)
    BY <1>3 DEF TaskGettrees, Eligible, Tasking, LoopOK, JobOK
  <2>2. LoopOK' /\ CommandSlot'
    BY <2>1, AnswerType
  <2>3. Fr \in FrameNums
    BY <2>1 DEF Fr, JobOK
  <2>4. CASE failed = 0
    BY <1>3, <2>2, <2>3, <2>4
       DEF TaskGettrees, States, JobOK, TodoOK, ServersOK, CountersOK
  <2>5. CASE failed # 0
    <3>1. failed \in 1 .. 2 /\ DropTimes(at, failed)
      BY <1>3, <2>5 DEF TaskGettrees
    <3>2. /\ UNCHANGED <<method, frames, prot, conn, pipeEver, prevServ>>
          /\ running' \in BOOLEAN /\ disk' \in [FrameNums -> SUBSET Image]
      BY <1>3 DEF TaskGettrees, JobOK
    <3> QED
      BY <2>1, <2>2, <3>1, <3>2, DropStepType
  <2> QED
    BY <2>4, <2>5
<1>4. CASE NextPass
  <2>1. at' \in Slots \cup {NoSlot}
    BY <1>4, NextSlotType DEF NextPass
  <2>2. LoopOK' /\ CommandSlot'
    BY <1>4, <2>1 DEF NextPass, LoopOK, CommandSlot
  <2> QED
    BY <1>4, <2>2
       DEF NextPass, job, servers, counters, JobOK, TodoOK, ServersOK, CountersOK
<1>5. CASE NextFrame
  <2>1. at' \in Slots \cup {NoSlot}
    BY <1>5, NextSlotType DEF NextFrame
  <2>2. fpos' \in Nat \ {0}
    BY <1>5 DEF NextFrame, LoopOK
  <2>3. nxt' \in 0 .. 2
    BY <1>5 DEF NextFrame, LoopOK
  <2>4. LoopOK' /\ CommandSlot'
    BY <1>5, <2>1, <2>2, <2>3 DEF NextFrame, LoopOK, CommandSlot
  <2> QED
    BY <1>5, <2>4
       DEF NextFrame, job, servers, counters, JobOK, TodoOK, ServersOK, CountersOK
<1>6. CASE EndAssign
  <2>1. at' \in Slots \cup {NoSlot}
    BY <1>6, NextSlotType DEF EndAssign
  <2>2. fpos' = 1 /\ nxt' = 0
    BY <1>6, Zenon DEF EndAssign
  <2>3. fpos' \in Nat \ {0}
    BY <2>2
  <2>4. nxt' \in 0 .. 2
    BY <2>2
  <2>5. phase' \in {"assign", "input"} /\ phase' \in Phases
    BY <1>6 DEF EndAssign, Phases
  <2>6. LoopOK' /\ CommandSlot'
    BY <1>6, <2>1, <2>3, <2>4, <2>5 DEF EndAssign, LoopOK, CommandSlot
  <2>7. method' \in {FRAME, LOAD, MOVIE}
    BY <1>6 DEF EndAssign, JobOK, FRAME, LOAD, MOVIE
  <2> QED
    BY <1>6, <2>6, <2>7
       DEF EndAssign, servers, counters, JobOK, TodoOK, ServersOK, CountersOK
<1> QED
  BY <1>1, <1>2, <1>3, <1>4, <1>5, <1>6

\* ... and as far as it does.
LEMMA AssignType ==
  ASSUME TypeInv, NEW lump \in 1 .. MaxLump,
         TaskAssign(lump) \/ TaskLinesFail(lump) \/ TaskMatrixFail(lump)
  PROVE  TypeInv'
<1> DEFINE x == Lump(todo[Fr], lump)
           rest == WithoutLump(todo[Fr], lump)
<1>1. Tasking /\ phase = "assign" /\ todo[Fr] # <<>> /\ \E ret \in 0 .. 3 : Answer(ret)
  BY DEF TaskAssign, TaskLinesFail, TaskMatrixFail, CanAssign, Eligible, Tasking
<1>2. /\ Fr \in FrameNums /\ at \in Slots /\ x \in SpanSet /\ x.frame = Fr
      /\ rest \in Seq(SpanSet) /\ \A i \in DOMAIN rest : rest[i].frame = Fr
  BY <1>1, LumpType
<1>3. LoopOK' /\ CommandSlot'
  BY <1>1, AnswerType
<1>4. Push(x, rest) \in Seq(SpanSet) /\ \A i \in DOMAIN Push(x, rest) : Push(x, rest)[i].frame = Fr
  <2> HIDE DEF x, rest
  <2>1. \A i \in DOMAIN rest : rest[i].frame = x.frame
    BY <1>2
  <2> QED
    BY <1>2, <2>1, PixelsPush, PushFramed
<1> HIDE DEF x, rest
<1>5. LessPipe(at, nPipe) \in 0 .. MaxPipes /\ LessPipe(at, LessPipe(at, nPipe)) \in 0 .. MaxPipes
  BY RemrtAssumption DEF LessPipe, TypeInv, TypesOK, CountersOK
<1>6. TodoOK' /\ ServersOK'
  <2>1. /\ todo' \in {[todo EXCEPT ![Fr] = rest], [todo EXCEPT ![Fr] = Push(x, rest)]}
        /\ state' \in {state, [state EXCEPT ![at] = "CLOSING"]}
        /\ work' \in {work, [work EXCEPT ![at] = x]}
        /\ cur' \in {cur, [cur EXCEPT ![at] = Fr], [cur EXCEPT ![at] = NoFrame]}
        /\ conn' = conn
    BY DEF TaskAssign, TaskLinesFail, TaskMatrixFail, x, rest
  <2>2. TodoOK'
    BY <1>2, <1>4, <2>1 DEF TypeInv, TypesOK, JobOK, TodoOK
  <2>3. ServersOK'
    BY <1>2, <2>1 DEF TypeInv, TypesOK, ServersOK, States
  <2> QED
    BY <2>2, <2>3
<1>7. JobOK' /\ CountersOK'
  <2>1. UNCHANGED <<running, method, frames, disk, prot, pipeEver, prevServ>>
    BY DEF TaskAssign, TaskLinesFail, TaskMatrixFail, counters
  <2>2. nPipe' \in 0 .. MaxPipes
    BY <1>5 DEF TaskAssign, TaskLinesFail, TaskMatrixFail, counters, TypeInv, TypesOK, CountersOK
  <2> QED
    BY <1>6, <2>1, <2>2 DEF TypeInv, TypesOK, JobOK, CountersOK
<1> QED
  BY <1>3, <1>6, <1>7 DEF TypeInv, TypesOK

\* A handler of check_input that drops its server.
LEMMA HandlerDropType ==
  ASSUME TypeInv, NEW s \in Slots, DropServer(s), HandlerFrame,
         running' \in BOOLEAN, disk' \in [FrameNums -> SUBSET Image]
  PROVE  TypeInv'
<1>1. DropTimes(s, 1)
  BY DEF DropServer
<1>2. /\ UNCHANGED <<method, frames, prot, conn, pipeEver, prevServ>>
      /\ LoopOK' /\ CommandSlot'
  BY DEF HandlerFrame, loop, TypeInv, TypesOK, LoopOK, CommandSlot
<1> QED
  BY <1>1, <1>2, DropStepType

\* A handler that moves its server to another state, or nothing.
LEMMA HandlerBecomeType ==
  ASSUME TypeInv, HandlerFrame, UNCHANGED <<running, disk>>,
         NEW s \in Slots, NEW st \in States, Become(s, st)
  PROVE  TypeInv'
BY DEF Become, HandlerFrame, loop, TypeInv, TypesOK, JobOK, TodoOK, ServersOK, CountersOK,
       LoopOK, CommandSlot

\* The pixels of an assigned span are pixels of the image.
LEMMA WorkPixels ==
  ASSUME TypeInv, NEW s \in Slots
  PROVE  /\ PixelsOf(work[s]) \subseteq Image
         /\ work[s] # NoWork => work[s] \in SpanSet /\ work[s].frame \in FrameNums
<1>1. CASE work[s] = NoWork
  BY <1>1 DEF PixelsOf, NoWork, Span
<1>2. CASE work[s] # NoWork
  <2>1. work[s] \in SpanSet
    BY <1>2 DEF TypeInv, TypesOK, ServersOK
  <2>2. work[s].start \in Image /\ work[s].stop \in Image /\ work[s].frame \in FrameNums
    BY <2>1 DEF SpanSet
  <2>3. PixelsOf(work[s]) \subseteq Image
    BY <2>2, ProtocolAssumption DEF PixelsOf, Image
  <2> QED
    BY <2>1, <2>2, <2>3
<1> QED
  BY <1>1, <1>2

\* check_input and the handlers of the workers' messages.
LEMMA InputType ==
  ASSUME TypeInv, NEW s \in Slots,
         \/ AcceptTcp \/ LoseServer(s) \/ PhVersion(s)
         \/ PhDirbuildReply(s) \/ PhGettreesReply(s)
         \/ PixelsIgnored(s) \/ PixelsMismatch(s, work[s], TRUE)
         \/ \E slow \in BOOLEAN : PixelsStored(s, slow)
         \/ PixelsUnopened(s) \/ \E n \in 0 .. NPix : PixelsUnwritten(s, n)
  PROVE  TypeInv'
<1>1. CASE AcceptTcp
  <2>1. ServersOK'
    BY <1>1 DEF AcceptTcp, AddClient, FreeSlot, States, TypeInv, TypesOK, ServersOK
  <2> QED
    BY <1>1, <2>1 DEF AcceptTcp, job, counters, loop,
       TypeInv, TypesOK, JobOK, TodoOK, CountersOK, LoopOK, CommandSlot
<1>2. CASE LoseServer(s) \/ PixelsMismatch(s, work[s], TRUE)
  <2>1. /\ DropServer(s) /\ HandlerFrame
        /\ running' \in BOOLEAN /\ disk' \in [FrameNums -> SUBSET Image]
    BY <1>2 DEF LoseServer, PixelsMismatch, TypeInv, TypesOK, JobOK
  <2> QED
    BY <2>1, HandlerDropType
<1>3. CASE PhVersion(s)
  BY <1>3, HandlerBecomeType DEF PhVersion, States
<1>4. CASE PhDirbuildReply(s)
  <2>1. /\ HandlerFrame /\ UNCHANGED <<running, disk>>
        /\ running' \in BOOLEAN /\ disk' \in [FrameNums -> SUBSET Image]
        /\ Become(s, "NEED_TREE") \/ DropServer(s)
    BY <1>4 DEF PhDirbuildReply, TypeInv, TypesOK, JobOK
  <2> QED
    BY <2>1, HandlerBecomeType, HandlerDropType DEF States
<1>5. CASE PhGettreesReply(s)
  <2>1. /\ HandlerFrame /\ UNCHANGED <<running, disk>>
        /\ running' \in BOOLEAN /\ disk' \in [FrameNums -> SUBSET Image]
        /\ Become(s, "READY") \/ DropServer(s)
    BY <1>5 DEF PhGettreesReply, TypeInv, TypesOK, JobOK
  <2> QED
    BY <2>1, HandlerBecomeType, HandlerDropType DEF States
<1>6. CASE PixelsIgnored(s)
  BY <1>6 DEF PixelsIgnored, job, servers, counters, loop,
     TypeInv, TypesOK, JobOK, TodoOK, ServersOK, CountersOK, LoopOK, CommandSlot
<1>7. ASSUME NEW slow \in BOOLEAN, PixelsStored(s, slow) PROVE TypeInv'
  <2>1. disk' \in [FrameNums -> SUBSET Image]
    <3>1. work[s].frame \in FrameNums /\ PixelsOf(work[s]) \subseteq Image
      BY <1>7, WorkPixels DEF PixelsStored
    <3> QED
      BY <1>7, <3>1 DEF PixelsStored, TypeInv, TypesOK, JobOK
  <2>2. ServersOK'
    BY <1>7 DEF PixelsStored, HandlerFrame, States, TypeInv, TypesOK, ServersOK
  <2>3. nPipe' \in 0 .. MaxPipes
    BY <1>7, RemrtAssumption DEF PixelsStored, LessPipe, TypeInv, TypesOK, CountersOK
  <2> QED
    BY <1>7, <2>1, <2>2, <2>3 DEF PixelsStored, HandlerFrame, loop,
       TypeInv, TypesOK, JobOK, TodoOK, CountersOK, LoopOK, CommandSlot
<1>8. CASE PixelsUnopened(s)
  BY <1>8 DEF PixelsUnopened, HandlerFrame, loop,
     TypeInv, TypesOK, JobOK, TodoOK, ServersOK, CountersOK, LoopOK, CommandSlot
<1>9. ASSUME NEW n \in 0 .. NPix, PixelsUnwritten(s, n) PROVE TypeInv'
  <2>1. disk' \in [FrameNums -> SUBSET Image]
    <3>1. /\ work[s] \in SpanSet /\ work[s].frame \in FrameNums
          /\ PixelsOf(work[s]) \subseteq Image
      BY <1>9, WorkPixels DEF PixelsUnwritten
    <3>2. /\ work[s].start \in Int /\ work[s].stop \in Int /\ n \in Int
          /\ n <= work[s].stop - work[s].start
      BY <1>9, <3>1 DEF SpanSet, Image, PixelsUnwritten
    <3>3. work[s].start .. work[s].start + n - 1 \subseteq Image
      BY <3>1, <3>2 DEF PixelsOf
    <3> QED
      BY <1>9, <3>1, <3>3 DEF PixelsUnwritten, TypeInv, TypesOK, JobOK
  <2>2. running' \in BOOLEAN /\ DropServer(s) /\ HandlerFrame
    BY <1>9 DEF PixelsUnwritten
  <2> QED
    BY <2>1, <2>2, HandlerDropType
<1> QED
  BY <1>1, <1>2, <1>3, <1>4, <1>5, <1>6, <1>7, <1>8, <1>9

\* ph_cmd and the commands.
LEMMA CommandType ==
  ASSUME TypeInv, NEW s \in Slots,
         \/ CmdStop(s) \/ CmdGo(s) \/ \E m \in {FRAME, LOAD, MOVIE} : CmdAllocate(s, m)
         \/ \E t \in Slots : CmdDrop(s, t)
         \/ CmdReset(s) \/ CmdRestart(s)
  PROVE  TypeInv'
<1> USE DEF TypeInv, TypesOK
<1>1. CASE CmdStop(s) \/ CmdGo(s) \/ \E m \in {FRAME, LOAD, MOVIE} : CmdAllocate(s, m)
  <2>1. /\ Ran(s) /\ UNCHANGED <<frames, todo, state, cur, nPipe>>
        /\ running' \in BOOLEAN /\ method' \in {FRAME, LOAD, MOVIE}
    BY <1>1 DEF CmdStop, CmdGo, CmdAllocate, JobOK
  <2>2. LoopOK' /\ CommandSlot'
    BY <2>1 DEF Ran, PhCmd, LoopOK, Phases, CommandSlot
  <2> QED
    BY <2>1, <2>2 DEF Ran, PhCmd, JobOK, TodoOK, ServersOK, CountersOK
<1>2. ASSUME NEW t \in Slots, CmdDrop(s, t) PROVE TypeInv'
  <2>1. DropTimes(t, 1)
    BY <1>2 DEF CmdDrop, DropServer
  <2>2. LoopOK' /\ CommandSlot'
    BY <1>2 DEF CmdDrop, LoopOK, Phases, CommandSlot
  <2>3. /\ UNCHANGED <<method, frames, prot, conn, pipeEver, prevServ>>
        /\ running' \in BOOLEAN /\ disk' \in [FrameNums -> SUBSET Image]
    BY <1>2 DEF CmdDrop, JobOK
  <2> QED
    BY <2>1, <2>2, <2>3, DropStepType
<1>3. CASE CmdReset(s)
  <2>1. LoopOK' /\ CommandSlot'
    BY <1>3 DEF CmdReset, PhCmd, LoopOK, Phases, CommandSlot
  <2>2. CASE running
    BY <1>3, <2>1, <2>2 DEF CmdReset, PhCmd, JobOK, TodoOK, ServersOK, CountersOK
  <2>3. CASE ~running
    <3>1. /\ frames' = <<>> /\ Forget(Listed)
          /\ todo' = [f \in FrameNums |-> IF f \in Listed THEN <<>> ELSE todo[f]]
      BY <1>3, <2>3, Zenon DEF CmdReset
    <3>2. TodoOK'
      BY <3>1 DEF JobOK, TodoOK
    <3>3. frames' \in Seq(FrameNums)
      BY <3>1
    <3>4. cur' \in [Slots -> FrameNums \cup {NoFrame}]
      BY <3>1 DEF Forget, ServersOK
    <3> QED
      BY <1>3, <2>1, <3>2, <3>3, <3>4 DEF CmdReset, PhCmd, JobOK, ServersOK, CountersOK
  <2> QED
    BY <2>2, <2>3
<1>4. CASE CmdRestart(s)
  <2>1. at' \in Slots \cup {NoSlot}
    BY <1>4, NextSlotType DEF CmdRestart
  <2>2. LoopOK' /\ CommandSlot'
    BY <1>4, <2>1 DEF CmdRestart, PhCmd, LoopOK, Phases, CommandSlot
  <2> QED
    BY <1>4, <2>2 DEF CmdRestart, PhCmd, JobOK, TodoOK, ServersOK, CountersOK
<1> QED
  BY <1>1, <1>2, <1>3, <1>4

\* send_restart, and the end of a command.
LEMMA EndCommandType ==
  ASSUME TypeInv,
         (\E ok \in BOOLEAN : SendRestart(ok)) \/ EndRestart \/ EndCmd
  PROVE  TypeInv'
<1> USE DEF TypeInv, TypesOK
<1>1. ASSUME NEW ok \in BOOLEAN, SendRestart(ok) PROVE TypeInv'
  <2>1. at' \in Slots \cup {NoSlot} /\ at \in Slots
    BY <1>1, NextSlotType DEF SendRestart, LoopOK
  <2>2. LoopOK' /\ CommandSlot'
    BY <1>1, <2>1 DEF SendRestart, LoopOK, CommandSlot
  <2>3. TodoOK'
    <3>1. CASE todo' = todo
      BY <3>1 DEF JobOK, TodoOK
    <3>2. CASE todo' = Requeued(at) /\ work[at] # NoWork
      <4>1. work[at] \in SpanSet /\ work[at].frame \in FrameNums
        BY <2>1, <3>2, WorkPixels
      <4>2. todo' = [todo EXCEPT ![work[at].frame] = Push(work[at], todo[work[at].frame])]
        BY <3>2 DEF Requeued
      <4>3. /\ Push(work[at], todo[work[at].frame]) \in Seq(SpanSet)
            /\ \A i \in DOMAIN Push(work[at], todo[work[at].frame]) :
                 Push(work[at], todo[work[at].frame])[i].frame = work[at].frame
        BY <4>1, PixelsPush, PushFramed DEF JobOK, TodoOK
      <4> QED
        BY <4>1, <4>2, <4>3 DEF JobOK, TodoOK
    <3> QED
      BY <1>1, <3>1, <3>2 DEF SendRestart, Requeued
  <2>4. nPipe' \in 0 .. MaxPipes
    BY <1>1, RemrtAssumption DEF SendRestart, LessPipe, CountersOK
  <2>5. ServersOK'
    BY <1>1, <2>1 DEF SendRestart, ServersOK, States
  <2> QED
    BY <1>1, <2>2, <2>3, <2>4, <2>5 DEF SendRestart, JobOK, CountersOK
<1>2. CASE EndRestart
  <2>1. LoopOK' /\ CommandSlot'
    BY <1>2 DEF EndRestart, LoopOK, Phases, CommandSlot
  <2> QED
    BY <1>2, <2>1
       DEF EndRestart, job, servers, counters, JobOK, TodoOK, ServersOK, CountersOK
<1>3. CASE EndCmd
  <2>1. cmdFrom \in Slots /\ DropTimes(cmdFrom, 1)
    BY <1>3 DEF EndCmd, CommandSlot, DropServer
  <2>2. LoopOK' /\ CommandSlot'
    BY <1>3 DEF EndCmd, LoopOK, Phases, CommandSlot
  <2>3. /\ UNCHANGED <<method, frames, prot, conn, pipeEver, prevServ>>
        /\ running' \in BOOLEAN /\ disk' \in [FrameNums -> SUBSET Image]
    BY <1>3 DEF EndCmd, JobOK
  <2> QED
    BY <2>1, <2>2, <2>3, DropStepType
<1> QED
  BY <1>1, <1>2, <1>3

\* Init is well typed.
LEMMA InitType == Init => TypeInv
<1> SUFFICES ASSUME Init PROVE TypeInv
  OBVIOUS
<1>1. JobOK
  <2>1. frames \in Seq(FrameNums)
    <3>1. frames = [i \in 1 .. NFrames |-> i] /\ NFrames \in Nat
      BY ProtocolAssumption DEF Init, FrameNums
    <3>2. \A i \in 1 .. NFrames : i \in FrameNums
      BY DEF FrameNums
    <3> QED
      BY <3>1, <3>2
  <2>2. \A f \in FrameNums : Span(f, 0, NPix - 1) \in SpanSet
    BY ProtocolAssumption DEF Span, SpanSet, Image
  <2>3. TodoOK
    <3>1. ASSUME NEW f \in FrameNums
          PROVE  /\ <<Span(f, 0, NPix - 1)>> \in Seq(SpanSet)
                 /\ \A i \in DOMAIN <<Span(f, 0, NPix - 1)>> :
                      <<Span(f, 0, NPix - 1)>>[i].frame = f
      <4>1. \A i \in DOMAIN <<Span(f, 0, NPix - 1)>> : i = 1
        OBVIOUS
      <4>2. Span(f, 0, NPix - 1).frame = f
        BY DEF Span
      <4> QED
        BY <2>2, <4>1, <4>2
    <3>2. todo = [f \in FrameNums |-> <<Span(f, 0, NPix - 1)>>]
      BY DEF Init
    <3> QED
      BY <3>1, <3>2 DEF TodoOK
  <2> QED
    BY <2>1, <2>3 DEF JobOK, Init
<1>2. ServersOK
  <2>1. /\ conn = [s \in Slots |-> "none"] /\ state = [s \in Slots |-> "UNUSED"]
        /\ work = [s \in Slots |-> NoWork] /\ cur = [s \in Slots |-> NoFrame]
    BY DEF Init
  <2> QED
    BY <2>1 DEF ServersOK, States
<1>3. CountersOK
  <2>1. nPipe = 0 /\ pipeEver = FALSE /\ prevServ = FALSE
    BY DEF Init
  <2>2. nPipe \in 0 .. MaxPipes
    BY <2>1, RemrtAssumption
  <2> QED
    BY <2>1, <2>2 DEF CountersOK
<1>4. LoopOK
  <2>1. phase \in Phases /\ at \in Slots \cup {NoSlot} /\ again \in BOOLEAN
        /\ hosting \in BOOLEAN /\ cmdFrom \in Slots \cup {NoSlot}
    BY DEF Init, Phases
  <2>2. fpos = 1 /\ nxt = 0
    BY DEF Init
  <2>3. fpos \in Nat \ {0}
    BY <2>2
  <2>4. nxt \in 0 .. 2
    BY <2>2
  <2> QED
    BY <2>1, <2>3, <2>4 DEF LoopOK
<1> QED
  BY <1>1, <1>2, <1>3, <1>4 DEF TypeInv, TypesOK, CommandSlot, Init

-----------------------------------------------------------------------------
(* Safety *)

\* A free slot is in no state in which servers are given work.
FreeIdle == \A s \in Slots : conn[s] = "none" => state[s] \notin Requeues

NotRestarting == phase # "restart"

\* The pixels of frame f that are not forgotten.
Kept(f) == disk[f] \cup Pixels(todo[f]) \cup OutOf(f)

\* The inductive invariant, next to the types: where servers are in their life
\* decides whether drop_server puts their work back.
Slotted == NoWorkStranded /\ FreeIdle /\ NotRestarting
SafeInv == TypeInv /\ Slotted /\ NoPixelLost /\ FinishedComplete

\* The same with the pixels T[f] of each frame f given up, as those are that a
\* kill in the middle of a write() leaves behind.
NoneLostBut(T) ==
  \A f \in Listed : Image \subseteq disk[f] \cup T[f] \cup Pixels(todo[f]) \cup OutOf(f)
CompleteBut(T) == \A f \in prot : Image \subseteq disk[f] \cup T[f]
SafeBut(T) == TypeInv /\ Slotted /\ NoneLostBut(T) /\ CompleteBut(T)

NoneTorn == [f \in FrameNums |-> {}]

-----------------------------------------------------------------------------
(* What a step must do to keep NoneLostBut and CompleteBut.                *)

Grows == \A f \in FrameNums : disk[f] \subseteq disk'[f]
Keeps == Listed' \subseteq Listed /\ \A f \in Listed' : Kept(f) \subseteq Kept(f)'

LEMMA ListedType ==
  ASSUME TypeInv
  PROVE  Listed \subseteq FrameNums
BY DEF TypeInv, TypesOK, JobOK, Listed

LEMMA KeepsSafe ==
  ASSUME NEW T, NoneLostBut(T), Keeps
  PROVE  NoneLostBut(T)'
BY DEF NoneLostBut, Keeps, Kept

LEMMA GrowsSafe ==
  ASSUME TypeInv, TypeInv', NEW T, CompleteBut(T), Grows, UNCHANGED prot
  PROVE  CompleteBut(T)'
<1>1. \A f \in prot : f \in FrameNums
  BY DEF TypeInv, TypesOK, JobOK
<1> QED
  BY <1>1 DEF CompleteBut, Grows

\* The pixels slot s holds are the only ones that OutOf loses when it lets go.
LEMMA OutWithout ==
  ASSUME TypeInv, NEW s \in Slots, NEW x, work' = [work EXCEPT ![s] = x], NEW f
  PROVE  /\ OutOf(f) \subseteq OutOf(f)' \cup (IF work[s].frame = f THEN PixelsOf(work[s]) ELSE {})
         /\ x.frame = f => PixelsOf(x) \subseteq OutOf(f)'
<1>1. work \in [Slots -> SpanSet \cup {NoWork}] /\ work'[s] = x
  BY DEF TypeInv, TypesOK, ServersOK
<1>2. ASSUME NEW p \in OutOf(f)
      PROVE  p \in OutOf(f)' \/ (work[s].frame = f /\ p \in PixelsOf(work[s]))
  <2>1. PICK t \in Slots : work[t].frame = f /\ p \in PixelsOf(work[t])
    BY DEF OutOf
  <2>2. CASE t = s
    BY <2>1, <2>2
  <2>3. CASE t # s
    <3>1. work'[t] = work[t]
      BY <1>1, <2>3
    <3> QED
      BY <2>1, <3>1 DEF OutOf
  <2> QED
    BY <2>2, <2>3
<1>3. ASSUME x.frame = f PROVE PixelsOf(x) \subseteq OutOf(f)'
  BY <1>1, <1>3 DEF OutOf
<1> QED
  BY <1>2, <1>3

-----------------------------------------------------------------------------
(* Kinds of steps.                                                         *)

\* A step that moves no work and no server.
QuietStep ==
  /\ UNCHANGED <<todo, disk, work, conn, state, prot>>
  /\ Listed' \subseteq Listed /\ phase' # "restart"

LEMMA QuietSafe ==
  ASSUME NEW T, SafeBut(T), TypeInv', QuietStep
  PROVE  SafeBut(T)'
<1>1. Keeps
  BY DEF QuietStep, Keeps, Kept, OutOf
<1>2. Grows
  BY DEF QuietStep, Grows
<1>3. NoneLostBut(T)'
  BY <1>1, KeepsSafe DEF SafeBut
<1>4. CompleteBut(T)'
  BY <1>2, GrowsSafe DEF SafeBut, QuietStep
<1>5. Slotted'
  BY DEF SafeBut, Slotted, QuietStep, NoWorkStranded, FreeIdle, NotRestarting
<1> QED
  BY <1>3, <1>4, <1>5 DEF SafeBut

\* drop_server, and whatever the output file gains.
DropStep(s, n) ==
  /\ DropTimes(s, n) /\ Grows
  /\ UNCHANGED <<conn, prot, frames>> /\ phase' # "restart"

LEMMA DropSafe ==
  ASSUME NEW T, SafeBut(T), TypeInv', NEW s \in Slots, NEW n \in 1 .. 2, DropStep(s, n)
  PROVE  SafeBut(T)'
<1>1. /\ state' = [state EXCEPT ![s] = "CLOSING"]
      /\ state \in [Slots -> States] /\ work \in [Slots -> SpanSet \cup {NoWork}]
      /\ TypeInv /\ TodoOK
  BY DEF SafeBut, DropStep, DropTimes, TypeInv, TypesOK, ServersOK, JobOK
<1>2. Keeps
  <2>1. Listed' = Listed
    BY DEF DropStep, Listed
  <2>2. CASE UNCHANGED <<work, todo>>
    <3>1. ASSUME NEW f \in Listed PROVE Kept(f) \subseteq Kept(f)'
      <4>1. disk[f] \subseteq disk'[f]
        BY <1>1, ListedType DEF DropStep, Grows
      <4> QED
        BY <2>2, <4>1 DEF Kept, OutOf
    <3> QED
      BY <2>1, <3>1 DEF Keeps
  <2>3. CASE work' = [work EXCEPT ![s] = NoWork] /\ todo' = Requeued(s)
    <3>1. ASSUME NEW f \in Listed PROVE Kept(f) \subseteq Kept(f)'
      <4>1. f \in FrameNums /\ disk[f] \subseteq disk'[f]
        BY <1>1, ListedType DEF DropStep, Grows
      <4>2. OutOf(f) \subseteq OutOf(f)' \cup (IF work[s].frame = f THEN PixelsOf(work[s]) ELSE {})
        BY <1>1, <2>3, OutWithout
      <4>3. CASE work[s].frame = f
        <5>1. work[s] \in SpanSet /\ work[s] # NoWork
          <6>1. f # NoFrame
            BY <4>1, ProtocolAssumption DEF FrameNums, NoFrame
          <6>2. work[s] # NoWork
            BY <4>3, <6>1 DEF NoWork, Span
          <6> QED
            BY <1>1, <6>2
        <5>2. todo'[f] = Push(work[s], todo[f]) /\ todo[f] \in Seq(SpanSet)
          BY <1>1, <2>3, <4>1, <4>3, <5>1 DEF Requeued, TodoOK
        <5>3. Pixels(todo'[f]) = PixelsOf(work[s]) \cup Pixels(todo[f])
          BY <5>1, <5>2, PixelsPush
        <5> QED
          BY <4>1, <4>2, <4>3, <5>3 DEF Kept
      <4>4. CASE work[s].frame # f
        <5>1. todo'[f] = todo[f]
          BY <1>1, <2>3, <4>1, <4>4 DEF Requeued, TodoOK
        <5> QED
          BY <4>1, <4>2, <4>4, <5>1 DEF Kept
      <4> QED
        BY <4>3, <4>4
    <3> QED
      BY <2>1, <3>1 DEF Keeps
  <2> QED
    BY <2>2, <2>3 DEF DropStep, DropTimes
<1>3. NoneLostBut(T)'
  BY <1>2, KeepsSafe DEF SafeBut
<1>4. CompleteBut(T)'
  BY GrowsSafe DEF SafeBut, DropStep
<1>5. NoWorkStranded'
  <2> SUFFICES ASSUME NEW t \in Slots, work'[t] # NoWork
               PROVE  conn'[t] # "none" /\ state'[t] \in Requeues
    BY DEF NoWorkStranded
  <2>1. CASE t = s
    <3>1. work'[s] = NoWork \/ (state[s] \notin Requeues /\ work'[s] = work[s])
      BY <1>1 DEF DropStep, DropTimes
    <3> QED
      BY <2>1, <3>1 DEF SafeBut, Slotted, NoWorkStranded
  <2>2. CASE t # s
    <3>1. work'[t] = work[t] /\ state'[t] = state[t]
      BY <1>1, <2>2 DEF DropStep, DropTimes
    <3> QED
      BY <3>1 DEF SafeBut, Slotted, NoWorkStranded, DropStep
  <2> QED
    BY <2>1, <2>2
<1>6. FreeIdle' /\ NotRestarting'
  BY <1>1 DEF SafeBut, Slotted, FreeIdle, NotRestarting, DropStep, Requeues,
     TypeInv, TypesOK
<1> QED
  BY <1>3, <1>4, <1>5, <1>6 DEF SafeBut, Slotted

\* statechange of a server without work.
BecomeStep(s, st) ==
  /\ state' = [state EXCEPT ![s] = st] /\ work[s] = NoWork
  /\ st \in Requeues => conn[s] # "none"
  /\ UNCHANGED <<todo, disk, work, conn, prot, frames>>
  /\ phase' # "restart"

LEMMA BecomeSafe ==
  ASSUME NEW T, SafeBut(T), TypeInv', NEW s \in Slots, NEW st \in States, BecomeStep(s, st)
  PROVE  SafeBut(T)'
<1>1. state \in [Slots -> States] /\ TypeInv
  BY DEF SafeBut, TypeInv, TypesOK, ServersOK
<1>2. Keeps
  BY DEF BecomeStep, Keeps, Kept, OutOf, Listed
<1>3. Grows
  BY DEF BecomeStep, Grows
<1>4. NoneLostBut(T)' /\ CompleteBut(T)'
  BY <1>2, <1>3, KeepsSafe, GrowsSafe DEF SafeBut, BecomeStep
<1>5. NoWorkStranded'
  BY <1>1 DEF BecomeStep, SafeBut, Slotted, NoWorkStranded
<1>6. FreeIdle' /\ NotRestarting'
  BY <1>1 DEF BecomeStep, SafeBut, Slotted, FreeIdle, NotRestarting
<1> QED
  BY <1>4, <1>5, <1>6 DEF SafeBut, Slotted

\* The first free slot.
LEMMA FreeSlotOne ==
  ASSUME NEW s \in FreeSlot
  PROVE  FreeSlot = {s} /\ s \in Slots
<1> SUFFICES ASSUME NEW t \in FreeSlot PROVE t = s
  BY DEF FreeSlot
<1>1. /\ s \in Nat /\ t \in Nat /\ s >= 1 /\ t >= 1
      /\ conn[s] = "none" /\ conn[t] = "none"
      /\ \A u \in 1 .. s - 1 : conn[u] # "none"
      /\ \A u \in 1 .. t - 1 : conn[u] # "none"
  BY ProtocolAssumption DEF FreeSlot, Slots
<1>2. ~(t < s) /\ ~(s < t)
  BY <1>1
<1> QED
  BY <1>1, <1>2

\* addclient: a free slot becomes NEW.
AddStep(s, kind) ==
  /\ s \in FreeSlot /\ AddClient(s, kind) /\ kind # "none"
  /\ UNCHANGED <<todo, disk, prot, frames>> /\ phase' # "restart"

LEMMA AddSafe ==
  ASSUME NEW T, SafeBut(T), TypeInv', NEW s, NEW kind, AddStep(s, kind)
  PROVE  SafeBut(T)'
<1>1. /\ state \in [Slots -> States] /\ work \in [Slots -> SpanSet \cup {NoWork}]
      /\ DOMAIN conn = Slots /\ TypeInv
  BY DEF SafeBut, TypeInv, TypesOK, ServersOK
<1>2. s \in Slots /\ conn[s] = "none" /\ work[s] = NoWork
  BY DEF AddStep, FreeSlot, SafeBut, Slotted, NoWorkStranded
<1>3. FreeSlot = {s}
  BY FreeSlotOne DEF AddStep
<1>4. work' = work
  BY <1>1, <1>2 DEF AddStep, AddClient
<1>5. Keeps
  BY <1>4 DEF AddStep, Keeps, Kept, OutOf, Listed
<1>6. Grows
  BY DEF AddStep, Grows
<1>7. NoneLostBut(T)' /\ CompleteBut(T)'
  BY <1>1, <1>5, <1>6, KeepsSafe, GrowsSafe DEF SafeBut, AddStep
<1>8. NoWorkStranded'
  BY <1>1, <1>2, <1>4 DEF AddStep, AddClient, SafeBut, Slotted, NoWorkStranded
<1>9. FreeIdle' /\ NotRestarting'
  BY <1>1, <1>2, <1>3 DEF AddStep, AddClient, SafeBut, Slotted, FreeIdle,
     NotRestarting, Requeues
<1> QED
  BY <1>7, <1>8, <1>9 DEF SafeBut, Slotted

\* schedule's final close.
LEMMA CloseSafe ==
  ASSUME NEW T, SafeBut(T), TypeInv', FinalClose
  PROVE  SafeBut(T)'
<1>1. /\ state \in [Slots -> States] /\ at \in Slots /\ state[at] = "CLOSING"
      /\ DOMAIN conn = Slots /\ TypeInv
  BY DEF SafeBut, TypeInv, TypesOK, ServersOK, LoopOK, FinalClose
<1>2. /\ conn' = [conn EXCEPT ![at] = "none"] /\ state' = [state EXCEPT ![at] = "UNUSED"]
      /\ UNCHANGED <<running, method, frames, todo, disk, prot, work, phase>>
  BY DEF FinalClose, AdvanceConn, job
<1>3. work[at] = NoWork
  BY <1>1 DEF SafeBut, Slotted, NoWorkStranded, Requeues
<1>4. Keeps
  BY <1>2 DEF Keeps, Kept, OutOf, Listed
<1>5. Grows
  BY <1>2 DEF Grows
<1>6. NoneLostBut(T)' /\ CompleteBut(T)'
  BY <1>1, <1>2, <1>4, <1>5, KeepsSafe, GrowsSafe DEF SafeBut
<1>7. NoWorkStranded'
  BY <1>1, <1>2, <1>3 DEF SafeBut, Slotted, NoWorkStranded
<1>8. FreeIdle' /\ NotRestarting'
  BY <1>1, <1>2 DEF SafeBut, Slotted, FreeIdle, NotRestarting, Requeues
<1> QED
  BY <1>6, <1>7, <1>8 DEF SafeBut, Slotted

\* frame_is_done: this_frame_done has made sure of all pixels.
LEMMA DoneSafe ==
  ASSUME NEW T, SafeBut(T), TypeInv', FrameIsDone
  PROVE  SafeBut(T)'
<1> DEFINE f == frames[fpos]
<1>1. /\ TypeInv /\ fpos \in 1 .. Len(frames) /\ f \in Listed /\ f \in FrameNums
  BY DEF SafeBut, TypeInv, TypesOK, JobOK, LoopOK, FrameIsDone, Listed
<1>2. /\ todo[f] = <<>> /\ NoneOutstanding(f) /\ prot' = prot \cup {f}
      /\ frames' = RemoveFrame(fpos)
      /\ UNCHANGED <<todo, disk, conn, state, work, phase>>
  BY DEF FrameIsDone, loop
<1> HIDE DEF f
<1>3. Listed' \subseteq Listed
  <2>1. frames \in Seq(FrameNums) /\ fpos \in 1 .. Len(frames)
    BY <1>1 DEF TypeInv, TypesOK, JobOK
  <2>2. ASSUME NEW j \in DOMAIN RemoveFrame(fpos)
        PROVE  \E i \in DOMAIN frames : RemoveFrame(fpos)[j] = frames[i]
    <3> DEFINE A == SubSeq(frames, 1, fpos - 1)
               B == SubSeq(frames, fpos + 1, Len(frames))
    <3>1. fpos \in Nat /\ Len(frames) \in Nat /\ 1 <= fpos /\ fpos <= Len(frames)
      BY <2>1
    <3>2. /\ A \in Seq(FrameNums) /\ Len(A) = fpos - 1
          /\ \A k \in 1 .. fpos - 1 : A[k] = frames[k]
      <4>1. \A k \in 1 .. fpos - 1 : frames[k] \in FrameNums
        BY <2>1
      <4> QED
        BY <2>1, <3>1, <4>1
    <3>3. /\ B \in Seq(FrameNums) /\ Len(B) = Len(frames) - fpos
          /\ \A k \in 1 .. Len(frames) - fpos : B[k] = frames[fpos + k]
      <4>1. \A k \in fpos + 1 .. Len(frames) : frames[k] \in FrameNums
        BY <2>1
      <4>2. Len(B) = Len(frames) - fpos
        BY <2>1, <3>1
      <4> QED
        BY <2>1, <3>1, <4>1, <4>2
    <3>4. RemoveFrame(fpos) = A \o B
      BY DEF RemoveFrame
    <3> HIDE DEF A, B
    <3>5. j \in 1 .. Len(A) + Len(B)
      BY <3>2, <3>3, <3>4
    <3>6. CASE j <= Len(A)
      <4>1. (A \o B)[j] = A[j] /\ j \in 1 .. fpos - 1
        BY <3>1, <3>2, <3>3, <3>5, <3>6
      <4>2. j \in DOMAIN frames
        BY <2>1, <3>1, <4>1
      <4> QED
        BY <3>2, <3>4, <4>1, <4>2
    <3>7. CASE ~(j <= Len(A))
      <4>1. (A \o B)[j] = B[j - Len(A)] /\ j - Len(A) \in 1 .. Len(frames) - fpos
        BY <3>1, <3>2, <3>3, <3>5, <3>7
      <4>2. fpos + (j - Len(A)) \in DOMAIN frames
        BY <2>1, <3>1, <4>1
      <4> QED
        BY <3>3, <3>4, <4>1, <4>2
    <3> QED
      BY <3>6, <3>7
  <2> QED
    BY <1>2, <2>2 DEF Listed
<1>4. Keeps
  BY <1>2, <1>3 DEF Keeps, Kept, OutOf
<1>5. NoneLostBut(T)'
  BY <1>4, KeepsSafe DEF SafeBut
<1>6. Image \subseteq disk[f] \cup T[f]
  <2>1. ASSUME NEW s \in Slots PROVE work[s].frame # f
    <3>1. CASE work[s] = NoWork
      BY <1>1, <3>1, ProtocolAssumption DEF NoWork, Span, NoFrame, FrameNums
    <3>2. CASE work[s] # NoWork
      BY <1>2, <3>2 DEF SafeBut, Slotted, NoWorkStranded, NoneOutstanding
    <3> QED
      BY <3>1, <3>2
  <2>2. OutOf(f) = {} /\ Pixels(todo[f]) = {}
    BY <1>2, <2>1 DEF OutOf, Pixels
  <2> QED
    BY <1>1, <2>2 DEF SafeBut, NoneLostBut
<1>7. CompleteBut(T)'
  BY <1>2, <1>6 DEF SafeBut, CompleteBut
<1>8. Slotted'
  BY <1>2 DEF SafeBut, Slotted, NoWorkStranded, FreeIdle, NotRestarting
<1> QED
  BY <1>5, <1>7, <1>8 DEF SafeBut

\* task_server gives the slot at hand a lump of the frame at hand, or finds it
\* gone and puts the lump back.
LEMMA AssignSafe ==
  ASSUME NEW T, SafeBut(T), TypeInv', NEW lump \in 1 .. MaxLump,
         TaskAssign(lump) \/ TaskLinesFail(lump)
  PROVE  SafeBut(T)'
<1> DEFINE q == todo[Fr]
           x == Lump(q, lump)
           rest == WithoutLump(q, lump)
<1>1. /\ Tasking /\ phase = "assign" /\ q # <<>> /\ Idle(at) /\ phase' = phase
      /\ UNCHANGED <<disk, prot, frames, conn>>
  BY DEF TaskAssign, TaskLinesFail, CanAssign, Eligible, Tasking, Answer
<1>2. /\ Fr \in FrameNums /\ at \in Slots /\ x \in SpanSet /\ x.frame = Fr
      /\ rest \in Seq(SpanSet)
  BY <1>1, LumpType DEF SafeBut
<1>3. Pixels(q) = PixelsOf(x) \cup Pixels(rest)
  <2>1. q \in Seq(SpanSet)
    BY <1>2 DEF SafeBut, TypeInv, TypesOK, JobOK, TodoOK
  <2>2. lump \in Nat \ {0}
    BY RemrtAssumption
  <2> QED
    BY <1>1, <2>1, <2>2, LumpDivides
<1>4. /\ TypeInv /\ todo \in [FrameNums -> Seq(SpanSet)] /\ state \in [Slots -> States]
      /\ work \in [Slots -> SpanSet \cup {NoWork}] /\ conn[at] # "none"
      /\ work[at] = NoWork /\ state[at] \in Requeues
  <2>1. work[at] = NoWork /\ state[at] \in Requeues
    BY <1>1 DEF Idle, Ready
  <2>2. conn[at] # "none"
    BY <1>2, <2>1 DEF SafeBut, Slotted, FreeIdle
  <2> QED
    BY <2>1, <2>2 DEF SafeBut, TypeInv, TypesOK, JobOK, TodoOK, ServersOK
<1> SUFFICES Keeps /\ Slotted'
  <2>1. Grows
    BY <1>1 DEF Grows
  <2> QED
    BY <1>1, <1>4, <2>1, KeepsSafe, GrowsSafe DEF SafeBut
<1>5. Listed' = Listed /\ Listed \subseteq FrameNums
  BY <1>1, <1>4, ListedType DEF Listed
<1>6. CASE TaskAssign(lump)
  <2>1. /\ work' = [work EXCEPT ![at] = x] /\ todo' = [todo EXCEPT ![Fr] = rest]
        /\ state' = state
    BY <1>6 DEF TaskAssign
  <2> HIDE DEF x, rest
  <2>2. ASSUME NEW f \in Listed PROVE Kept(f) \subseteq Kept(f)'
    <3>1. /\ OutOf(f) \subseteq OutOf(f)'
          /\ x.frame = f => PixelsOf(x) \subseteq OutOf(f)'
      <4>1. work[at].frame = f => PixelsOf(work[at]) = {}
        BY <1>4 DEF PixelsOf, NoWork, Span
      <4> QED
        BY <1>2, <1>4, <2>1, <4>1, OutWithout
    <3>2. CASE f = Fr
      <4>1. todo'[f] = rest
        BY <1>2, <1>4, <2>1, <3>2
      <4> QED
        BY <1>1, <1>2, <1>3, <3>1, <3>2, <4>1 DEF Kept
    <3>3. CASE f # Fr
      <4>1. todo'[f] = todo[f]
        BY <1>4, <1>5, <2>1, <3>3
      <4> QED
        BY <1>1, <3>1, <4>1 DEF Kept
    <3> QED
      BY <3>2, <3>3
  <2>3. Slotted'
    BY <1>1, <1>2, <1>4, <2>1
       DEF SafeBut, Slotted, NoWorkStranded, FreeIdle, NotRestarting
  <2> QED
    BY <1>5, <2>2, <2>3 DEF Keeps
<1>7. CASE TaskLinesFail(lump)
  <2>1. /\ work' = work /\ todo' = [todo EXCEPT ![Fr] = Push(x, rest)]
        /\ state' = [state EXCEPT ![at] = "CLOSING"]
    BY <1>7 DEF TaskLinesFail
  <2> HIDE DEF x, rest
  <2>2. ASSUME NEW f \in Listed PROVE Kept(f) \subseteq Kept(f)'
    <3>1. Pixels(Push(x, rest)) = PixelsOf(x) \cup Pixels(rest)
      BY <1>2, PixelsPush
    <3>2. Pixels(todo[f]) = Pixels(todo'[f])
      <4>1. CASE f = Fr
        BY <1>2, <1>3, <1>4, <2>1, <3>1, <4>1
      <4>2. CASE f # Fr
        BY <1>4, <1>5, <2>1, <4>2
      <4> QED
        BY <4>1, <4>2
    <3>3. OutOf(f)' = OutOf(f)
      BY <2>1 DEF OutOf
    <3> QED
      BY <1>1, <3>2, <3>3 DEF Kept
  <2>3. Slotted'
    BY <1>1, <1>2, <1>4, <2>1 DEF SafeBut, Slotted, NoWorkStranded, FreeIdle,
       NotRestarting, Requeues, TypeInv, TypesOK
  <2> QED
    BY <1>5, <2>2, <2>3 DEF Keeps
<1> QED
  BY <1>6, <1>7

\* ph_pixels stores the pixels its server was assigned; those of a frame that
\* has been thrown away are passed over.
LEMMA PixelsSafe ==
  ASSUME NEW T, SafeBut(T), TypeInv', NEW s \in Slots,
         \/ \E slow \in BOOLEAN : PixelsStored(s, slow)
         \/ PixelsUnopened(s) /\ work[s].frame \notin Listed
  PROVE  SafeBut(T)'
<1>1. /\ work' = [work EXCEPT ![s] = NoWork] /\ HandlerFrame /\ todo' = todo
      /\ phase = "input" /\ phase' = phase
      /\ state' \in {state, [state EXCEPT ![s] = "CLOSING"]}
  BY DEF PixelsStored, PixelsUnopened, HandlerFrame, Hearing, loop
<1>2. /\ TypeInv /\ state \in [Slots -> States]
      /\ work \in [Slots -> SpanSet \cup {NoWork}]
      /\ disk \in [FrameNums -> SUBSET Image] /\ Listed \subseteq FrameNums
  BY ListedType DEF SafeBut, TypeInv, TypesOK, JobOK, ServersOK
<1>3. /\ Grows
      /\ \A f \in Listed : work[s].frame = f => PixelsOf(work[s]) \subseteq disk'[f]
  <2>1. CASE \E slow \in BOOLEAN : PixelsStored(s, slow)
    <3>1. /\ work[s].frame \in FrameNums
          /\ disk' = [disk EXCEPT ![work[s].frame] = @ \cup PixelsOf(work[s])]
      BY <1>2, <2>1 DEF PixelsStored
    <3> QED
      BY <1>2, <3>1 DEF Grows
  <2>2. CASE PixelsUnopened(s) /\ work[s].frame \notin Listed
    BY <2>2 DEF PixelsUnopened, Grows
  <2> QED
    BY <2>1, <2>2
<1>4. Keeps
  <2>1. Listed' = Listed
    BY <1>1 DEF HandlerFrame, Listed
  <2>2. ASSUME NEW f \in Listed PROVE Kept(f) \subseteq Kept(f)'
    <3>1. OutOf(f) \subseteq OutOf(f)' \cup (IF work[s].frame = f THEN PixelsOf(work[s]) ELSE {})
      BY <1>1, <1>2, OutWithout
    <3>2. disk[f] \subseteq disk'[f]
      BY <1>2, <1>3 DEF Grows
    <3> QED
      BY <1>1, <1>3, <3>1, <3>2 DEF Kept
  <2> QED
    BY <2>1, <2>2 DEF Keeps
<1>5. NoneLostBut(T)' /\ CompleteBut(T)'
  BY <1>1, <1>2, <1>3, <1>4, KeepsSafe, GrowsSafe DEF SafeBut, HandlerFrame
<1>6. NoWorkStranded'
  BY <1>1, <1>2 DEF SafeBut, Slotted, NoWorkStranded, HandlerFrame
<1>7. FreeIdle' /\ NotRestarting'
  BY <1>1, <1>2 DEF SafeBut, Slotted, FreeIdle, NotRestarting, HandlerFrame, Requeues
<1> QED
  BY <1>5, <1>6, <1>7 DEF SafeBut, Slotted

\* cd_reset throws the unfinished frames away as a whole.
LEMMA ResetSafe ==
  ASSUME NEW T, SafeBut(T), TypeInv', NEW s \in Slots, CmdReset(s)
  PROVE  SafeBut(T)'
<1>1. /\ UNCHANGED <<disk, prot, conn, work, state>> /\ phase' # "restart"
      /\ frames' = <<>> \/ UNCHANGED <<frames, todo>>
  BY DEF CmdReset, PhCmd
<1>2. CASE UNCHANGED <<frames, todo>>
  <2>1. QuietStep
    BY <1>1, <1>2 DEF QuietStep, Listed
  <2> QED
    BY <2>1, QuietSafe
<1>3. CASE frames' = <<>>
  <2>1. NoneLostBut(T)'
    <3>1. Listed' = {}
      BY <1>3 DEF Listed
    <3> QED
      BY <3>1 DEF NoneLostBut
  <2>2. Grows
    BY <1>1 DEF Grows
  <2>3. CompleteBut(T)'
    BY <1>1, <2>2, GrowsSafe DEF SafeBut
  <2>4. Slotted'
    BY <1>1 DEF SafeBut, Slotted, NoWorkStranded, FreeIdle, NotRestarting
  <2> QED
    BY <2>1, <2>3, <2>4 DEF SafeBut
<1> QED
  BY <1>1, <1>2, <1>3

-----------------------------------------------------------------------------
(* Every step is of one of these kinds.                                    *)

\* start_servers, connections and the loops of schedule that move no work.
LEMMA LoopSafe ==
  ASSUME NEW T, SafeBut(T), TypeInv',
         \/ StartRemote \/ EndHosting \/ BeginSchedule \/ EndInput
         \/ PassConn \/ EndConn \/ FrameNotDone \/ EndFrames \/ CheckSetup(FALSE)
         \/ TaskRefused \/ NextPass \/ NextFrame \/ EndAssign
  PROVE  SafeBut(T)'
<1>1. phase # "restart"
  BY DEF SafeBut, Slotted, NotRestarting
<1>2. UNCHANGED <<todo, disk, work, conn, state, prot, frames>> /\ phase' # "restart"
  <2>1. CASE StartRemote \/ EndHosting \/ BeginSchedule \/ EndInput
    BY <2>1 DEF StartRemote, Hosting, EndHosting, BeginSchedule, EndInput, job, servers
  <2>2. CASE PassConn \/ EndConn \/ FrameNotDone \/ EndFrames \/ CheckSetup(FALSE)
    BY <1>1, <2>2 DEF PassConn, EndConn, FrameNotDone, EndFrames, CheckSetup, AdvanceConn,
       job, servers
  <2>3. CASE TaskRefused \/ NextPass \/ NextFrame \/ EndAssign
    BY <1>1, <2>3 DEF TaskRefused, Answer, NextPass, NextFrame, EndAssign, job, servers
  <2> QED
    BY <2>1, <2>2, <2>3
<1>3. QuietStep
  BY <1>2 DEF QuietStep, Listed
<1> QED
  BY <1>3, QuietSafe

\* The steps that drop a server and do nothing else to the work.
LEMMA DropsSafe ==
  ASSUME NEW T, SafeBut(T), TypeInv', NEW s \in Slots,
         \/ AutoDrop(s) \/ LoseServer(s) \/ PixelsMismatch(s, work[s], TRUE)
         \/ \E n \in 0 .. NPix : PixelsUnwritten(s, n)
         \/ (PhDirbuildReply(s) \/ PhGettreesReply(s)) /\ DropServer(s)
         \/ \E t \in Slots : CmdDrop(t, s)
         \/ EndCmd /\ cmdFrom = s
         \/ \E n \in 1 .. 2 : at = s /\ (SendDirbuild(n) \/ TaskGettrees(n))
         \/ at = s /\ (CheckSetup(TRUE) \/ TaskTardy)
  PROVE  SafeBut(T)'
<1>1. phase # "restart"
  BY DEF SafeBut, Slotted, NotRestarting
<1>2. CASE AutoDrop(s) \/ (\E t \in Slots : CmdDrop(t, s)) \/ (EndCmd /\ cmdFrom = s)
  <2>1. DropStep(s, 1)
    BY <1>1, <1>2 DEF AutoDrop, CmdDrop, EndCmd, DropServer, DropStep, Grows, loop
  <2> QED
    BY <2>1, DropSafe
<1>3. CASE \/ LoseServer(s) \/ PixelsMismatch(s, work[s], TRUE)
           \/ (PhDirbuildReply(s) \/ PhGettreesReply(s)) /\ DropServer(s)
  <2>1. DropServer(s) /\ HandlerFrame /\ disk' = disk
    BY <1>3 DEF LoseServer, PixelsMismatch, PhDirbuildReply, PhGettreesReply
  <2>2. DropStep(s, 1)
    BY <1>1, <2>1 DEF DropServer, HandlerFrame, DropStep, Grows, loop
  <2> QED
    BY <2>2, DropSafe
<1>4. ASSUME NEW n \in 0 .. NPix, PixelsUnwritten(s, n) PROVE SafeBut(T)'
  <2>1. Grows
    <3>1. disk \in [FrameNums -> SUBSET Image]
      BY DEF SafeBut, TypeInv, TypesOK, JobOK
    <3> QED
      BY <1>4, <3>1 DEF PixelsUnwritten, Grows
  <2>2. DropStep(s, 1)
    BY <1>1, <1>4, <2>1 DEF PixelsUnwritten, DropServer, HandlerFrame, DropStep, loop
  <2> QED
    BY <2>2, DropSafe
<1>5. ASSUME NEW n \in 1 .. 2, at = s, SendDirbuild(n) \/ TaskGettrees(n) PROVE SafeBut(T)'
  <2>1. DropTimes(s, n) /\ UNCHANGED <<conn, prot, frames, disk, phase>>
    BY <1>5 DEF SendDirbuild, AdvanceConn, TaskGettrees, Answer
  <2>2. DropStep(s, n)
    BY <1>1, <2>1 DEF DropStep, Grows
  <2> QED
    BY <2>2, DropSafe
<1>6. CASE at = s /\ (CheckSetup(TRUE) \/ TaskTardy)
  <2>1. DropTimes(s, 1) /\ UNCHANGED <<conn, prot, frames, disk, phase>>
    BY <1>6 DEF CheckSetup, AdvanceConn, TaskTardy, Answer, DropServer
  <2>2. DropStep(s, 1)
    BY <1>1, <2>1 DEF DropStep, Grows
  <2> QED
    BY <2>2, DropSafe
<1> QED
  BY <1>2, <1>3, <1>4, <1>5, <1>6

\* The steps that move a server on in its life, without work.
LEMMA BecomesSafe ==
  ASSUME NEW T, SafeBut(T), TypeInv', NEW s \in Slots,
         \/ PhVersion(s) /\ state[s] \notin Requeues
         \/ (PhDirbuildReply(s) \/ PhGettreesReply(s)) /\ ~DropServer(s)
         \/ at = s /\ (SendDirbuild(0) \/ TaskGettrees(0))
  PROVE  SafeBut(T)'
<1>1. /\ phase # "restart" /\ TypeInv
      /\ state[s] \notin Requeues => work[s] = NoWork
      /\ state[s] \in Requeues => conn[s] # "none"
  BY DEF SafeBut, Slotted, NotRestarting, NoWorkStranded, FreeIdle
<1>2. CASE PhVersion(s) /\ state[s] \notin Requeues
  <2>1. BecomeStep(s, "VERSOK")
    BY <1>1, <1>2 DEF PhVersion, Hearing, Become, HandlerFrame, BecomeStep, Requeues, loop
  <2> QED
    BY <2>1, BecomeSafe DEF States
<1>3. CASE (PhDirbuildReply(s) \/ PhGettreesReply(s)) /\ ~DropServer(s)
  <2>1. PICK st \in Requeues :
          /\ Become(s, st) /\ conn[s] # "none" /\ HandlerFrame /\ disk' = disk
          /\ state[s] \in {"DOING_DIRBUILD", "DOING_GETTREES"}
    BY <1>3 DEF PhDirbuildReply, PhGettreesReply, Hearing, Requeues
  <2>2. work[s] = NoWork
    BY <1>1, <2>1 DEF Requeues
  <2>3. BecomeStep(s, st)
    BY <1>1, <1>3, <2>1, <2>2 DEF Become, HandlerFrame, BecomeStep, loop
  <2> QED
    BY <2>3, BecomeSafe DEF States, Requeues
<1>4. CASE at = s /\ SendDirbuild(0)
  <2>1. BecomeStep(s, "DOING_DIRBUILD")
    BY <1>1, <1>4 DEF SendDirbuild, AdvanceConn, Become, BecomeStep, Requeues
  <2> QED
    BY <2>1, BecomeSafe DEF States
<1>5. CASE at = s /\ TaskGettrees(0)
  <2>1. /\ Idle(s) /\ state' = [state EXCEPT ![s] = "DOING_GETTREES"]
        /\ UNCHANGED <<phase, todo, disk, work, conn, prot, frames>>
    BY <1>5 DEF TaskGettrees, Eligible, Answer
  <2>2. work[s] = NoWork
    BY <1>1, <2>1 DEF Idle, Ready, Requeues
  <2>3. BecomeStep(s, "DOING_GETTREES")
    BY <1>1, <1>5, <2>1, <2>2 DEF BecomeStep, Requeues
  <2> QED
    BY <2>3, BecomeSafe DEF States
<1> QED
  BY <1>2, <1>3, <1>4, <1>5

\* start_servers and pkg_accept: the new server has no work.
LEMMA ConnectSafe ==
  ASSUME NEW T, SafeBut(T), TypeInv', StartLocal \/ AcceptTcp
  PROVE  SafeBut(T)'
<1>1. phase # "restart"
  BY DEF SafeBut, Slotted, NotRestarting
<1>2. CASE FreeSlot = {}
  <2>1. QuietStep
    BY <1>2 DEF StartLocal, AcceptTcp, Hosting, job, servers, loop, QuietStep, Listed
  <2> QED
    BY <2>1, QuietSafe
<1>3. CASE FreeSlot # {}
  <2>1. \E s \in FreeSlot, kind \in {"tcp", "pipe"} : AddStep(s, kind)
    BY <1>1, <1>3 DEF StartLocal, AcceptTcp, Hosting, job, loop, AddStep
  <2> QED
    BY <2>1, AddSafe
<1> QED
  BY <1>2, <1>3

\* The handlers.  MSG_VERSION comes before a server has been given work.
LEMMA ReceiveSafe ==
  ASSUME NEW T, SafeBut(T), TypeInv', NEW s \in Slots,
         \/ LoseServer(s)
         \/ PhVersion(s) /\ state[s] \notin Requeues
         \/ PhDirbuildReply(s) \/ PhGettreesReply(s)
         \/ PixelsIgnored(s) \/ PixelsMismatch(s, work[s], TRUE)
         \/ \E slow \in BOOLEAN : PixelsStored(s, slow)
         \/ PixelsUnopened(s) /\ work[s].frame \notin Listed
         \/ \E n \in 0 .. NPix : PixelsUnwritten(s, n)
  PROVE  SafeBut(T)'
<1>1. CASE LoseServer(s) \/ PixelsMismatch(s, work[s], TRUE)
           \/ \E n \in 0 .. NPix : PixelsUnwritten(s, n)
  BY <1>1, DropsSafe
<1>2. CASE PhDirbuildReply(s) \/ PhGettreesReply(s)
  BY <1>2, DropsSafe, BecomesSafe
<1>3. CASE PixelsIgnored(s)
  <2>1. QuietStep
    BY <1>3 DEF PixelsIgnored, Hearing, job, servers, loop, QuietStep, Listed
  <2> QED
    BY <2>1, QuietSafe
<1>4. CASE \/ \E slow \in BOOLEAN : PixelsStored(s, slow)
           \/ PixelsUnopened(s) /\ work[s].frame \notin Listed
  BY <1>4, PixelsSafe
<1>5. CASE PhVersion(s) /\ state[s] \notin Requeues
  BY <1>5, BecomesSafe
<1> QED
  BY <1>1, <1>2, <1>3, <1>4, <1>5

\* A pass of schedule, and the ends of check_input: only a MSG_MATRIX that
\* cannot be sent (TaskMatrixFail) forgets work.
LEMMA PassSafe ==
  ASSUME NEW T, SafeBut(T), TypeInv',
         \/ BeginSchedule \/ FinalClose \/ PassConn \/ EndConn
         \/ \E failed \in 0 .. 2 : SendDirbuild(failed) \/ TaskGettrees(failed)
         \/ \E late \in BOOLEAN : CheckSetup(late)
         \/ FrameIsDone \/ FrameNotDone \/ EndFrames \/ TaskTardy \/ TaskRefused
         \/ \E lump \in 1 .. MaxLump : TaskAssign(lump) \/ TaskLinesFail(lump)
         \/ NextPass \/ NextFrame \/ EndAssign \/ EndInput \/ EndHosting
  PROVE  SafeBut(T)'
<1>1. at \in Slots \cup {NoSlot}
  BY DEF SafeBut, TypeInv, TypesOK, LoopOK
<1>2. CASE \/ BeginSchedule \/ PassConn \/ EndConn \/ FrameNotDone \/ EndFrames
           \/ CheckSetup(FALSE) \/ TaskRefused \/ NextPass \/ NextFrame \/ EndAssign
           \/ EndInput \/ EndHosting
  BY <1>2, LoopSafe
<1>3. CASE FrameIsDone
  BY <1>3, DoneSafe
<1>4. CASE CheckSetup(TRUE) \/ TaskTardy
  <2>1. at \in Slots
    BY <1>1, <1>4 DEF CheckSetup, TaskTardy, Tasking
  <2> QED
    BY <1>4, <2>1, DropsSafe
<1>5. ASSUME NEW failed \in 0 .. 2, SendDirbuild(failed) \/ TaskGettrees(failed)
      PROVE  SafeBut(T)'
  <2>1. at \in Slots
    BY <1>1, <1>5 DEF SendDirbuild, TaskGettrees, Eligible, Tasking
  <2>2. CASE failed = 0
    BY <1>5, <2>1, <2>2, BecomesSafe
  <2>3. CASE failed # 0
    <3>1. failed \in 1 .. 2
      BY <2>3
    <3> QED
      BY <1>5, <2>1, <3>1, DropsSafe
  <2> QED
    BY <2>2, <2>3
<1>6. ASSUME NEW lump \in 1 .. MaxLump, TaskAssign(lump) \/ TaskLinesFail(lump)
      PROVE  SafeBut(T)'
  BY <1>6, AssignSafe
<1>7. CASE FinalClose
  BY <1>7, CloseSafe
<1> QED
  BY <1>2, <1>3, <1>4, <1>5, <1>6, <1>7

\* At the start every pixel waits in fr_todo.
LEMMA InitSafe == Init => SafeInv
<1> SUFFICES ASSUME Init PROVE SafeInv
  OBVIOUS
<1>1. TypeInv
  BY InitType
<1>2. Slotted
  BY DEF Init, Slotted, NoWorkStranded, FreeIdle, NotRestarting, Requeues
<1>3. NoPixelLost
  <2> SUFFICES ASSUME NEW f \in Listed PROVE Image \subseteq Pixels(todo[f])
    BY DEF NoPixelLost
  <2>1. f \in FrameNums
    BY <1>1, ListedType
  <2>2. todo[f] = <<Span(f, 0, NPix - 1)>>
    BY <2>1 DEF Init
  <2>3. 1 \in DOMAIN todo[f] /\ todo[f][1] = Span(f, 0, NPix - 1)
    BY <2>2
  <2>4. PixelsOf(todo[f][1]) = Image
    BY <2>3 DEF PixelsOf, Span, Image
  <2> QED
    BY <2>3, <2>4 DEF Pixels
<1>4. FinishedComplete
  BY DEF Init, FinishedComplete
<1> QED
  BY <1>1, <1>2, <1>3, <1>4 DEF SafeInv

\* With nothing given up it is the invariant itself.
LEMMA SafeNone ==
  ASSUME NEW T, T = NoneTorn
  PROVE  SafeInv <=> SafeBut(T)
<1>1. ASSUME TypeInv PROVE Listed \subseteq FrameNums /\ prot \subseteq FrameNums
  BY <1>1, ListedType DEF TypeInv, TypesOK, JobOK
<1>2. \A f \in FrameNums : T[f] = {}
  BY DEF NoneTorn
<1>3. ASSUME TypeInv PROVE NoPixelLost <=> NoneLostBut(T)
  BY <1>1, <1>2, <1>3 DEF NoPixelLost, NoneLostBut
<1>4. ASSUME TypeInv PROVE FinishedComplete <=> CompleteBut(T)
  <2>1. \A f \in prot : disk[f] \subseteq Image /\ T[f] = {}
    BY <1>1, <1>2, <1>4 DEF TypeInv, TypesOK, JobOK
  <2> QED
    BY <2>1 DEF FinishedComplete, CompleteBut
<1> QED
  BY <1>3, <1>4 DEF SafeInv, SafeBut

=============================================================================
